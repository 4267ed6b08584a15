---------------------------- MODULE UsageCostProofs ----------------------------
(***************************************************************************)
(* What UsageCost promises, proved for any responses, accounts, readers,   *)
(* and sizes of the channel and of a batch.                                *)
(***************************************************************************)
EXTENDS UsageCost, TLAPS

-------------------------------------------------------------------------------
\* Putting two bags of records together adds up the copies.
LEMMA BagsAdd ==
  ASSUME NEW b, NEW c, IsRecordBag(b), IsRecordBag(c)
  PROVE  /\ IsRecordBag(b (+) c)
         /\ \A r : Copies(r, b (+) c) = Copies(r, b) + Copies(r, c)
BY DEF IsRecordBag, IsABag, BagToSet, BagIn, Copies, (+)

\* The bag of one record.
LEMMA OneRecord ==
  ASSUME NEW r \in Responses
  PROVE  /\ IsRecordBag(SetToBag({r}))
         /\ \A q : Copies(q, SetToBag({r})) = IF q = r THEN 1 ELSE 0
BY DEF IsRecordBag, IsABag, BagToSet, SetToBag, BagIn, Copies

\* Taking a record out of a bag removes one copy.
LEMMA TakeOne ==
  ASSUME NEW b, IsRecordBag(b), NEW r \in Responses, BagIn(r, b)
  PROVE  /\ IsRecordBag(b (-) SetToBag({r}))
         /\ \A q : Copies(q, b (-) SetToBag({r})) = Copies(q, b) - (IF q = r THEN 1 ELSE 0)
BY DEF IsRecordBag, IsABag, BagToSet, SetToBag, BagIn, Copies, (-)

\* The empty bag holds nothing, and a bag that holds nothing is empty.
LEMMA NoRecord ==
  /\ IsRecordBag(EmptyBag)
  /\ BagToSet(EmptyBag) = {}
  /\ \A r : Copies(r, EmptyBag) = 0
  /\ \A b : IsABag(b) /\ BagToSet(b) = {} => b = EmptyBag
BY DEF IsRecordBag, IsABag, BagToSet, SetToBag, EmptyBag, BagIn, Copies
-------------------------------------------------------------------------------
\* What the end of a body does to kind, channel and lost.
LEMMA Emitted ==
  ASSUME TypeOK, NEW r \in Responses, Emit(r)
  PROVE  \/ UNCHANGED <<kind, channel, lost>>
         \/ /\ kind[r] = "open"
            /\ kind' = [kind EXCEPT ![r] = "nothing"]
            /\ UNCHANGED <<channel, lost>>
         \/ /\ kind[r] = "open"
            /\ \E k \in Recorded : kind' = [kind EXCEPT ![r] = k]
            /\ \/ channel' = channel (+) SetToBag({r}) /\ lost' = lost
               \/ lost' = lost (+) SetToBag({r}) /\ channel' = channel
BY DEF Emit, Record

(***************************************************************************)
(* Every variable of UsageCost keeps its type: the writer is where its     *)
(* batch and its removals say.                                             *)
(***************************************************************************)
THEOREM TypeCorrect == Spec => []TypeOK
<1>1. Init => TypeOK
  BY NoRecord DEF Init, TypeOK, Bodies, Kinds, Costs, NoCost, CallType
<1>2. ASSUME TypeOK, [Next]_vars
      PROVE  TypeOK'
  <2> USE UsageAssumption DEF UsageAssumption, TypeOK
  <2>1. ASSUME NEW r \in Responses, BodyStep(r) PROVE TypeOK'
    <3>1. UNCHANGED <<writeVars, windowVars, costVars>>
      BY <2>1 DEF BodyStep, Wrap, EndBody, DropBody
    <3>2. body' \in [Responses -> Bodies]
      BY <1>2, <2>1 DEF BodyStep, Wrap, EndBody, DropBody, Bodies
    <3>3. UNCHANGED <<kind, channel, lost>> \/ Emit(r)
      BY <2>1 DEF BodyStep, Wrap, EndBody, DropBody
    <3>4. IsRecordBag(channel (+) SetToBag({r})) /\ IsRecordBag(lost (+) SetToBag({r}))
      BY <1>2, BagsAdd, OneRecord
    <3>5. kind' \in [Responses -> Kinds] /\ IsRecordBag(channel') /\ IsRecordBag(lost')
      BY <1>2, <3>3, <3>4, Emitted DEF Kinds, Recorded
    <3> QED
      BY <1>2, <3>1, <3>2, <3>5 DEF writeVars, windowVars, costVars
  <2>2. ASSUME NEW r \in Responses, Receive(r) PROVE TypeOK'
    <3>1. IsRecordBag(channel') /\ IsRecordBag(buf')
      BY <1>2, <2>2, BagsAdd, TakeOne, OneRecord DEF Receive
    <3>2. Copies(r, buf') = Copies(r, buf) + 1
      BY <1>2, <2>2, BagsAdd, OneRecord DEF Receive
    <3>3. Copies(r, buf) \in Nat
      BY <1>2 DEF Copies, IsRecordBag, IsABag, BagIn, BagToSet
    <3>4. buf' # EmptyBag
      BY <3>2, <3>3, NoRecord
    <3> QED
      BY <1>2, <2>2, <3>1, <3>4 DEF Receive, windowVars, costVars
  <2>3. CASE Tick
    BY <1>2, <2>3 DEF Tick, sendVars, windowVars, costVars
  <2>4. ASSUME writer = "insert"
        PROVE  AccountsIn(buf) # {} /\ AccountsIn(buf) \subseteq Accounts
    BY <1>2, <2>4, NoRecord DEF AccountsIn, IsRecordBag
  <2>5. CASE Insert
    <3>1. current' \in [Accounts -> SUBSET Responses]
      BY <1>2, <2>5 DEF Insert, Commit, PaidBy, IsRecordBag
    <3>2. IsRecordBag(rows') /\ IsRecordBag(buf')
      BY <1>2, <2>5, BagsAdd, NoRecord DEF Insert, Commit
    <3> QED
      BY <1>2, <2>4, <2>5, <3>1, <3>2 DEF Insert, Commit, sendVars, costVars
  <2>6. CASE InsertFails
    <3>1. IsRecordBag(lost') /\ IsRecordBag(buf')
      BY <1>2, <2>6, BagsAdd, NoRecord DEF InsertFails
    <3> QED
      BY <1>2, <2>4, <2>6, <3>1 DEF InsertFails, sendVars, windowVars, costVars
  <2>7. ASSUME NEW a \in Accounts, Invalidate(a) PROVE TypeOK'
    <3>1. ask' \in [Readers -> CallType]
      BY <1>2, <2>7 DEF Invalidate, CallType, Bases, Idle, Call
    <3>2. cost' \in [Accounts -> Costs]
      BY <1>2, <2>7 DEF Invalidate, Costs
    <3> QED
      BY <1>2, <2>7, <3>1, <3>2 DEF Invalidate, sendVars, windowVars
  <2>8. ASSUME NEW c \in Readers, ReaderStep(c) PROVE TypeOK'
    <3>1. UNCHANGED <<sendVars, writeVars, lost, windowVars>>
      BY <2>8 DEF ReaderStep, LookUp, ReadWindow, SumUp, Put, GiveUp
    <3>2. ask' \in [Readers -> CallType]
      BY <1>2, <2>8 DEF ReaderStep, LookUp, ReadWindow, SumUp, Put, GiveUp, CallType,
        Bases, Idle, Call
    <3>3. cost' \in [Accounts -> Costs]
      <4>1. ASSUME ask[c].place = "put"
            PROVE  [sum |-> ask[c].sum, how |-> ask[c].how] \in Sums
        BY <1>2, <4>1 DEF CallType, Idle, Call, Sums
      <4>2. CASE Put(c)
        BY <1>2, <4>1, <4>2 DEF Put, Costs
      <4> QED
        BY <1>2, <2>8, <4>2 DEF ReaderStep, LookUp, ReadWindow, SumUp, GiveUp
    <3> QED
      BY <1>2, <3>1, <3>2, <3>3 DEF sendVars, writeVars, windowVars
  <2>9. ASSUME NEW a \in Accounts, TimeStep(a) PROVE TypeOK'
    <3>1. CASE CostExpires(a)
      BY <1>2, <3>1 DEF CostExpires, Costs, sendVars, writeVars, windowVars
    <3>2. CASE WindowTurns(a)
      BY <1>2, <3>2 DEF WindowTurns, sendVars, writeVars, costVars
    <3>3. CASE PollUsage(a)
      BY <1>2, <3>3 DEF PollUsage, sendVars, writeVars, costVars
    <3> QED
      BY <2>9, <3>1, <3>2, <3>3 DEF TimeStep
  <2>10. CASE Restart
    <3>1. IsRecordBag(lost')
      BY <1>2, <2>10, BagsAdd DEF Restart
    <3> QED
      BY <1>2, <2>10, <3>1, NoRecord DEF Restart, Bodies, Kinds, Costs, CallType, windowVars
  <2>11. CASE UNCHANGED vars
    BY <1>2, <2>11 DEF vars
  <2> QED
    BY <1>2, <2>1, <2>2, <2>3, <2>5, <2>6, <2>7, <2>8, <2>9, <2>10, <2>11 DEF Next, Write
<1> QED
  BY <1>1, <1>2, PTL DEF Spec
-------------------------------------------------------------------------------
(***************************************************************************)
(* A response that is worth a record has exactly one, in the channel, the  *)
(* batch or the table, or it was lost.  By induction over the copies: each *)
(* step moves them from one bag to another, and only a body whose parser   *)
(* is still there adds one.                                                *)
(***************************************************************************)
THEOREM RecordsUnique == Spec => []RecordedOnce
<1>1. Init => RecordedOnce
  BY NoRecord DEF Init, RecordedOnce, Recorded
<1>2. ASSUME TypeOK, RecordedOnce, [Next]_vars
      PROVE  RecordedOnce'
  <2> DEFINE N(q) == Copies(q, channel) + Copies(q, buf) + Copies(q, rows) + Copies(q, lost)
  <2>1. ASSUME NEW q \in Responses
        PROVE  /\ Copies(q, channel) \in Nat /\ Copies(q, buf) \in Nat
               /\ Copies(q, rows) \in Nat /\ Copies(q, lost) \in Nat
    BY <1>2 DEF TypeOK, Copies, IsRecordBag, IsABag, BagIn, BagToSet
  <2>2. ASSUME NEW r \in Responses, BodyStep(r) PROVE RecordedOnce'
    <3>1. UNCHANGED <<kind, channel, lost>> \/ Emit(r)
      BY <2>2 DEF BodyStep, Wrap, EndBody, DropBody
    <3>2. UNCHANGED <<buf, rows>>
      BY <2>2 DEF BodyStep, Wrap, EndBody, DropBody, writeVars
    <3>3. CASE UNCHANGED <<kind, channel, lost>>
      BY <1>2, <3>2, <3>3 DEF RecordedOnce
    <3>4. CASE /\ kind[r] = "open" /\ kind' = [kind EXCEPT ![r] = "nothing"]
               /\ UNCHANGED <<channel, lost>>
      BY <1>2, <3>2, <3>4 DEF RecordedOnce, Recorded, TypeOK
    <3>5. CASE /\ kind[r] = "open"
               /\ \E k \in Recorded : kind' = [kind EXCEPT ![r] = k]
               /\ \/ channel' = channel (+) SetToBag({r}) /\ lost' = lost
                  \/ lost' = lost (+) SetToBag({r}) /\ channel' = channel
      <4> SUFFICES ASSUME NEW q \in Responses
                   PROVE  N(q)' = IF kind'[q] \in Recorded THEN 1 ELSE 0
        BY DEF RecordedOnce
      <4>1. N(q)' = N(q) + (IF q = r THEN 1 ELSE 0)
        BY <1>2, <2>1, <3>2, <3>5, BagsAdd, OneRecord DEF TypeOK
      <4>2. N(q) = IF kind[q] \in Recorded THEN 1 ELSE 0
        BY <1>2 DEF RecordedOnce
      <4> QED
        BY <1>2, <3>5, <4>1, <4>2 DEF Recorded, TypeOK
    <3> QED
      BY <1>2, <3>1, <3>3, <3>4, <3>5, Emitted
  <2>3. ASSUME NEW r \in Responses, Receive(r) PROVE RecordedOnce'
    <3> SUFFICES ASSUME NEW q \in Responses
                 PROVE  N(q)' = N(q)
      BY <1>2, <2>3 DEF RecordedOnce, Receive
    <3>1. UNCHANGED <<rows, lost>>
      BY <2>3 DEF Receive
    <3>2. Copies(q, channel') = Copies(q, channel) - (IF q = r THEN 1 ELSE 0)
      BY <1>2, <2>3, TakeOne DEF Receive, TypeOK
    <3>3. Copies(q, buf') = Copies(q, buf) + (IF q = r THEN 1 ELSE 0)
      BY <1>2, <2>3, BagsAdd, OneRecord DEF Receive, TypeOK
    <3> QED
      BY <2>1, <3>1, <3>2, <3>3
  <2>4. CASE Insert \/ InsertFails
    <3> SUFFICES ASSUME NEW q \in Responses
                 PROVE  N(q)' = N(q)
      BY <1>2, <2>4 DEF RecordedOnce, Insert, Commit, InsertFails, sendVars
    <3>1. channel' = channel /\ Copies(q, buf') = 0
      BY <2>4, NoRecord DEF Insert, Commit, InsertFails, sendVars
    <3>2. CASE Insert
      BY <1>2, <2>1, <3>1, <3>2, BagsAdd DEF Insert, Commit, TypeOK
    <3>3. CASE InsertFails
      BY <1>2, <2>1, <3>1, <3>3, BagsAdd DEF InsertFails, TypeOK
    <3> QED
      BY <2>4, <3>2, <3>3
  <2>5. CASE Restart
    <3> SUFFICES ASSUME NEW q \in Responses
                 PROVE  N(q)' = N(q) /\ (kind'[q] \in Recorded <=> kind[q] \in Recorded)
      BY <1>2 DEF RecordedOnce
    <3>1. rows' = rows /\ Copies(q, channel') = 0 /\ Copies(q, buf') = 0
      BY <2>5, NoRecord DEF Restart
    <3>2. Copies(q, lost') = Copies(q, lost) + Copies(q, channel) + Copies(q, buf)
      BY <1>2, <2>5, BagsAdd DEF Restart, TypeOK
    <3>3. kind'[q] \in Recorded <=> kind[q] \in Recorded
      BY <2>5 DEF Restart, Recorded
    <3> QED
      BY <2>1, <3>1, <3>2, <3>3
  <2>6. CASE UNCHANGED <<kind, channel, buf, rows, lost>>
    BY <1>2, <2>6 DEF RecordedOnce
  <2>7. ASSUME NEW c \in Readers, ReaderStep(c)
        PROVE  UNCHANGED <<kind, channel, buf, rows, lost>>
    BY <2>7 DEF ReaderStep, LookUp, ReadWindow, SumUp, Put, GiveUp, sendVars, writeVars
  <2>8. ASSUME NEW a \in Accounts, TimeStep(a) \/ Invalidate(a)
        PROVE  UNCHANGED <<kind, channel, buf, rows, lost>>
    BY <2>8 DEF TimeStep, CostExpires, WindowTurns, PollUsage, Invalidate,
      sendVars, writeVars
  <2>9. ASSUME Tick \/ UNCHANGED vars
        PROVE  UNCHANGED <<kind, channel, buf, rows, lost>>
    BY <2>9 DEF Tick, vars, sendVars
  <2> QED
    BY <1>2, <2>2, <2>3, <2>4, <2>5, <2>6, <2>7, <2>8, <2>9 DEF Next, Write
<1> QED
  BY <1>1, <1>2, TypeCorrect, PTL DEF Spec
-------------------------------------------------------------------------------
(***************************************************************************)
(* The strengthening for readers: the sum a reader is about to cache, too, *)
(* leaves nothing out but what the writer is about to remove, unless it is *)
(* known to be unsound.                                                    *)
(***************************************************************************)
SumExplained ==
  \A c \in Readers :
    ask[c].place = "put" /\ ask[c].how = "sound" =>
      current[ask[c].acct] \subseteq ask[c].sum \/ ask[c].acct \in touched

(***************************************************************************)
(* A cached cost leaves out a response of the window only for one of the   *)
(* reasons named, however many readers fill the cache while the writer     *)
(* empties it.                                                             *)
(***************************************************************************)
THEOREM CostsExplained == Spec => []CostExplained
<1> DEFINE Inv == CostExplained /\ SumExplained
<1>1. Init => Inv
  BY DEF Init, CostExplained, SumExplained, NoCost, Idle, Call
<1>2. ASSUME TypeOK, Inv, [Next]_vars
      PROVE  Inv'
  <2> USE DEF CostExplained, SumExplained, TypeOK
  <2>1. CASE UNCHANGED <<touched, current, cost, ask>>
    BY <1>2, <2>1
  <2>2. CASE Insert
    <3>1. ASSUME NEW a \in Accounts, a \notin AccountsIn(buf)
          PROVE  current'[a] = current[a]
      BY <1>2, <2>2, <3>1 DEF Insert, Commit, PaidBy, AccountsIn
    <3>2. touched = {} /\ touched' = AccountsIn(buf)
      BY <1>2, <2>2 DEF Insert, Commit
    <3>3. UNCHANGED <<cost, ask>>
      BY <2>2 DEF Insert, Commit, costVars
    <3>4. \A c \in Readers : ask[c].place = "put" => ask[c].acct \in Accounts
      BY <1>2 DEF CallType, Idle, Call
    <3> QED
      BY <1>2, <3>1, <3>2, <3>3, <3>4
  <2>3. CASE InsertFails
    <3>1. touched = {}
      BY <1>2, <2>3 DEF InsertFails
    <3> QED
      BY <1>2, <2>3, <3>1 DEF InsertFails, windowVars, costVars
  <2>4. ASSUME NEW a \in Accounts, Invalidate(a) PROVE Inv'
    BY <1>2, <2>4 DEF Invalidate, NoCost, windowVars
  <2>5. ASSUME NEW c \in Readers, ReaderStep(c) PROVE Inv'
    <3> USE DEF CallType, Idle, Call
    <3>1. UNCHANGED <<touched, current>>
      BY <2>5 DEF ReaderStep, LookUp, ReadWindow, SumUp, Put, GiveUp, writeVars, windowVars
    <3>2. CASE Put(c)
      BY <1>2, <3>1, <3>2 DEF Put
    <3>3. CASE SumUp(c)
      BY <1>2, <3>1, <3>3 DEF SumUp
    <3>4. CASE ReadWindow(c)
      BY <1>2, <3>1, <3>4 DEF ReadWindow
    <3>5. CASE GiveUp(c) \/ \E a \in Accounts : LookUp(c, a)
      BY <1>2, <3>1, <3>5 DEF GiveUp, LookUp
    <3> QED
      BY <2>5, <3>2, <3>3, <3>4, <3>5 DEF ReaderStep
  <2>6. ASSUME NEW a \in Accounts, TimeStep(a) PROVE Inv'
    <3> USE DEF CallType, Idle, Call
    <3>1. CASE CostExpires(a)
      BY <1>2, <3>1 DEF CostExpires, NoCost, writeVars, windowVars
    <3>2. CASE WindowTurns(a)
      BY <1>2, <3>2 DEF WindowTurns, writeVars, costVars
    <3>3. CASE PollUsage(a)
      BY <1>2, <3>3 DEF PollUsage, writeVars, costVars
    <3> QED
      BY <2>6, <3>1, <3>2, <3>3 DEF TimeStep
  <2>7. CASE Restart
    BY <1>2, <2>7 DEF Restart, NoCost, Idle, Call
  <2>8. ASSUME NEW r \in Responses, BodyStep(r) \/ Receive(r)
        PROVE  UNCHANGED <<touched, current, cost, ask>>
    BY <2>8 DEF BodyStep, Wrap, EndBody, DropBody, Receive, writeVars, windowVars, costVars
  <2>9. ASSUME Tick \/ UNCHANGED vars
        PROVE  UNCHANGED <<touched, current, cost, ask>>
    BY <2>9 DEF Tick, vars, windowVars, costVars
  <2> QED
    BY <1>2, <2>1, <2>2, <2>3, <2>4, <2>5, <2>6, <2>7, <2>8, <2>9 DEF Next, Write
<1> QED
  BY <1>1, <1>2, TypeCorrect, PTL DEF Spec
===============================================================================
