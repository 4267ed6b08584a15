------------------------------- MODULE UsageCost -------------------------------
(***************************************************************************)
(* From the tokens a response used to the cost that select_account         *)
(* compares with the cap of an account: the sniffed body, the channel and  *)
(* the batching writer of service/usage_recorder.rs, the rows of           *)
(* usage_logs, and the cache of five-hour costs of service/account.rs.     *)
(*                                                                         *)
(* A response leaves at most one record.  The writer collects records,     *)
(* inserts a batch in one transaction and then removes the cached costs of *)
(* the accounts in the batch.  A reader that misses the cache awaits the   *)
(* database twice before it fills it; nothing ties the fill to what was    *)
(* removed in between.                                                     *)
(*                                                                         *)
(* A cost is the set of paid responses that it adds up.  What matters is   *)
(* whether it leaves some out, as the cap then lets too much through; that *)
(* a cost may include more (a rolling window instead of the account's own, *)
(* a window that has just ended) is left out.                              *)
(***************************************************************************)
EXTENDS Naturals, FiniteSets, Bags

CONSTANTS
  Responses, Accounts, Readers,
  NoAccount,      \* the reader is not looking up a cost
  AccountOf,      \* AccountOf[r]: the account that served response r
  ChannelCap,     \* CHANNEL_CAP
  BatchSize       \* BATCH_SIZE

ASSUME UsageAssumption ==
  /\ NoAccount \notin Accounts
  /\ AccountOf \in [Responses -> Accounts]
  /\ ChannelCap \in Nat \ {0}
  /\ BatchSize \in Nat \ {0}

VARIABLES
  body,       \* body[r]: the SniffStream of response r
  kind,       \* kind[r]: what its record says; "open" while its parser is there
  channel,    \* the records sent to the writer
  buf,        \* buf of writer_loop
  writer,     \* where the writer is
  touched,    \* the accounts whose cost the writer has still to remove
  rows,       \* the records ever inserted into usage_logs
  lost,       \* history: the records that never got there
  current,    \* current[a]: the paid responses of a in its five-hour window
  past,       \* past[a]: the stored resets_at of a lies in the past
  cost,       \* COST_CACHE: the cached cost of a, if there is one (see Costs)
  ask         \* ask[c]: the call of five_hour_cost that reader c is in

sendVars == <<body, kind, channel>>
writeVars == <<buf, writer, touched, rows>>
costVars == <<cost, ask>>
windowVars == <<current, past>>
vars == <<body, kind, channel, buf, writer, touched, rows, lost, current, past,
          cost, ask>>

Bodies == {"none", "flowing", "ended", "dropped"}
Recorded == {"paid", "error"}
Kinds == Recorded \cup {"open", "nothing"}

(***************************************************************************)
(* What a cost is based on (history):                                      *)
(* "sound"   the cost was summed up after the last removal                 *)
(* "late"    it was summed up before                                       *)
(* "past"    resets_at was over: taken to be nothing                       *)
(* "failed"  the query failed: taken to be nothing                         *)
(***************************************************************************)
Bases == {"sound", "late", "past", "failed"}

\* An entry of the cache is empty (or expired), or holds a sum and its basis.
NoCost == {}
Sums == [sum : SUBSET Responses, how : Bases]
Costs == {NoCost} \cup {{entry} : entry \in Sums}

Call(place, a, sum, how) == [place |-> place, acct |-> a, sum |-> sum, how |-> how]
Idle == Call("idle", NoAccount, {}, "sound")

Init ==
  /\ body = [r \in Responses |-> "none"]
  /\ kind = [r \in Responses |-> "open"]
  /\ channel = EmptyBag
  /\ buf = EmptyBag
  /\ writer = "select"
  /\ touched = {}
  /\ rows = EmptyBag
  /\ lost = EmptyBag
  /\ current = [a \in Accounts |-> {}]
  /\ past \in [Accounts -> BOOLEAN]
  /\ cost = [a \in Accounts |-> NoCost]
  /\ ask = [c \in Readers |-> Idle]
-------------------------------------------------------------------------------
\* UsageRecorder::record: a full channel drops the record.
Record(r) ==
  \/ /\ BagCardinality(channel) < ChannelCap
     /\ channel' = channel (+) SetToBag({r})
     /\ UNCHANGED lost
  \/ /\ BagCardinality(channel) >= ChannelCap
     /\ lost' = lost (+) SetToBag({r})
     /\ UNCHANGED channel

\* Fault: the parser is not taken out.
EmitAgain(r) == kind' = [kind EXCEPT ![r] = "paid"] /\ Record(r)

(***************************************************************************)
(* SniffStream::emit takes the parser, so that it works once.  The record  *)
(* is sent if it has tokens (it is paid if the status is 200) or the text  *)
(* of an error.                                                            *)
(***************************************************************************)
Emit(r) ==
  \/ kind[r] # "open" /\ UNCHANGED <<kind, channel, lost>>
  \/ /\ kind[r] = "open"
     /\ \/ \E k \in Recorded : kind' = [kind EXCEPT ![r] = k] /\ Record(r)
        \/ kind' = [kind EXCEPT ![r] = "nothing"] /\ UNCHANGED <<channel, lost>>

\* forward_request wraps the body of the upstream.
Wrap(r) ==
  /\ body[r] = "none"
  /\ body' = [body EXCEPT ![r] = "flowing"]
  /\ UNCHANGED <<kind, channel, writeVars, lost, windowVars, costVars>>

\* The body is read to its end.
EndBody(r) ==
  /\ body[r] = "flowing"
  /\ body' = [body EXCEPT ![r] = "ended"]
  /\ Emit(r)
  /\ UNCHANGED <<writeVars, windowVars, costVars>>

\* It is dropped: after its end, by a client that leaves, or unread by the loop.
DropBody(r) ==
  /\ body[r] \in {"flowing", "ended"}
  /\ body' = [body EXCEPT ![r] = "dropped"]
  /\ Emit(r)
  /\ UNCHANGED <<writeVars, windowVars, costVars>>
-------------------------------------------------------------------------------
\* writer_loop takes a record out of the channel; a full batch is flushed.
Receive(r) ==
  /\ writer = "select"
  /\ BagIn(r, channel)
  /\ channel' = channel (-) SetToBag({r})
  /\ buf' = buf (+) SetToBag({r})
  /\ writer' = IF BagCardinality(buf') >= BatchSize THEN "insert" ELSE "select"
  /\ UNCHANGED <<body, kind, touched, rows, lost, windowVars, costVars>>

\* Fault: the ticker, too, waits for a full batch.
TickWhenFull ==
  /\ writer = "select"
  /\ BagCardinality(buf) >= BatchSize
  /\ writer' = "insert"
  /\ UNCHANGED <<sendVars, buf, touched, rows, lost, windowVars, costVars>>

\* The ticker flushes what there is.
Tick ==
  /\ writer = "select"
  /\ buf # EmptyBag
  /\ writer' = "insert"
  /\ UNCHANGED <<sendVars, buf, touched, rows, lost, windowVars, costVars>>

AccountsIn(batch) == {AccountOf[r] : r \in BagToSet(batch)}

PaidBy(a, batch) == {r \in BagToSet(batch) : kind[r] = "paid" /\ AccountOf[r] = a}

Commit(next, accounts) ==
  /\ writer = "insert"
  /\ rows' = rows (+) buf
  /\ current' = [a \in Accounts |-> current[a] \cup PaidBy(a, buf)]
  /\ touched' = accounts
  /\ buf' = EmptyBag
  /\ writer' = next
  /\ UNCHANGED <<sendVars, lost, past, costVars>>

\* Fault: the batch is cleared before its accounts are looked up.
InsertCleared == Commit("select", {})

(***************************************************************************)
(* batch_insert_and_rollup commits.  The batch, which only the writer      *)
(* sees, is cleared after the removals that follow.                        *)
(***************************************************************************)
Insert == Commit("invalidate", AccountsIn(buf))

\* It fails: the batch is gone, the costs are removed all the same.
InsertFails ==
  /\ writer = "insert"
  /\ lost' = lost (+) buf
  /\ touched' = AccountsIn(buf)
  /\ buf' = EmptyBag
  /\ writer' = "invalidate"
  /\ UNCHANGED <<sendVars, rows, windowVars, costVars>>

\* invalidate_cost_cache of one account of the batch.
Invalidate(a) ==
  /\ a \in touched
  /\ touched' = touched \ {a}
  /\ writer' = IF touched = {a} THEN "select" ELSE "invalidate"
  /\ cost' = [cost EXCEPT ![a] = NoCost]
  /\ ask' = [c \in Readers |->
               IF ask[c].acct = a /\ ask[c].place = "put" /\ ask[c].how = "sound"
                 THEN [ask[c] EXCEPT !.how = "late"] ELSE ask[c]]
  /\ UNCHANGED <<sendVars, buf, rows, lost, windowVars>>
-------------------------------------------------------------------------------
\* five_hour_cost misses the cache (a hit changes nothing).
LookUp(c, a) ==
  /\ ask[c] = Idle
  /\ cost[a] = NoCost
  /\ ask' = [ask EXCEPT ![c] = Call("window", a, {}, "sound")]
  /\ UNCHANGED <<sendVars, writeVars, lost, windowVars, cost>>

\* compute_5h_cost_usd: a window that is over has no cost...
ReadWindow(c) ==
  /\ ask[c].place = "window"
  /\ ask' = [ask EXCEPT ![c] = IF past[@.acct] THEN Call("put", @.acct, {}, "past")
                                              ELSE Call("sum", @.acct, {}, "sound")]
  /\ UNCHANGED <<sendVars, writeVars, lost, windowVars, cost>>

\* ... any other is summed up; an error counts as no cost.
SumUp(c) ==
  /\ ask[c].place = "sum"
  /\ \/ ask' = [ask EXCEPT ![c] = Call("put", @.acct, current[@.acct], "sound")]
     \/ ask' = [ask EXCEPT ![c] = Call("put", @.acct, {}, "failed")]
  /\ UNCHANGED <<sendVars, writeVars, lost, windowVars, cost>>

\* cost_cache_put.
Put(c) ==
  /\ ask[c].place = "put"
  /\ cost' = [cost EXCEPT ![ask[c].acct] = {[sum |-> ask[c].sum, how |-> ask[c].how]}]
  /\ ask' = [ask EXCEPT ![c] = Idle]
  /\ UNCHANGED <<sendVars, writeVars, lost, windowVars>>

\* The future of the reader is dropped.
GiveUp(c) ==
  /\ ask[c] # Idle
  /\ ask' = [ask EXCEPT ![c] = Idle]
  /\ UNCHANGED <<sendVars, writeVars, lost, windowVars, cost>>

\* COST_CACHE_TTL is over.
CostExpires(a) ==
  /\ cost[a] # NoCost
  /\ cost' = [cost EXCEPT ![a] = NoCost]
  /\ UNCHANGED <<sendVars, writeVars, lost, windowVars, ask>>

\* The five-hour window of an account ends; resets_at, if it is stored, is over.
WindowTurns(a) ==
  /\ current' = [current EXCEPT ![a] = {}]
  /\ past' \in {past, [past EXCEPT ![a] = TRUE]}
  /\ UNCHANGED <<sendVars, writeVars, lost, costVars>>

\* refresh_usage stores the usage of the account with a new resets_at, or none.
PollUsage(a) ==
  /\ past[a]
  /\ past' = [past EXCEPT ![a] = FALSE]
  /\ UNCHANGED <<sendVars, writeVars, lost, current, costVars>>

\* The process ends and starts again: all that is left is in the database.
Restart ==
  /\ body' = [r \in Responses |-> IF body[r] = "none" THEN "none" ELSE "dropped"]
  /\ kind' = [r \in Responses |->
                IF kind[r] = "open" /\ body[r] # "none" THEN "nothing" ELSE kind[r]]
  /\ lost' = lost (+) channel (+) buf
  /\ channel' = EmptyBag
  /\ buf' = EmptyBag
  /\ writer' = "select"
  /\ touched' = {}
  /\ cost' = [a \in Accounts |-> NoCost]
  /\ ask' = [c \in Readers |-> Idle]
  /\ UNCHANGED <<rows, windowVars>>

Write ==
  \/ \E r \in Responses : Receive(r)
  \/ Tick \/ Insert \/ InsertFails
  \/ \E a \in Accounts : Invalidate(a)

BodyStep(r) == Wrap(r) \/ EndBody(r) \/ DropBody(r)

ReaderStep(c) ==
  \/ \E a \in Accounts : LookUp(c, a)
  \/ ReadWindow(c) \/ SumUp(c) \/ Put(c) \/ GiveUp(c)

TimeStep(a) == CostExpires(a) \/ WindowTurns(a) \/ PollUsage(a)

Next ==
  \/ \E r \in Responses : BodyStep(r)
  \/ Write
  \/ \E c \in Readers : ReaderStep(c)
  \/ \E a \in Accounts : TimeStep(a)
  \/ Restart

Spec == Init /\ [][Next]_vars

\* The writer is a task that never ends and whose database calls have time limits.
FairSpec == Spec /\ WF_vars(Write)
-------------------------------------------------------------------------------
Copies(r, b) == IF BagIn(r, b) THEN b[r] ELSE 0

IsRecordBag(b) == IsABag(b) /\ BagToSet(b) \subseteq Responses

CallType ==
  [place : {"window", "sum", "put"}, acct : Accounts, sum : SUBSET Responses, how : Bases]
    \cup {Idle}

TypeOK ==
  /\ body \in [Responses -> Bodies]
  /\ kind \in [Responses -> Kinds]
  /\ IsRecordBag(channel) /\ IsRecordBag(buf) /\ IsRecordBag(rows) /\ IsRecordBag(lost)
  /\ writer \in {"select", "insert", "invalidate"}
  /\ touched \in SUBSET Accounts
  /\ writer = "invalidate" <=> touched # {}
  /\ writer = "insert" => buf # EmptyBag
  /\ current \in [Accounts -> SUBSET Responses]
  /\ past \in [Accounts -> BOOLEAN]
  /\ cost \in [Accounts -> Costs]
  /\ ask \in [Readers -> CallType]

(***************************************************************************)
(* A response that used tokens or failed is on record exactly once, in the *)
(* channel, the batch or the table, or it was lost for good: nothing is    *)
(* charged twice, though every body is emitted at its end and again when   *)
(* it is dropped, and a batch that failed is not inserted again.           *)
(***************************************************************************)
RecordedOnce ==
  \A r \in Responses :
    Copies(r, channel) + Copies(r, buf) + Copies(r, rows) + Copies(r, lost)
      = IF kind[r] \in Recorded THEN 1 ELSE 0

(***************************************************************************)
(* A cached cost leaves a response of the window out only while the writer *)
(* is about to remove it, or for one of three reasons: it was summed up    *)
(* before a batch and put into the cache after the removal, the query      *)
(* failed, or the stored reset time of the window was over.                *)
(***************************************************************************)
CostExplained ==
  \A a \in Accounts : \A entry \in cost[a] :
    current[a] \subseteq entry.sum \/ a \in touched \/ entry.how # "sound"

(***************************************************************************)
(* Whatever the database answers, a record does not stay in the channel or *)
(* in the batch, however few there are.                                    *)
(***************************************************************************)
RecordsSettle ==
  \A r \in Responses :
    r \in BagToSet(channel) \cup BagToSet(buf)
      ~> r \notin BagToSet(channel) \cup BagToSet(buf)
===============================================================================
