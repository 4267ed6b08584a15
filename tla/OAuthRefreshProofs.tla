--------------------------- MODULE OAuthRefreshProofs ---------------------------
(***************************************************************************)
(* What OAuthRefresh promises, proved for any number of callers, of polls, *)
(* of tokens and of edits.                                                 *)
(***************************************************************************)
EXTENDS OAuthRefresh, TLAPS

\* A step of one of the callers.
CallerStep(c) == Start(c) \/ Progress(c) \/ Mishap(c)

\* A step of the clock or of the administrator.
OtherStep == LockExpires \/ (\E t \in Tokens : Age(t)) \/ EditRead \/ EditWrite

\* The values that calls start from have the types of their variables.
LEMMA Starts ==
  /\ Tokens \subseteq 0..MaxIssued
  /\ Empty \in 0..MaxIssued
  /\ 1 \in Tokens
  /\ NoCopy \in Copies
  /\ ~ NoCopy.usable
  /\ Nothing \in Pairs
  /\ 0 \in 0..MaxPolls
  /\ 0 \in 0..MaxEdits
  BY RefreshAssumption
     DEF RefreshAssumption, Tokens, Empty, NoCopy, Nothing, Copies, Pairs

\* A call that forgets its variables leaves them typed.
LEMMA Forgotten ==
  ASSUME TypeOK, NEW c \in Callers, Forget(c)
  PROVE  /\ polls' \in [Callers -> 0..MaxPolls]
         /\ mine' \in [Callers -> Copies]
         /\ \A d \in Callers : mine'[d].usable => mine'[d].access # Empty
         /\ reply' \in [Callers -> Pairs]
  BY Starts DEF TypeOK, Forget

\* What the row is worth under the lock is a copy of its type.
LEMMA CopyTyped ==
  ASSUME TypeOK
  PROVE  LET copy == [access |-> row.access, refresh |-> row.refresh,
                      usable |-> row.access # Empty /\ life[row.access] # "expired"]
         IN  copy \in Copies /\ (copy.usable => copy.access # Empty)
  BY DEF TypeOK, Copies

(***************************************************************************)
(* Every variable of OAuthRefresh keeps its type: above all, the row never *)
(* holds an empty refresh token.                                           *)
(***************************************************************************)
THEOREM TypeCorrect == Spec => []TypeOK
<1>1. Init => TypeOK
  <2> SUFFICES ASSUME Init PROVE TypeOK
    OBVIOUS
  <2>1. row \in [access : 0..MaxIssued, refresh : Tokens, error : BOOLEAN]
    BY Starts DEF Init, Tokens
  <2>2. life \in [0..MaxIssued -> Lives]
    BY DEF Init, Lives
  <2> QED
    BY <2>1, <2>2, Starts DEF Init, TypeOK, Places
<1>2. ASSUME TypeOK, [Next]_vars
      PROVE  TypeOK'
  <2> USE <1>2, Starts DEF TypeOK, Places, Inside, rowVars, admin, authority, history,
          GoTo, Say
  <2>1. ASSUME NEW c \in Callers, CallerStep(c) PROVE TypeOK'
    <3>0. RowValid => row.access \in Tokens
      BY DEF RowValid, Tokens, Empty
    <3>1. CASE Start(c)
      <4>1. answer' \in [Callers -> Tokens \cup {NoAnswer, Error}]
        BY <3>0, <3>1 DEF Start
      <4>2. pc' \in [Callers -> Places]
        BY <3>1 DEF Start
      <4>3. UNCHANGED <<row, life, lock, polls, mine, reply, edit, edits, latest,
                        issued, overrun, faults>>
        BY <3>1 DEF Start
      <4> QED
        BY <4>1, <4>2, <4>3
    <3>2. CASE AcquireLock(c)
      <4>1. lock' \in Callers \cup {NoCaller}
        BY <3>2 DEF AcquireLock
      <4>2. pc' \in [Callers -> Places]
        <5>1. \/ pc' = [pc EXCEPT ![c] = "reread"]
              \/ pc' = [pc EXCEPT ![c] = "wait"]
          BY <3>2, Zenon DEF AcquireLock
        <5> QED BY <5>1
      <4>3. UNCHANGED <<row, life, polls, mine, reply, answer, edit, edits, latest,
                        issued, overrun, faults>>
        BY <3>2 DEF AcquireLock
      <4> QED
        BY <4>1, <4>2, <4>3
    <3>3. CASE StoreDown(c)
      BY <3>3, Forgotten DEF StoreDown
    <3>4. CASE Reread(c)
      <4>1. answer' \in [Callers -> Tokens \cup {NoAnswer, Error}]
        BY <3>0, <3>4 DEF Reread
      <4>2. pc' \in [Callers -> Places]
        BY <3>4 DEF Reread
      <4>3. /\ mine' \in [Callers -> Copies]
            /\ \A d \in Callers : mine'[d].usable => mine'[d].access # Empty
        <5>1. CASE UNCHANGED mine
          BY <5>1
        <5>2. ASSUME NEW copy \in Copies, copy.usable => copy.access # Empty,
                     mine' = [mine EXCEPT ![c] = copy]
              PROVE  /\ mine' \in [Callers -> Copies]
                     /\ \A d \in Callers : mine'[d].usable => mine'[d].access # Empty
          BY <5>2
        <5> QED
          BY <3>4, <5>1, <5>2, CopyTyped DEF Reread
      <4>4. UNCHANGED <<row, life, lock, polls, reply, edit, edits, latest, issued,
                        overrun, faults>>
        BY <3>4 DEF Reread
      <4> QED
        BY <4>1, <4>2, <4>3, <4>4
    <3>5. CASE Grant(c)
      <4>1. issued + 1 \in Tokens /\ mine[c].refresh \in Tokens
        BY <3>5, RefreshAssumption DEF Grant, Tokens, RefreshAssumption
      <4>2. ASSUME NEW r \in {latest, issued + 1}
            PROVE  [access |-> issued + 1,
                    refresh |-> IF r = latest THEN mine[c].refresh ELSE r] \in Pairs
        BY <4>1, <4>2 DEF Pairs
      <4>3. latest' \in Tokens /\ issued' \in Tokens
        BY <3>5, <4>1 DEF Grant
      <4>4. \E p \in Pairs : reply' = [reply EXCEPT ![c] = p]
        BY <3>5, <4>2 DEF Grant
      <4>5. reply' \in [Callers -> Pairs]
        BY <4>4
      <4>6. pc' \in [Callers -> Places]
        BY <3>5 DEF Grant
      <4>7. UNCHANGED <<row, life, lock, polls, mine, answer, edit, edits, overrun, faults>>
        BY <3>5 DEF Grant
      <4> QED
        BY <4>3, <4>5, <4>6, <4>7
    <3>6. CASE Refuse(c)
      BY <3>6 DEF Refuse
    <3>7. CASE LoseReply(c)
      BY <3>7 DEF LoseReply, Faults
    <3>8. CASE Store(c)
      <4>1. reply[c].access \in 0..MaxIssued /\ reply[c].refresh \in Tokens
        BY <3>8 DEF Store, StorePair, Pairs
      <4>2. row' \in [access : 0..MaxIssued, refresh : Tokens, error : BOOLEAN]
        BY <3>8, <4>1 DEF Store, StorePair
      <4>3. life' \in [0..MaxIssued -> Lives]
        BY <3>8, <4>1 DEF Store, StorePair, Lives
      <4>4. reply[c].access \in Tokens
        BY <3>8 DEF Store, StorePair, Pairs
      <4>5. answer' \in [Callers -> Tokens \cup {NoAnswer, Error}]
        BY <3>8, <4>4 DEF Store, StorePair
      <4>6. pc' \in [Callers -> Places] /\ Forget(c)
        BY <3>8 DEF Store, StorePair
      <4>7. UNCHANGED <<lock, edit, edits, latest, issued, overrun, faults>>
        BY <3>8 DEF Store, StorePair
      <4> QED
        BY <4>2, <4>3, <4>5, <4>6, <4>7, Forgotten
    <3>9. CASE StoreFails(c)
      BY <3>9, Forgotten DEF StoreFails, Faults
    <3>10. CASE FallBack(c)
      <4>1. row' \in [access : 0..MaxIssued, refresh : Tokens, error : BOOLEAN]
        BY <3>10 DEF FallBack
      <4>2. mine[c].usable => mine[c].access \in Tokens
        BY DEF Copies, NoCopy, Tokens, Empty
      <4>3. answer' \in [Callers -> Tokens \cup {NoAnswer, Error}]
        BY <3>10, <4>2 DEF FallBack
      <4>4. pc' \in [Callers -> Places] /\ Forget(c)
        BY <3>10 DEF FallBack
      <4>5. UNCHANGED <<life, lock, edit, edits, latest, issued, overrun, faults>>
        BY <3>10 DEF FallBack
      <4> QED
        BY <4>1, <4>3, <4>4, <4>5, Forgotten
    <3>11. CASE Release(c)
      BY <3>11 DEF Release, Leave
    <3>12. CASE PollRow(c)
      <4>1. answer' \in [Callers -> Tokens \cup {NoAnswer, Error}]
        BY <3>0, <3>12 DEF PollRow, Poll
      <4>2. pc' \in [Callers -> Places]
        BY <3>12 DEF PollRow, Poll
      <4>3. /\ polls' \in [Callers -> 0..MaxPolls]
            /\ mine' \in [Callers -> Copies]
            /\ \A d \in Callers : mine'[d].usable => mine'[d].access # Empty
            /\ reply' \in [Callers -> Pairs]
        <5>1. CASE Forget(c)
          BY <5>1, Forgotten
        <5>2. CASE /\ polls[c] + 1 < MaxPolls
                   /\ polls' = [polls EXCEPT ![c] = polls[c] + 1]
                   /\ UNCHANGED <<mine, reply>>
          <6>1. polls[c] + 1 \in 0..MaxPolls
            BY <5>2, RefreshAssumption DEF RefreshAssumption
          <6> QED
            BY <5>2, <6>1
        <5> QED
          BY <3>12, <5>1, <5>2 DEF PollRow, Poll
      <4>4. UNCHANGED <<row, life, lock, edit, edits, latest, issued, overrun, faults>>
        BY <3>12 DEF PollRow, Poll
      <4> QED
        BY <4>1, <4>2, <4>3, <4>4
    <3>13. CASE Return(c)
      BY <3>13 DEF Return
    <3>14. CASE Drop(c)
      BY <3>14, Forgotten DEF Drop, Faults
    <3> QED
      BY <2>1, <3>1, <3>2, <3>3, <3>4, <3>5, <3>6, <3>7, <3>8, <3>9, <3>10, <3>11,
         <3>12, <3>13, <3>14 DEF CallerStep, Progress, Mishap
  <2>2. CASE LockExpires
    <3>1. overrun' \in SUBSET Callers
      BY <2>2 DEF LockExpires
    <3>2. faults' \in SUBSET Faults
      BY <2>2 DEF LockExpires, Faults
    <3>3. lock' \in Callers \cup {NoCaller}
      BY <2>2 DEF LockExpires
    <3>4. UNCHANGED <<row, life, pc, polls, mine, reply, answer, edit, edits, latest, issued>>
      BY <2>2 DEF LockExpires
    <3> QED
      BY <3>1, <3>2, <3>3, <3>4
  <2>3. ASSUME NEW t \in Tokens, Age(t) PROVE TypeOK'
    BY <2>3 DEF Age, Lives
  <2>4. CASE EditRead
    BY <2>4, RefreshAssumption DEF EditRead, RefreshAssumption
  <2>5. CASE EditWrite
    BY <2>5 DEF EditWrite, Faults
  <2>6. CASE UNCHANGED vars
    BY <2>6 DEF vars
  <2> QED
    BY <2>1, <2>2, <2>3, <2>4, <2>5, <2>6 DEF Next, CallerStep
<1> QED
  BY <1>1, <1>2, PTL DEF Spec
-------------------------------------------------------------------------------
(***************************************************************************)
(* The part of the strengthened invariant that makes the lock one: whoever *)
(* is inside holds the lock unless it ran out, which is on record.         *)
(***************************************************************************)
LockHeld ==
  \A c \in Callers : pc[c] \in Inside => lock = c \/ c \in overrun

OverrunNoted == overrun # {} => "overrun" \in faults

\* A step of caller c leaves the variables of the other callers alone.
LEMMA OthersStand ==
  ASSUME TypeOK, NEW c \in Callers, CallerStep(c), NEW d \in Callers, d # c
  PROVE  pc'[d] = pc[d] /\ reply'[d] = reply[d]
<1>1. pc \in [Callers -> Places] /\ reply \in [Callers -> Pairs]
  BY DEF TypeOK
<1>2. Forget(c) => reply'[d] = reply[d]
  BY <1>1 DEF Forget
<1>3. \/ pc' = pc
      \/ \E place : GoTo(c, place)
  BY DEF CallerStep, Start, Progress, Mishap, AcquireLock, StoreDown, Reread, Grant,
    Refuse, LoseReply, Store, StorePair, StoreFails, FallBack, Release,
    Leave, PollRow, Poll, Return, Drop
<1>4. \/ reply' = reply
      \/ Forget(c)
      \/ \E pair : reply' = [reply EXCEPT ![c] = pair]
  BY DEF CallerStep, Start, Progress, Mishap, AcquireLock, StoreDown, Reread, Grant,
    Refuse, LoseReply, Store, StorePair, StoreFails, FallBack, Release,
    Leave, PollRow, Poll, Return, Drop
<1> QED
  BY <1>1, <1>2, <1>3, <1>4 DEF GoTo

\* What a step of caller c does to the lock and its record.
LockStep(c) ==
  /\ overrun' \in {overrun, overrun \ {c}}
  /\ c \in overrun /\ c \notin overrun' => pc'[c] \notin Inside
  /\ \/ lock' = lock
     \/ lock = NoCaller /\ lock' = c
     \/ lock = c /\ lock' = NoCaller
  /\ pc'[c] \in Inside /\ pc[c] \notin Inside => lock' = c
  /\ pc'[c] \in Inside /\ pc[c] \in Inside => lock' = lock
  /\ faults \subseteq faults'

\* What a step of a caller does to the lock.
LEMMA CallerLocks ==
  ASSUME TypeOK, NEW c \in Callers, CallerStep(c)
  PROVE  LockStep(c)
<1>1. ASSUME NEW place, GoTo(c, place)
      PROVE  pc'[c] = place
  BY <1>1 DEF GoTo, TypeOK
<1> USE DEF LockStep, history, Inside
<1>2. CASE Start(c) \/ PollRow(c)
  BY <1>1, <1>2 DEF Start, PollRow, Poll
<1>3. CASE StoreDown(c) \/ Return(c)
  BY <1>1, <1>3 DEF StoreDown, Return
<1>4. CASE AcquireLock(c)
  BY <1>1, <1>4 DEF AcquireLock
<1>5. CASE Reread(c)
  BY <1>1, <1>5 DEF Reread
<1>6. CASE Grant(c) \/ Refuse(c)
  BY <1>1, <1>6 DEF Grant, Refuse
<1>7. CASE LoseReply(c)
  BY <1>7 DEF LoseReply
<1>8. CASE Store(c) \/ StoreFails(c) \/ FallBack(c)
  BY <1>1, <1>8 DEF Store, StorePair, StoreFails, FallBack
<1>9. CASE Release(c)
  BY <1>1, <1>9 DEF Release, Leave
<1>10. CASE Drop(c)
  BY <1>1, <1>10 DEF Drop
<1> QED
  BY <1>2, <1>3, <1>4, <1>5, <1>6, <1>7, <1>8, <1>9, <1>10
     DEF CallerStep, Progress, Mishap

\* The lock and its record are kept by every step.
LEMMA LockKept ==
  ASSUME TypeOK, LockHeld, OverrunNoted, [Next]_vars
  PROVE  LockHeld' /\ OverrunNoted'
<1>1. ASSUME NEW c \in Callers, CallerStep(c)
      PROVE  LockHeld' /\ OverrunNoted'
  <2>1. ASSUME NEW d \in Callers, pc'[d] \in Inside
        PROVE  lock' = d \/ d \in overrun'
    <3>1. CASE d = c
      BY <1>1, <2>1, <3>1, CallerLocks DEF LockHeld, LockStep
    <3>2. CASE d # c
      BY <1>1, <2>1, <3>2, OthersStand, CallerLocks, RefreshAssumption
         DEF LockHeld, LockStep, RefreshAssumption
    <3> QED
      BY <3>1, <3>2
  <2>2. OverrunNoted'
    BY <1>1, CallerLocks DEF OverrunNoted, LockStep
  <2> QED
    BY <2>1, <2>2 DEF LockHeld
<1>2. CASE LockExpires
  BY <1>2, RefreshAssumption DEF LockExpires, LockHeld, OverrunNoted, history,
    RefreshAssumption, TypeOK
<1>3. CASE UNCHANGED <<pc, lock, overrun, faults>>
  BY <1>3 DEF LockHeld, OverrunNoted
<1>4. CASE EditWrite
  BY <1>4 DEF EditWrite, LockHeld, OverrunNoted
<1> QED
  BY <1>1, <1>2, <1>3, <1>4 DEF Next, CallerStep, Age, EditRead, vars, history

(***************************************************************************)
(* Two callers are inside together only if the lock of one ran out, for    *)
(* any number of callers.                                                  *)
(***************************************************************************)
THEOREM InsideAlone == Spec => []OneInside
<1>1. Init => LockHeld /\ OverrunNoted
  BY DEF Init, LockHeld, OverrunNoted, Inside
<1>2. LockHeld => OneInside
  BY DEF LockHeld, OneInside
<1> QED
  BY <1>1, <1>2, LockKept, TypeCorrect, PTL DEF Spec
-------------------------------------------------------------------------------
Delivering(c) == pc[c] = "reply" /\ reply[c] # Nothing

\* While nothing goes wrong, a pair on its way is the one the authority accepts.
DeliveryKept == faults = {} => \A c \in Callers : Delivering(c) => reply[c].refresh = latest

\* Without a fault, only one caller is inside.
LEMMA OnlyInside ==
  ASSUME LockHeld, OverrunNoted, "overrun" \notin faults,
         NEW c \in Callers, pc[c] \in Inside, NEW d \in Callers, pc[d] \in Inside
  PROVE  c = d
  BY DEF LockHeld, OverrunNoted

\* Nothing carries no refresh token.
LEMMA LatestSomething == ASSUME TypeOK PROVE latest # Nothing.refresh
  BY DEF TypeOK, Nothing, Tokens, Empty

\* What a step of caller c does to the credentials while nothing goes wrong.
CredentialStep(c) ==
  \/ /\ UNCHANGED <<row, latest>>
     /\ Delivering(c)' => Delivering(c) /\ reply' = reply
     /\ Delivering(c) => Delivering(c)'
  \/ /\ pc[c] = "call"
     /\ Delivering(c)'
     /\ row' = row
     /\ reply'[c].refresh = latest'
  \/ /\ Delivering(c)
     /\ ~ Delivering(c)'
     /\ row'.refresh = reply[c].refresh
     /\ latest' = latest
  \/ /\ ~ Delivering(c)
     /\ ~ Delivering(c)'
     /\ row'.refresh = row.refresh
     /\ latest' = latest

\* What a step of a caller does to the refresh tokens of row, reply and authority.
LEMMA CallerCredentials ==
  ASSUME TypeOK, NEW c \in Callers, CallerStep(c), faults' = {}
  PROVE  CredentialStep(c)
<1>1. ASSUME NEW place, GoTo(c, place)
      PROVE  pc'[c] = place
  BY <1>1 DEF GoTo, TypeOK
<1> USE DEF CredentialStep, Delivering, rowVars, authority, history
<1>2. CASE Start(c) \/ PollRow(c)
  BY <1>1, <1>2 DEF Start, PollRow, Poll
<1>3. CASE StoreDown(c) \/ Return(c)
  BY <1>1, <1>3 DEF StoreDown, Return
<1>4. CASE AcquireLock(c) \/ Reread(c)
  BY <1>1, <1>4 DEF AcquireLock, Reread
<1>5. CASE Grant(c)
  <2>1. PICK r \in {latest, issued + 1} :
          /\ latest' = r
          /\ reply' = [reply EXCEPT ![c] =
                          [access |-> issued + 1,
                           refresh |-> IF r = latest THEN mine[c].refresh ELSE r]]
    BY <1>5 DEF Grant
  <2>2. reply'[c] = [access |-> issued + 1,
                     refresh |-> IF r = latest THEN mine[c].refresh ELSE r]
    BY <2>1 DEF TypeOK
  <2>3. reply'[c].refresh = latest'
    BY <1>5, <2>1, <2>2 DEF Grant
  <2>4. reply'[c] # Nothing
    BY <2>2, RefreshAssumption DEF TypeOK, Tokens, Nothing, Empty, RefreshAssumption
  <2> QED
    BY <1>1, <1>5, <2>3, <2>4 DEF Grant
<1>6. CASE Refuse(c)
  BY <1>1, <1>6 DEF Refuse, TypeOK
<1>7. CASE LoseReply(c) \/ StoreFails(c)
  BY <1>7 DEF LoseReply, StoreFails
<1>8. CASE Store(c)
  BY <1>1, <1>8 DEF Store, StorePair
<1>9. CASE FallBack(c)
  BY <1>1, <1>9 DEF FallBack, TypeOK
<1>10. CASE Release(c)
  BY <1>1, <1>10 DEF Release, Leave
<1>11. CASE Drop(c)
  BY <1>1, <1>11 DEF Drop
<1> QED
  BY <1>2, <1>3, <1>4, <1>5, <1>6, <1>7, <1>8, <1>9, <1>10, <1>11
     DEF CallerStep, Progress, Mishap

\* The credentials are kept by every step of a caller.
LEMMA CallerKeeps ==
  ASSUME TypeOK, TypeOK', LockHeld, OverrunNoted, DeliveryKept, CredentialsKept,
         NEW c \in Callers, CallerStep(c), faults' = {}
  PROVE  /\ \A d \in Callers : Delivering(d)' => reply'[d].refresh = latest'
         /\ \/ row'.refresh = latest'
            \/ \E d \in Callers : pc'[d] = "reply" /\ reply'[d].refresh = latest'
<1>1. faults = {} /\ CredentialStep(c)
  BY CallerLocks, CallerCredentials DEF LockStep
<1>2. \A d \in Callers \ {c} : pc'[d] = pc[d] /\ reply'[d] = reply[d]
  BY OthersStand
<1>3. \A d \in Callers : Delivering(d) => reply[d].refresh = latest
  BY <1>1 DEF DeliveryKept
<1>4. \/ row.refresh = latest
      \/ \E d \in Callers : pc[d] = "reply" /\ reply[d].refresh = latest
  BY <1>1 DEF CredentialsKept
<1>5. \A d \in Callers : pc[d] = "reply" /\ reply[d].refresh = latest => Delivering(d)
  BY LatestSomething DEF Delivering
<1>6. \A d \in Callers : pc'[d] = "reply" => pc'[d] \in Inside
  BY DEF Inside
<1>7. CASE /\ UNCHANGED <<row, latest>>
           /\ Delivering(c)' => Delivering(c) /\ reply' = reply
           /\ Delivering(c) => Delivering(c)'
  BY <1>2, <1>3, <1>4, <1>5, <1>7 DEF Delivering
<1>8. CASE /\ pc[c] = "call"
           /\ Delivering(c)'
           /\ row' = row
           /\ reply'[c].refresh = latest'
  <2>1. \A d \in Callers \ {c} : ~ Delivering(d)'
    BY <1>1, <1>2, <1>8, OnlyInside DEF Delivering, Inside
  <2> QED
    BY <1>8, <2>1 DEF Delivering
<1>9. CASE /\ Delivering(c)
           /\ ~ Delivering(c)'
           /\ row'.refresh = reply[c].refresh
           /\ latest' = latest
  BY <1>2, <1>3, <1>9 DEF Delivering
<1>10. CASE /\ ~ Delivering(c)
            /\ ~ Delivering(c)'
            /\ row'.refresh = row.refresh
            /\ latest' = latest
  BY <1>2, <1>3, <1>4, <1>5, <1>10 DEF Delivering
<1> QED
  BY <1>1, <1>7, <1>8, <1>9, <1>10 DEF CredentialStep

(***************************************************************************)
(* An account loses its credentials only through a fault on record, for    *)
(* any number of callers and of tokens.                                    *)
(***************************************************************************)
THEOREM CredentialsSafe == Spec => []CredentialsKept
<1> DEFINE Inv == LockHeld /\ OverrunNoted /\ DeliveryKept /\ CredentialsKept
<1>1. Init => Inv
  BY DEF Init, LockHeld, OverrunNoted, DeliveryKept, CredentialsKept, Delivering, Inside
<1>2. ASSUME TypeOK, TypeOK', Inv, [Next]_vars
      PROVE  DeliveryKept' /\ CredentialsKept'
  <2>1. ASSUME NEW c \in Callers, CallerStep(c)
        PROVE  DeliveryKept' /\ CredentialsKept'
    BY <1>2, <2>1, CallerKeeps DEF DeliveryKept, CredentialsKept, Delivering
  <2>2. CASE UNCHANGED <<pc, reply, latest, row, faults>>
    BY <1>2, <2>2 DEF DeliveryKept, CredentialsKept, Delivering
  <2>3. CASE LockExpires
    BY <1>2, <2>3 DEF LockExpires, DeliveryKept, CredentialsKept, Delivering, rowVars,
      authority, history
  <2>4. CASE EditWrite
    BY <1>2, <2>4 DEF EditWrite, DeliveryKept, CredentialsKept, Delivering, authority
  <2> QED
    BY <1>2, <2>1, <2>2, <2>3, <2>4 DEF Next, CallerStep, Age, EditRead, vars, history,
      authority, rowVars
<1> QED
  BY <1>1, <1>2, LockKept, TypeCorrect, PTL DEF Spec
-------------------------------------------------------------------------------
Clean == faults \cap {"overrun", "edited"} = {}

\* While the lock holds, nobody refreshes a token that is good.
RefreshNeeded ==
  Clean => \A c \in Callers : pc[c] \in {"call", "reply"} => ~ RowValid

\* The error of the row is noted, and the row made valid, only by the caller that
\* asks the authority.
LEMMA CallerRefreshes ==
  ASSUME TypeOK, NEW c \in Callers, CallerStep(c)
  PROVE  \/ /\ RowValid' = RowValid
            /\ row'.error => row.error \/ pc[c] = "reply"
            /\ pc'[c] \in {"call", "reply"} => pc[c] \in {"call", "reply"} \/ ~ RowValid
         \/ pc[c] = "reply" /\ pc'[c] = "release" /\ ~ row'.error
<1>1. ASSUME NEW place, GoTo(c, place)
      PROVE  pc'[c] = place
  BY <1>1 DEF GoTo, TypeOK
<1> USE DEF RowValid, rowVars
<1>2. CASE Start(c) \/ PollRow(c)
  BY <1>1, <1>2 DEF Start, PollRow, Poll
<1>3. CASE StoreDown(c) \/ Return(c)
  BY <1>1, <1>3 DEF StoreDown, Return
<1>4. CASE AcquireLock(c) \/ Reread(c)
  BY <1>1, <1>4 DEF AcquireLock, Reread
<1>5. CASE Grant(c) \/ Refuse(c)
  BY <1>1, <1>5 DEF Grant, Refuse
<1>6. CASE LoseReply(c) \/ StoreFails(c)
  BY <1>1, <1>6 DEF LoseReply, StoreFails
<1>7. CASE Store(c)
  BY <1>1, <1>7 DEF Store, StorePair
<1>8. CASE FallBack(c)
  BY <1>1, <1>8 DEF FallBack, TypeOK
<1>9. CASE Release(c) \/ Drop(c)
  BY <1>1, <1>9 DEF Release, Leave, Drop
<1> QED
  BY <1>2, <1>3, <1>4, <1>5, <1>6, <1>7, <1>8, <1>9 DEF CallerStep, Progress, Mishap

(***************************************************************************)
(* No authentication error beside a good token, unless a lock ran out or   *)
(* an edit put an older pair back; for any number of callers.              *)
(***************************************************************************)
THEOREM ErrorsExplained == Spec => []ErrorExplained
<1> DEFINE Inv == LockHeld /\ OverrunNoted /\ RefreshNeeded /\ ErrorExplained
<1>1. Init => Inv
  BY DEF Init, LockHeld, OverrunNoted, RefreshNeeded, ErrorExplained, Inside
<1>2. ASSUME TypeOK, Inv, [Next]_vars
      PROVE  RefreshNeeded' /\ ErrorExplained'
  <2>1. ASSUME NEW c \in Callers, CallerStep(c)
        PROVE  RefreshNeeded' /\ ErrorExplained'
    <3>1. Clean' => Clean
      BY <1>2, <2>1, CallerLocks DEF Clean, LockStep
    <3>2. ASSUME Clean'
          PROVE  /\ \A d \in Callers : pc'[d] \in {"call", "reply"} => ~ RowValid'
                 /\ row'.error => ~ RowValid'
      <4>1. /\ \A d \in Callers : pc[d] \in {"call", "reply"} => ~ RowValid
            /\ row.error => ~ RowValid
        BY <1>2, <3>1, <3>2 DEF RefreshNeeded, ErrorExplained, Clean
      <4>2. \A d \in Callers \ {c} : pc'[d] = pc[d]
        BY <1>2, <2>1, OthersStand
      <4>3. CASE /\ RowValid' = RowValid
                 /\ row'.error => row.error \/ pc[c] = "reply"
                 /\ pc'[c] \in {"call", "reply"} => pc[c] \in {"call", "reply"} \/ ~ RowValid
        BY <4>1, <4>2, <4>3
      <4>4. CASE pc[c] = "reply" /\ pc'[c] = "release" /\ ~ row'.error
        <5>1. ASSUME NEW d \in Callers \ {c} PROVE pc[d] \notin Inside
          BY <1>2, <3>1, <3>2, <4>4, OnlyInside DEF Clean, Inside
        <5> QED
          BY <4>2, <4>4, <5>1 DEF Inside
      <4> QED
        BY <1>2, <2>1, <4>3, <4>4, CallerRefreshes
    <3> QED
      BY <3>2 DEF RefreshNeeded, ErrorExplained, Clean
  <2>2. CASE LockExpires
    BY <1>2, <2>2 DEF LockExpires, RefreshNeeded, ErrorExplained, Clean, RowValid, rowVars,
      history
  <2>3. ASSUME NEW t \in Tokens, Age(t) PROVE RefreshNeeded' /\ ErrorExplained'
    <3>1. RowValid' => RowValid
      BY <1>2, <2>3 DEF Age, RowValid, TypeOK
    <3> QED
      BY <1>2, <2>3, <3>1 DEF Age, RefreshNeeded, ErrorExplained, Clean, history
  <2>4. CASE EditWrite
    BY <1>2, <2>4 DEF EditWrite, RefreshNeeded, ErrorExplained, Clean, RowValid
  <2>5. CASE UNCHANGED <<pc, row, life, faults>>
    BY <1>2, <2>5 DEF RefreshNeeded, ErrorExplained, Clean, RowValid
  <2> QED
    BY <1>2, <2>1, <2>2, <2>3, <2>4, <2>5 DEF Next, CallerStep, EditRead, vars, history,
      rowVars
<1> QED
  BY <1>1, <1>2, LockKept, TypeCorrect, PTL DEF Spec

(***************************************************************************)
(* A caller gets a token that is good for a while, the one that the        *)
(* authority has just issued to it, or the one that had not expired when   *)
(* its failed refresh began.                                               *)
(***************************************************************************)
THEOREM FreshAnswers == Spec => AnswersFresh
<1> DEFINE Fresh(c) == answer'[c] # answer[c] /\ answer'[c] \in Tokens =>
              \/ life'[answer'[c]] = "fresh"
              \/ pc[c] = "reply" /\ answer'[c] = reply[c].access
              \/ pc[c] = "reply" /\ mine[c].usable /\ answer'[c] = mine[c].access
<1>1. ASSUME TypeOK, NEW c \in Callers, NEW d \in Callers, CallerStep(c)
      PROVE  Fresh(d)
  <2>1. ASSUME NEW a, Say(c, a)
        PROVE  IF d = c THEN answer'[d] = a ELSE answer'[d] = answer[d]
    BY <1>1, <2>1 DEF Say, TypeOK
  <2>2. NoAnswer \notin Tokens /\ Error \notin Tokens
    BY RefreshAssumption DEF Tokens, NoAnswer, Error, RefreshAssumption
  <2>3. CASE Start(c) \/ PollRow(c) \/ Reread(c)
    BY <2>1, <2>2, <2>3 DEF Start, PollRow, Poll, Reread, RowValid, rowVars
  <2>4. CASE StoreDown(c) \/ StoreFails(c) \/ Return(c) \/ Drop(c)
    BY <2>1, <2>2, <2>4 DEF StoreDown, StoreFails, Return, Drop
  <2>5. CASE UNCHANGED answer
    BY <2>5
  <2>6. CASE Store(c)
    BY <2>1, <2>6 DEF Store, StorePair
  <2>7. CASE FallBack(c)
    BY <2>1, <2>2, <2>7 DEF FallBack
  <2> QED
    BY <1>1, <2>3, <2>4, <2>5, <2>6, <2>7 DEF CallerStep, Progress, Mishap, AcquireLock,
      Grant, Refuse, LoseReply, Release, Leave
<1>2. ASSUME TypeOK, [Next]_vars
      PROVE  [\A c \in Callers : Fresh(c)]_vars
  <2>1. CASE \E c \in Callers : CallerStep(c)
    BY <1>1, <1>2, <2>1
  <2>2. CASE UNCHANGED answer
    BY <2>2
  <2> QED
    BY <1>2, <2>1, <2>2 DEF Next, CallerStep, LockExpires, Age, EditRead, EditWrite, vars
<1> QED
  BY <1>2, TypeCorrect, PTL DEF Spec, AnswersFresh
===============================================================================
