---------------------------- MODULE GatewayLoopProofs ----------------------------
(***************************************************************************)
(* What AccountPool and the GatewayLoop over it promise, proved for any    *)
(* requests, accounts and tokens, any kinds of cooldown and any bounds on  *)
(* switches, retries and waits.                                            *)
(***************************************************************************)
EXTENDS GatewayLoop, FiniteSetTheorems, TLAPS

-------------------------------------------------------------------------------
(* AccountPool.                                                            *)

(***************************************************************************)
(* Every variable of AccountPool keeps its type.                           *)
(***************************************************************************)
THEOREM PoolTypeCorrect == Spec => []TypeOK
<1>1. Init => TypeOK
  BY DEF Init, TypeOK, Statuses, Cooldowns, NoEdit
<1>2. ASSUME TypeOK, [Next]_poolVars
      PROVE  TypeOK'
  <2> USE PoolAssumption DEF PoolAssumption, TypeOK, Statuses, Cooldowns, NoEdit,
          HasRow, DisableAccount, Leave
  <2>1. ASSUME NEW r \in Requests, NEW a \in Accounts, Select(r, a) PROVE TypeOK'
    BY <1>2, <2>1 DEF Select
  <2>2. ASSUME NEW r \in Requests, Finish(r) PROVE TypeOK'
    BY <1>2, <2>2 DEF Finish
  <2>3. ASSUME NEW r \in Requests, AuthFailure(r) PROVE TypeOK'
    BY <1>2, <2>3 DEF AuthFailure
  <2>4. ASSUME NEW r \in Requests, NEW k \in Kinds, Quarantine(r, k) PROVE TypeOK'
    <3>1. acct' \in [Requests -> Accounts \cup {NoAccount}] /\ snap' \in [Requests -> Cooldowns]
      BY <1>2, <2>4 DEF Quarantine
    <3>2. status' \in [Accounts -> Statuses] /\ half' \in [Accounts -> BOOLEAN]
      BY <1>2, <2>4 DEF Quarantine
    <3>3. cool' \in [Accounts -> Cooldowns]
      BY <1>2, <2>4 DEF Quarantine
    <3> QED
      BY <1>2, <2>4, <3>1, <3>2, <3>3 DEF Quarantine
  <2>5. ASSUME NEW a \in Accounts, TimePasses(a) PROVE TypeOK'
    BY <1>2, <2>5 DEF TimePasses, PassHalf, Expire
  <2>6. ASSUME NEW a \in Accounts, AdminStep(a) PROVE TypeOK'
    <3>1. CASE Enable(a) \/ ManualDisable(a)
      BY <1>2, <3>1 DEF Enable, ManualDisable
    <3>2. CASE EditRead(a)
      BY <1>2, <3>2 DEF EditRead
    <3>3. CASE EditWrite(a)
      BY <1>2, <3>3 DEF EditWrite
    <3>4. CASE Create(a) \/ Delete(a)
      BY <1>2, <3>4 DEF Create, Delete
    <3> QED
      BY <2>6, <3>1, <3>2, <3>3, <3>4 DEF AdminStep
  <2>7. CASE UNCHANGED poolVars
    BY <1>2, <2>7 DEF poolVars
  <2> QED
    BY <1>2, <2>1, <2>2, <2>3, <2>4, <2>5, <2>6, <2>7 DEF Next
<1> QED
  BY <1>1, <1>2, PTL DEF Spec

(***************************************************************************)
(* The copy of a row that a request carries never shows a cooldown: the    *)
(* test of forward_request for a limited account is false whenever it is   *)
(* evaluated.                                                              *)
(***************************************************************************)
THEOREM SnapshotsUnlimited == Spec => []SnapshotNeverLimited
<1>1. Init => SnapshotNeverLimited
  BY DEF Init, SnapshotNeverLimited
<1>2. ASSUME TypeOK, SnapshotNeverLimited, [Next]_poolVars
      PROVE  SnapshotNeverLimited'
  <2>1. ASSUME NEW r \in Requests, NEW a \in Accounts, Select(r, a)
        PROVE  SnapshotNeverLimited'
    BY <1>2, <2>1 DEF Select, Schedulable, SnapshotNeverLimited, TypeOK
  <2>2. ASSUME NEW r \in Requests, Leave(r)
        PROVE  SnapshotNeverLimited'
    BY <1>2, <2>2 DEF Leave, SnapshotNeverLimited, TypeOK
  <2>3. CASE UNCHANGED snap
    BY <1>2, <2>3 DEF SnapshotNeverLimited
  <2> QED
    BY <1>2, <2>1, <2>2, <2>3 DEF Next, Finish, AuthFailure, Quarantine, TimePasses,
      PassHalf, Expire,
      AdminStep, Enable, ManualDisable, EditRead, EditWrite, Create, Delete, poolVars
<1> QED
  BY <1>1, <1>2, PoolTypeCorrect, PTL DEF Spec

(***************************************************************************)
(* A disabled account that no request is on and no edit is about stays so  *)
(* until it is enabled by hand, deleted or an edit of it begins; and one   *)
(* that is deleted stays so.                                               *)
(***************************************************************************)
THEOREM QuietStays == Spec => []QuietStaysDisabled
<1> DEFINE Stays(a) ==
      /\ Quiet(a) /\ ~ Quiet(a)' => Enable(a) \/ EditRead(a) \/ Delete(a)
      /\ status[a] = "gone" => status'[a] = "gone"
<1>1. ASSUME TypeOK, [Next]_poolVars, NEW a \in Accounts PROVE Stays(a)
  <2> USE PoolAssumption DEF PoolAssumption, TypeOK, Quiet, HasRow,
          DisableAccount, Leave, NoEdit
  <2>1. ASSUME NEW r \in Requests, NEW b \in Accounts, Select(r, b) PROVE Stays(a)
    BY <1>1, <2>1 DEF Select, Schedulable
  <2>2. ASSUME NEW r \in Requests, Finish(r) PROVE Stays(a)
    BY <1>1, <2>2 DEF Finish
  <2>3. ASSUME NEW r \in Requests, AuthFailure(r) PROVE Stays(a)
    BY <1>1, <2>3 DEF AuthFailure
  <2>4. ASSUME NEW r \in Requests, NEW k \in Kinds, Quarantine(r, k) PROVE Stays(a)
    BY <1>1, <2>4 DEF Quarantine
  <2>5. ASSUME NEW b \in Accounts, TimePasses(b) PROVE Stays(a)
    BY <1>1, <2>5 DEF TimePasses, PassHalf, Expire
  <2>6. ASSUME NEW b \in Accounts, AdminStep(b) PROVE Stays(a)
    <3>1. CASE Enable(b)
      BY <1>1, <3>1 DEF Enable
    <3>2. CASE ManualDisable(b)
      BY <1>1, <3>2 DEF ManualDisable
    <3>3. CASE EditRead(b)
      BY <1>1, <3>3 DEF EditRead
    <3>4. CASE EditWrite(b)
      BY <1>1, <3>4 DEF EditWrite
    <3>5. CASE Create(b)
      BY <1>1, <3>5 DEF Create
    <3>6. CASE Delete(b)
      BY <1>1, <3>6 DEF Delete
    <3> QED
      BY <2>6, <3>1, <3>2, <3>3, <3>4, <3>5, <3>6 DEF AdminStep
  <2>7. CASE UNCHANGED poolVars
    BY <1>1, <2>7 DEF poolVars
  <2> QED
    BY <1>1, <2>1, <2>2, <2>3, <2>4, <2>5, <2>6, <2>7 DEF Next
<1>2. TypeOK /\ [Next]_poolVars => [\A a \in Accounts : Stays(a)]_poolVars
  BY <1>1
<1> QED
  BY <1>2, PoolTypeCorrect, PTL DEF Spec, QuietStaysDisabled

-------------------------------------------------------------------------------
(* GatewayLoop.                                                            *)

\* Each step of the loop is built from a step of the pool or leaves it alone, so what
\* holds of the pool holds under the loop.
LEMMA LoopStepsPool == LoopSpec => Spec
<1>1. LoopInit => Init
  BY DEF LoopInit
<1>2. ASSUME NEW r \in Requests, Begin(r) \/ Progress(r) \/ Disconnect(r)
      PROVE  [Next]_poolVars
  <2>1. ASSUME AuthRejected(r) PROVE Next
    BY <2>1 DEF AuthRejected, React, Next
  <2>2. ASSUME BillingRejected(r) \/ WindowFull(r) \/ RetryBurst(r) \/ BurstExhausted(r)
        PROVE  Finish(r) \/ \E k \in Cooldowns : Quarantine(r, k)
    BY <2>2 DEF BillingRejected, WindowFull, RetryBurst, Retry, BurstExhausted, React,
      Cooldowns
  <2>3. ASSUME Finish(r) \/ \E k \in Cooldowns : Quarantine(r, k)
        PROVE  Next
    BY <2>3 DEF Next, Quarantine
  <2>4. ASSUME Pick(r) PROVE Next
    BY <2>4 DEF Pick, Candidates, Next
  <2>5. CASE RejectType(r) \/ Intercept(r) \/ RpmFull(r) \/ SlotFull(r) \/ CallFails(r)
             \/ Answer(r)
    BY <2>3, <2>5 DEF RejectType, Intercept, RpmFull, SlotFull, CallFails, Answer
  <2>6. CASE Disconnect(r)
    BY <2>3, <2>6 DEF Disconnect
  <2>7. CASE Begin(r) \/ WaitForRpm(r) \/ GiveUp(r) \/ Forward(r)
    BY <2>7 DEF Begin, WaitForRpm, Wait, GiveUp, Forward
  <2> QED
    BY <1>2, <2>1, <2>2, <2>3, <2>4, <2>5, <2>6, <2>7 DEF Progress
<1>3. [LoopNext]_vars => [Next]_poolVars
  BY <1>2 DEF LoopNext, PoolStep, Next, vars
<1> QED
  BY <1>1, <1>3, PTL DEF LoopSpec, Spec

\* The variables of the pool keep their types under the loop too.
LEMMA LoopPoolTyped == LoopSpec => []TypeOK
BY LoopStepsPool, PoolTypeCorrect, PTL

(***************************************************************************)
(* Every variable of GatewayLoop keeps its type; in particular no request  *)
(* switches, retries or waits more often than its bounds, and a request is *)
(* on an account exactly while it checks or calls it.                      *)
(***************************************************************************)
THEOREM LoopTypeCorrect == LoopSpec => []LoopTypeOK
<1>1. LoopInit => LoopTypeOK
  BY LoopAssumption DEF LoopAssumption, LoopInit, Init, LoopTypeOK, Phases, Outcomes
<1>2. ASSUME TypeOK, LoopTypeOK, [LoopNext]_vars
      PROVE  LoopTypeOK'
  <2> USE LoopAssumption, PoolAssumption
      DEF LoopAssumption, PoolAssumption, LoopTypeOK, TypeOK, Phases, Outcomes, GoTo
  <2>1. ASSUME NEW r \in Requests, Begin(r) PROVE LoopTypeOK'
    BY <1>2, <2>1 DEF Begin, PolicyType, poolVars
  <2>2. ASSUME NEW r \in Requests, Pick(r) PROVE LoopTypeOK'
    BY <1>2, <2>2 DEF Pick, Candidates, Select
  <2>3. ASSUME NEW r \in Requests, WaitForRpm(r) PROVE LoopTypeOK'
    BY <1>2, <2>3 DEF WaitForRpm, Wait, poolVars
  <2>4. ASSUME NEW r \in Requests, GiveUp(r) PROVE LoopTypeOK'
    BY <1>2, <2>4 DEF GiveUp, End, poolVars
  <2>5. ASSUME NEW r \in Requests, RejectType(r) PROVE LoopTypeOK'
    BY <1>2, <2>5 DEF RejectType, Finish, Leave
  <2>6. ASSUME NEW r \in Requests, Intercept(r) \/ SlotFull(r) \/ CallFails(r) \/ Answer(r)
        PROVE LoopTypeOK'
    BY <1>2, <2>6 DEF Intercept, SlotFull, CallFails, Answer, End, Finish, Leave
  <2>7. ASSUME NEW r \in Requests, RpmFull(r) PROVE LoopTypeOK'
    BY <1>2, <2>7 DEF RpmFull, Finish, Leave
  <2>8. ASSUME NEW r \in Requests, Forward(r) PROVE LoopTypeOK'
    BY <1>2, <2>8 DEF Forward, poolVars
  <2>9. ASSUME NEW r \in Requests, Leave(r), pc[r] = "calling", SwitchOrEnd(r)
        PROVE  LoopTypeOK'
    <3>1. CASE SwitchAccount(r)
      BY <1>2, <2>9, <3>1 DEF Leave, SwitchAccount, Switch
    <3>2. CASE End(r, "upstream")
      BY <1>2, <2>9, <3>2 DEF Leave, End
    <3> QED
      BY <2>9, <3>1, <3>2 DEF SwitchOrEnd
  <2>10. ASSUME NEW r \in Requests, AuthRejected(r) \/ BillingRejected(r)
                  \/ WindowFull(r) \/ BurstExhausted(r)
         PROVE  Leave(r) /\ pc[r] = "calling" /\ SwitchOrEnd(r)
    BY <2>10 DEF AuthRejected, BillingRejected, WindowFull, BurstExhausted, SwitchOrEnd,
      React, AuthFailure, Quarantine, Finish
  <2>11. ASSUME NEW r \in Requests, RetryBurst(r) PROVE LoopTypeOK'
    <3>1. Leave(r)
      BY <2>11 DEF RetryBurst, Retry, React, Quarantine, Finish
    <3>2. acct[r] \in Accounts /\ retries[r][acct[r]] + 1 \in 0..MaxRetries
      BY <1>2, <2>11 DEF RetryBurst, Retry
    <3> QED
      BY <1>2, <2>11, <3>1, <3>2 DEF RetryBurst, Retry, Leave
  <2>12. ASSUME NEW r \in Requests, Disconnect(r) PROVE LoopTypeOK'
    BY <1>2, <2>12 DEF Disconnect, End, Finish, Leave, poolVars
  <2>13. CASE PoolStep /\ UNCHANGED loopVars
    BY <1>2, <2>13 DEF PoolStep, TimePasses, PassHalf, Expire, AdminStep, Enable,
      ManualDisable, Create, Delete,
      EditRead, EditWrite, loopVars
  <2>14. CASE UNCHANGED vars
    BY <1>2, <2>14 DEF vars, loopVars, poolVars
  <2> QED
    BY <1>2, <2>1, <2>2, <2>3, <2>4, <2>5, <2>6, <2>7, <2>8, <2>9, <2>10, <2>11, <2>12,
       <2>13, <2>14
    DEF LoopNext, Progress
<1> QED
  BY <1>1, <1>2, LoopPoolTyped, PTL DEF LoopSpec
-------------------------------------------------------------------------------
(***************************************************************************)
(* The books of the loop.  That the lengths add up is not inductive: an    *)
(* account must join a list that does not hold it yet, and the accounts    *)
(* let in after a wait must leave no other list.  So the accounts out of   *)
(* quota, those that refuse the client and the blocked ones are kept apart *)
(* within the excluded ones, and the account being tried is none of them.  *)
(***************************************************************************)
ListsApart(r) ==
  /\ policy[r].blocked \cup rpmOut[r] \cup typeOut[r] \subseteq excluded[r]
  /\ rpmOut[r] \cap (policy[r].blocked \cup typeOut[r]) = {}
  /\ acct[r] # NoAccount =>
       /\ acct[r] \notin excluded[r]
       /\ policy[r].allowed = {} \/ acct[r] \in policy[r].allowed

Balanced(r) ==
  Cardinality(excluded[r]) =
    Cardinality(policy[r].blocked) + Cardinality(rpmOut[r])
      + Cardinality(typeOut[r]) + switches[r]

TrailAllowed(r) ==
  \A i \in DOMAIN trail[r] :
    /\ trail[r][i] \notin policy[r].blocked
    /\ policy[r].allowed = {} \/ trail[r][i] \in policy[r].allowed
    /\ trail[r][i] \in policy[r].accepts

Types == TypeOK /\ LoopTypeOK

LoopStep(r) == Begin(r) \/ Progress(r) \/ Disconnect(r)

\* The books of another request are left alone.
LEMMA OthersUntouched ==
  ASSUME Types, NEW r \in Requests, LoopStep(r), NEW q \in Requests \ {r}
  PROVE  /\ policy'[q] = policy[q] /\ excluded'[q] = excluded[q]
         /\ rpmOut'[q] = rpmOut[q] /\ typeOut'[q] = typeOut[q]
         /\ switches'[q] = switches[q] /\ trail'[q] = trail[q]
         /\ acct'[q] = acct[q] /\ pc'[q] = pc[q]
         /\ retries'[q] = retries[q] /\ lastResp'[q] = lastResp[q]
         /\ outcome'[q] = outcome[q] /\ waits'[q] = waits[q]
<1> USE DEF Types, TypeOK, LoopTypeOK, GoTo
<1>1. CASE Begin(r)
  BY <1>1 DEF Begin, poolVars
<1>2. CASE Pick(r)
  BY <1>2 DEF Pick, Select
<1>3. CASE WaitForRpm(r) \/ GiveUp(r) \/ Forward(r)
  BY <1>3 DEF WaitForRpm, Wait, GiveUp, Forward, End, poolVars
<1>4. CASE RejectType(r) \/ RpmFull(r)
  BY <1>4 DEF RejectType, RpmFull, Finish, Leave
<1>5. CASE Intercept(r) \/ SlotFull(r) \/ CallFails(r) \/ Answer(r)
  BY <1>5 DEF Intercept, SlotFull, CallFails, Answer, End, Finish, Leave
<1>6. CASE AuthRejected(r) \/ BillingRejected(r) \/ WindowFull(r) \/ BurstExhausted(r)
  <2>1. Leave(r) /\ SwitchOrEnd(r)
    BY <1>6 DEF AuthRejected, BillingRejected, WindowFull, BurstExhausted, SwitchOrEnd,
      React, AuthFailure, Quarantine, Finish
  <2> QED
    BY <2>1 DEF Leave, SwitchOrEnd, SwitchAccount, Switch, End
<1>7. CASE RetryBurst(r)
  BY <1>7 DEF RetryBurst, Retry, React, Quarantine, Finish, Leave
<1>8. CASE Disconnect(r)
  BY <1>8 DEF Disconnect, End, Finish, Leave, poolVars
<1> QED
  BY <1>1, <1>2, <1>3, <1>4, <1>5, <1>6, <1>7, <1>8 DEF LoopStep, Progress

\* What each kind of step does to the books of its own request.
LEMMA BookSteps ==
  ASSUME Types, NEW r \in Requests, LoopStep(r)
  PROVE  \/ Begin(r)
         \/ Pick(r)
         \/ WaitForRpm(r)
         \/ RejectType(r)
         \/ RpmFull(r)
         \/ Forward(r)
         \/ pc[r] = "calling" /\ SwitchAccount(r) /\ Leave(r)
         \/ /\ UNCHANGED <<policy, excluded, rpmOut, typeOut, switches, trail>>
            /\ Leave(r) \/ UNCHANGED acct
<1>1. CASE AuthRejected(r) \/ BillingRejected(r) \/ WindowFull(r) \/ BurstExhausted(r)
  <2>1. Leave(r) /\ SwitchOrEnd(r) /\ pc[r] = "calling"
    BY <1>1 DEF AuthRejected, BillingRejected, WindowFull, BurstExhausted, SwitchOrEnd,
      React, AuthFailure, Quarantine, Finish
  <2> QED
    BY <2>1 DEF SwitchOrEnd, End
<1>2. CASE RetryBurst(r)
  BY <1>2 DEF RetryBurst, Retry, React, Quarantine, Finish
<1>3. CASE GiveUp(r) \/ Intercept(r) \/ SlotFull(r) \/ CallFails(r) \/ Answer(r)
            \/ Disconnect(r)
  BY <1>3 DEF GiveUp, Intercept, SlotFull, CallFails, Answer, Disconnect, End, Finish,
    poolVars
<1> QED
  BY <1>1, <1>2, <1>3 DEF LoopStep, Progress

\* Counting an account that is put on a list of the loop.
LEMMA OneMore ==
  ASSUME NEW set, IsFiniteSet(set), NEW x, x \notin set
  PROVE  Cardinality(set \cup {x}) = Cardinality(set) + 1
BY FS_AddElement

\* A step of the loop keeps the lists of its own request apart: an account is
\* excluded for one reason only.
LEMMA OwnLists ==
  ASSUME Types, NEW r \in Requests, ListsApart(r), LoopStep(r)
  PROVE  ListsApart(r)'
<1> USE PoolAssumption DEF PoolAssumption, Types, TypeOK, LoopTypeOK, ListsApart
<1>1. CASE Begin(r)
  BY <1>1 DEF Begin, poolVars, Phases
<1>2. CASE Pick(r)
  BY <1>2 DEF Pick, Candidates, Select
<1>3. CASE WaitForRpm(r)
  BY <1>3 DEF WaitForRpm, Wait, poolVars
<1>4. CASE RejectType(r) \/ RpmFull(r)
  BY <1>4 DEF RejectType, RpmFull, Finish, Leave
<1>5. CASE Forward(r)
  BY <1>5 DEF Forward, poolVars
<1>6. CASE SwitchAccount(r) /\ Leave(r)
  BY <1>6 DEF SwitchAccount, Switch, Leave
<1>7. CASE /\ UNCHANGED <<policy, excluded, rpmOut, typeOut, switches, trail>>
           /\ Leave(r) \/ UNCHANGED acct
  BY <1>7 DEF Leave
<1> QED
  BY <1>1, <1>2, <1>3, <1>4, <1>5, <1>6, <1>7, BookSteps

\* A step of the loop keeps the books of its own request balanced.
LEMMA OwnBalance ==
  ASSUME Types, NEW r \in Requests, ListsApart(r), Balanced(r), LoopStep(r)
  PROVE  Balanced(r)'
<1>1. /\ IsFiniteSet(excluded[r]) /\ IsFiniteSet(rpmOut[r]) /\ IsFiniteSet(typeOut[r])
      /\ Cardinality(excluded[r]) \in Nat /\ Cardinality(rpmOut[r]) \in Nat
      /\ Cardinality(typeOut[r]) \in Nat
  BY LoopAssumption, FS_Subset, FS_CardinalityType
  DEF LoopAssumption, Types, LoopTypeOK
<1>2. Cardinality(policy[r].blocked) \in Nat /\ switches[r] \in Nat
  <2>1. policy[r].blocked \subseteq Accounts
    <3>1. policy[r] \in PolicyType \/ policy[r] = NoPolicy
      BY LoopAssumption DEF LoopAssumption, Types, LoopTypeOK
    <3>2. NoPolicy.blocked = {}
      BY DEF NoPolicy
    <3> QED
      BY <3>1, <3>2 DEF PolicyType
  <2> QED
    BY <2>1, LoopAssumption, FS_Subset, FS_CardinalityType
    DEF LoopAssumption, Types, LoopTypeOK
<1>3. Cardinality({}) = 0
  BY FS_EmptySet
<1>4. CASE Begin(r)
  <2>1. /\ excluded'[r] = policy'[r].blocked
        /\ rpmOut'[r] = {} /\ typeOut'[r] = {} /\ switches'[r] = 0
    BY <1>4 DEF Begin, Types, LoopTypeOK
  <2>2. Cardinality(policy'[r].blocked) \in Nat
    <3>1. policy'[r].blocked \subseteq Accounts
      BY <1>4, LoopAssumption DEF LoopAssumption, Begin, Types, LoopTypeOK, PolicyType
    <3> QED
      BY <3>1, LoopAssumption, FS_Subset, FS_CardinalityType DEF LoopAssumption
  <2> QED
    BY <1>3, <2>1, <2>2 DEF Balanced
<1>5. CASE WaitForRpm(r)
  <2>1. /\ excluded'[r] = excluded[r] \ rpmOut[r] /\ rpmOut'[r] = {}
        /\ UNCHANGED <<policy, typeOut, switches>>
    BY <1>5 DEF WaitForRpm, Wait, Types, LoopTypeOK
  <2>2. excluded[r] \cap rpmOut[r] = rpmOut[r]
    BY DEF ListsApart
  <2>3. Cardinality(excluded[r] \ rpmOut[r])
          = Cardinality(excluded[r]) - Cardinality(rpmOut[r])
    BY <1>1, <2>2, FS_Difference
  <2> QED
    BY <1>1, <1>2, <1>3, <2>1, <2>3 DEF Balanced
<1>6. ASSUME pc[r] \in {"check", "calling"}
      PROVE  /\ acct[r] \notin excluded[r] /\ acct[r] \notin rpmOut[r]
             /\ acct[r] \notin typeOut[r]
  BY <1>6 DEF Types, LoopTypeOK, ListsApart
<1>7. CASE RejectType(r)
  <2>1. /\ excluded'[r] = excluded[r] \cup {acct[r]}
        /\ typeOut'[r] = typeOut[r] \cup {acct[r]}
        /\ UNCHANGED <<policy, rpmOut, switches>>
    BY <1>7 DEF RejectType, Types, LoopTypeOK
  <2>2. /\ Cardinality(excluded'[r]) = Cardinality(excluded[r]) + 1
        /\ Cardinality(typeOut'[r]) = Cardinality(typeOut[r]) + 1
    BY <1>1, <1>6, <1>7, <2>1, OneMore DEF RejectType
  <2> QED
    BY <1>1, <1>2, <2>1, <2>2 DEF Balanced
<1>8. CASE RpmFull(r)
  <2>1. /\ excluded'[r] = excluded[r] \cup {acct[r]}
        /\ rpmOut'[r] = rpmOut[r] \cup {acct[r]}
        /\ UNCHANGED <<policy, typeOut, switches>>
    BY <1>8 DEF RpmFull, Types, LoopTypeOK
  <2>2. /\ Cardinality(excluded'[r]) = Cardinality(excluded[r]) + 1
        /\ Cardinality(rpmOut'[r]) = Cardinality(rpmOut[r]) + 1
    BY <1>1, <1>6, <1>8, <2>1, OneMore DEF RpmFull
  <2> QED
    BY <1>1, <1>2, <2>1, <2>2 DEF Balanced
<1>9. CASE pc[r] = "calling" /\ SwitchAccount(r) /\ Leave(r)
  <2>1. /\ excluded'[r] = excluded[r] \cup {acct[r]}
        /\ switches'[r] = switches[r] + 1
        /\ UNCHANGED <<policy, rpmOut, typeOut>>
    BY <1>9 DEF SwitchAccount, Switch, Types, LoopTypeOK
  <2>2. Cardinality(excluded'[r]) = Cardinality(excluded[r]) + 1
    BY <1>1, <1>6, <1>9, <2>1, OneMore
  <2> QED
    BY <1>1, <1>2, <2>1, <2>2 DEF Balanced
<1>10. CASE UNCHANGED <<policy, excluded, rpmOut, typeOut, switches>>
  BY <1>10 DEF Balanced
<1> QED
  BY <1>4, <1>5, <1>7, <1>8, <1>9, <1>10, BookSteps DEF Pick, Forward

\* A step of the administrator or of time moves no request.
LEMMA NobodyMoves ==
  ASSUME (PoolStep /\ UNCHANGED loopVars) \/ UNCHANGED vars
  PROVE  UNCHANGED <<policy, excluded, rpmOut, typeOut, switches, trail, acct, pc,
                     retries, waits, lastResp, outcome>>
BY DEF PoolStep, TimePasses, PassHalf, Expire, AdminStep, Enable, ManualDisable,
  Create, Delete, EditRead,
  EditWrite, vars, loopVars, poolVars

\* Every account a request has excluded is excluded for one reason.
LEMMA ListsStayApart == LoopSpec => [](\A r \in Requests : ListsApart(r))
<1>1. LoopInit => \A r \in Requests : ListsApart(r)
  BY DEF LoopInit, Init, ListsApart, NoPolicy
<1>2. ASSUME Types, \A r \in Requests : ListsApart(r), [LoopNext]_vars
      PROVE  (\A r \in Requests : ListsApart(r))'
  <2> SUFFICES ASSUME NEW q \in Requests
               PROVE  ListsApart(q)'
    OBVIOUS
  <2>1. ASSUME NEW r \in Requests, LoopStep(r), r # q PROVE ListsApart(q)'
    BY <1>2, <2>1, OthersUntouched DEF ListsApart
  <2>2. CASE (PoolStep /\ UNCHANGED loopVars) \/ UNCHANGED vars
    BY <1>2, <2>2, NobodyMoves DEF ListsApart
  <2> QED
    BY <1>2, <2>1, <2>2, OwnLists DEF LoopNext, LoopStep
<1> QED
  BY <1>1, <1>2, LoopPoolTyped, LoopTypeCorrect, PTL DEF LoopSpec, Types

(***************************************************************************)
(* The number of attempts that the loop recomputes from the lengths of its *)
(* lists is the number of its switches.                                    *)
(***************************************************************************)
THEOREM BooksBalance == LoopSpec => []AttemptIsSwitches
<1> DEFINE Inv == \A r \in Requests : Balanced(r)
<1>1. LoopInit => Inv
  <2>1. Cardinality({}) = 0
    BY FS_EmptySet
  <2>2. NoPolicy.blocked = {}
    BY DEF NoPolicy
  <2>3. ASSUME LoopInit, NEW r \in Requests
        PROVE  /\ policy[r].blocked = {} /\ excluded[r] = {} /\ rpmOut[r] = {}
               /\ typeOut[r] = {} /\ switches[r] = 0
    BY <2>2, <2>3 DEF LoopInit
  <2> QED
    BY <2>1, <2>3 DEF Balanced
<1>2. ASSUME Types, \A r \in Requests : ListsApart(r), Inv, [LoopNext]_vars
      PROVE  Inv'
  <2> SUFFICES ASSUME NEW q \in Requests
               PROVE  Balanced(q)'
    OBVIOUS
  <2>1. ASSUME NEW r \in Requests, LoopStep(r), r # q PROVE Balanced(q)'
    BY <1>2, <2>1, OthersUntouched DEF Balanced
  <2>2. CASE (PoolStep /\ UNCHANGED loopVars) \/ UNCHANGED vars
    BY <1>2, <2>2, NobodyMoves DEF Balanced
  <2> QED
    BY <1>2, <2>1, <2>2, OwnBalance DEF LoopNext, LoopStep
<1>3. Inv => AttemptIsSwitches
  BY DEF Balanced, AttemptIsSwitches
<1> HIDE DEF Inv
<1> QED
  BY <1>1, <1>2, <1>3, LoopPoolTyped, LoopTypeCorrect, ListsStayApart, PTL
  DEF LoopSpec, Types

(***************************************************************************)
(* A request is only ever sent to accounts that its token and its client's *)
(* type allow, whatever is let in again after a wait.                      *)
(***************************************************************************)
THEOREM PolicyIsRespected == LoopSpec => []PolicyRespected
<1> DEFINE Inv == \A r \in Requests : TrailAllowed(r)
<1>1. LoopInit => Inv
  BY DEF LoopInit, TrailAllowed
<1>2. ASSUME Types, \A r \in Requests : ListsApart(r), Inv, [LoopNext]_vars
      PROVE  Inv'
  <2> SUFFICES ASSUME NEW q \in Requests
               PROVE  TrailAllowed(q)'
    OBVIOUS
  <2>1. ASSUME NEW r \in Requests, LoopStep(r), r # q PROVE TrailAllowed(q)'
    BY <1>2, <2>1, OthersUntouched DEF TrailAllowed
  <2>2. CASE (PoolStep /\ UNCHANGED loopVars) \/ UNCHANGED vars
    BY <1>2, <2>2, NobodyMoves DEF TrailAllowed
  <2>3. CASE Begin(q)
    <3>1. trail'[q] = <<>>
      BY <1>2, <2>3 DEF Begin, Types, LoopTypeOK
    <3> QED
      BY <3>1 DEF TrailAllowed
  <2>4. CASE Forward(q)
    <3>1. /\ acct[q] \in Accounts /\ acct[q] \notin policy[q].blocked
          /\ policy[q].allowed = {} \/ acct[q] \in policy[q].allowed
          /\ acct[q] \in policy[q].accepts
      BY <1>2, <2>4 DEF Forward, Types, TypeOK, LoopTypeOK, ListsApart
    <3>2. /\ trail[q] \in Seq(Accounts)
          /\ trail'[q] = Append(trail[q], acct[q]) /\ policy' = policy
      BY <1>2, <2>4 DEF Forward, Types, LoopTypeOK
    <3>3. \A i \in DOMAIN trail'[q] :
            trail'[q][i] = acct[q] \/ (i \in DOMAIN trail[q] /\ trail'[q][i] = trail[q][i])
      BY <3>1, <3>2
    <3> QED
      BY <1>2, <3>1, <3>2, <3>3 DEF TrailAllowed
  <2>5. CASE UNCHANGED <<policy, trail>>
    BY <1>2, <2>5 DEF TrailAllowed
  <2>6. ASSUME LoopStep(q)
        PROVE  Begin(q) \/ Forward(q) \/ UNCHANGED <<policy, trail>>
    BY <1>2, <2>6, BookSteps
    DEF Pick, WaitForRpm, Wait, RejectType, RpmFull, SwitchAccount, Switch
  <2> QED
    BY <1>2, <2>1, <2>2, <2>3, <2>4, <2>5, <2>6 DEF LoopNext, LoopStep
<1>3. Inv => PolicyRespected
  BY DEF TrailAllowed, PolicyRespected
<1> HIDE DEF Inv
<1> QED
  BY <1>1, <1>2, <1>3, LoopPoolTyped, LoopTypeCorrect, ListsStayApart, PTL
  DEF LoopSpec, Types
-------------------------------------------------------------------------------
\* How a step of the loop ends or goes on for its own request.
LEMMA Ways ==
  ASSUME Types, NEW r \in Requests, LoopStep(r)
  PROVE  \/ Begin(r) \/ Pick(r) \/ WaitForRpm(r) \/ GiveUp(r)
         \/ RejectType(r) \/ RpmFull(r) \/ Forward(r)
         \/ pc[r] = "calling" /\ SwitchAccount(r) /\ Leave(r)
         \/ RetryBurst(r) /\ Leave(r)
         \/ \E o \in {"upstream", "error", "none"} : End(r, o)
<1>1. CASE AuthRejected(r) \/ BillingRejected(r) \/ WindowFull(r) \/ BurstExhausted(r)
  <2>1. Leave(r) /\ SwitchOrEnd(r) /\ pc[r] = "calling"
    BY <1>1 DEF AuthRejected, BillingRejected, WindowFull, BurstExhausted, SwitchOrEnd,
      React, AuthFailure, Quarantine, Finish
  <2> QED
    BY <2>1 DEF SwitchOrEnd
<1>2. CASE RetryBurst(r)
  BY <1>2 DEF RetryBurst, Retry, React, Quarantine, Finish
<1>3. CASE Intercept(r) \/ SlotFull(r) \/ CallFails(r) \/ Answer(r) \/ Disconnect(r)
  BY <1>3 DEF Intercept, SlotFull, CallFails, Answer, Disconnect
<1> QED
  BY <1>1, <1>2, <1>3 DEF LoopStep, Progress

(***************************************************************************)
(* Why the client gets the last answer: a request that goes around after a *)
(* call has kept the answer, and one that is under way has no outcome yet, *)
(* so "no account" can only be said before the first call.                 *)
(***************************************************************************)
Kept(r) ==
  /\ pc[r] \in {"select", "check"} /\ trail[r] # <<>> => lastResp[r]
  /\ pc[r] # "idle" => outcome[r] = "none"
  /\ typeOut[r] \cap policy[r].accepts = {}
  /\ outcome[r] \in {"forbidden", "unavailable"} => trail[r] = <<>>
  /\ outcome[r] = "forbidden" => typeOut[r] # {}

\* A step of the loop keeps the answers of its own request.
LEMMA OwnKept ==
  ASSUME Types, NEW r \in Requests, Kept(r), LoopStep(r)
  PROVE  Kept(r)'
<1> USE DEF Types, LoopTypeOK, Kept, GoTo
<1>1. CASE Begin(r)
  BY <1>1 DEF Begin
<1>2. CASE Pick(r)
  BY <1>2 DEF Pick
<1>3. CASE WaitForRpm(r)
  BY <1>3 DEF WaitForRpm, Wait
<1>4. CASE GiveUp(r)
  BY <1>4 DEF GiveUp, End
<1>5. CASE RejectType(r) \/ RpmFull(r)
  BY <1>5 DEF RejectType, RpmFull
<1>6. CASE Forward(r)
  BY <1>6 DEF Forward
<1>7. CASE pc[r] = "calling" /\ SwitchAccount(r)
  BY <1>7 DEF SwitchAccount, Switch
<1>8. CASE RetryBurst(r)
  BY <1>8 DEF RetryBurst, Retry
<1>9. CASE \E o \in {"upstream", "error", "none"} : End(r, o)
  BY <1>9 DEF End
<1> QED
  BY <1>1, <1>2, <1>3, <1>4, <1>5, <1>6, <1>7, <1>8, <1>9, Ways

(***************************************************************************)
(* A client hears "no account" or "not allowed" only if no upstream ever   *)
(* answered its request, for any accounts, tokens and bounds.              *)
(***************************************************************************)
THEOREM LastAnswerIsKept == LoopSpec => []LastAnswerKept
<1> DEFINE Inv == \A r \in Requests : Kept(r)
<1>1. LoopInit => Inv
  BY DEF LoopInit, Kept
<1>2. ASSUME Types, Inv, [LoopNext]_vars
      PROVE  Inv'
  <2> SUFFICES ASSUME NEW q \in Requests
               PROVE  Kept(q)'
    OBVIOUS
  <2>1. ASSUME NEW r \in Requests, LoopStep(r), r # q PROVE Kept(q)'
    BY <1>2, <2>1, OthersUntouched DEF Kept
  <2>2. CASE (PoolStep /\ UNCHANGED loopVars) \/ UNCHANGED vars
    BY <1>2, <2>2, NobodyMoves DEF Kept
  <2> QED
    BY <1>2, <2>1, <2>2, OwnKept DEF LoopNext, LoopStep
<1>3. Inv => LastAnswerKept
  BY DEF Kept, LastAnswerKept
<1> HIDE DEF Inv
<1> QED
  BY <1>1, <1>2, <1>3, LoopPoolTyped, LoopTypeCorrect, PTL DEF LoopSpec, Types
-------------------------------------------------------------------------------
(***************************************************************************)
(* Why the calls are bounded.  Every call of an account but the first was  *)
(* allowed by a retry, and after the last one the account is spent: the    *)
(* request has ended, is still at it, or has excluded it for good (and not *)
(* for the quota of this minute).  Of all calls, each but the first needed *)
(* a retry or a switch.                                                    *)
(***************************************************************************)
Spent(r, a) ==
  \/ pc[r] = "idle"
  \/ a \in excluded[r] \ rpmOut[r]
  \/ pc[r] = "calling" /\ acct[r] = a

Tried(r) ==
  \A a \in Accounts : Forwards(r, a) <= retries[r][a] + (IF Spent(r, a) THEN 1 ELSE 0)

Counted(r) ==
  Len(trail[r]) <= switches[r] + Cardinality(Retried(r))
                     + (IF pc[r] \in {"idle", "calling"} THEN 1 ELSE 0)

\* What one more call adds to the calls of an account.
LEMMA ForwardsOfOne ==
  ASSUME NEW s \in Seq(Accounts), NEW b \in Accounts, NEW a \in Accounts
  PROVE  /\ Cardinality({i \in DOMAIN s : s[i] = a}) \in Nat
         /\ Cardinality({i \in DOMAIN Append(s, b) : Append(s, b)[i] = a}) =
              Cardinality({i \in DOMAIN s : s[i] = a}) + (IF a = b THEN 1 ELSE 0)
<1> DEFINE old == {i \in DOMAIN s : s[i] = a}
           new == {i \in DOMAIN Append(s, b) : Append(s, b)[i] = a}
<1>1. IsFiniteSet(old) /\ Cardinality(old) \in Nat
  <2>1. IsFiniteSet(1..Len(s))
    BY FS_Interval
  <2>2. old \subseteq 1..Len(s)
    OBVIOUS
  <2> QED
    BY <2>1, <2>2, FS_Subset, FS_CardinalityType
<1>2. new = IF a = b THEN old \cup {Len(s) + 1} ELSE old
  OBVIOUS
<1>3. Len(s) + 1 \notin old
  OBVIOUS
<1>4. Cardinality(old \cup {Len(s) + 1}) = Cardinality(old) + 1
  <2> HIDE DEF old
  <2> QED
    BY <1>1, <1>3, OneMore
<1>5. Cardinality(new) = Cardinality(old) + (IF a = b THEN 1 ELSE 0)
  <2> HIDE DEF old, new
  <2> QED
    BY <1>1, <1>2, <1>4
<1> QED
  BY <1>1, <1>5

\* Accounts with a number of retries.
LEMMA PairsFinite == IsFiniteSet(Accounts \X (1..MaxRetries))
<1>1. IsFiniteSet(1..MaxRetries)
  BY LoopAssumption, FS_Interval DEF LoopAssumption
<1>2. IsFiniteSet(Accounts)
  BY LoopAssumption DEF LoopAssumption
<1> QED
  BY <1>1, <1>2, FS_Product

\* What one more retry adds to the retries.
LEMMA RetriesOfOne ==
  ASSUME NEW f \in [Accounts -> 0..MaxRetries], NEW a \in Accounts, f[a] < MaxRetries
  PROVE  Cardinality({p \in Accounts \X (1..MaxRetries) :
                        p[2] <= [f EXCEPT ![a] = f[a] + 1][p[1]]})
           = Cardinality({p \in Accounts \X (1..MaxRetries) : p[2] <= f[p[1]]}) + 1
<1> DEFINE old == {p \in Accounts \X (1..MaxRetries) : p[2] <= f[p[1]]}
           new == {p \in Accounts \X (1..MaxRetries) :
                    p[2] <= [f EXCEPT ![a] = f[a] + 1][p[1]]}
<1>1. IsFiniteSet(old)
  BY PairsFinite, FS_Subset
<1>2. new = old \cup {<<a, f[a] + 1>>}
  BY LoopAssumption DEF LoopAssumption
<1>3. <<a, f[a] + 1>> \notin old
  BY LoopAssumption DEF LoopAssumption
<1> QED
  BY <1>1, <1>2, <1>3, OneMore

\* The retries of a request are finitely many, and none before the first.
LEMMA RetriesFinite ==
  ASSUME NEW f \in [Accounts -> 0..MaxRetries]
  PROVE  /\ Cardinality({p \in Accounts \X (1..MaxRetries) : p[2] <= f[p[1]]}) \in Nat
         /\ (\A a \in Accounts : f[a] = 0) =>
              Cardinality({p \in Accounts \X (1..MaxRetries) : p[2] <= f[p[1]]}) = 0
<1> DEFINE set == {p \in Accounts \X (1..MaxRetries) : p[2] <= f[p[1]]}
<1>2. Cardinality(set) \in Nat
  BY PairsFinite, FS_Subset, FS_CardinalityType
<1>3. ASSUME \A a \in Accounts : f[a] = 0 PROVE set = {}
  BY <1>3
<1> QED
  BY <1>2, <1>3, FS_EmptySet

\* The sizes that the bounds are about are numbers.
LEMMA Sizes ==
  ASSUME Types, NEW r \in Requests
  PROVE  /\ Cardinality(Retried(r)) \in Nat /\ switches[r] \in Nat
         /\ Len(trail[r]) \in Nat
         /\ \A a \in Accounts : Forwards(r, a) \in Nat /\ retries[r][a] \in Nat
<1>1. /\ retries[r] \in [Accounts -> 0..MaxRetries] /\ trail[r] \in Seq(Accounts)
      /\ switches[r] \in 0..MaxSwitches
  BY DEF Types, LoopTypeOK
<1>2. Cardinality(Retried(r)) \in Nat
  BY <1>1, RetriesFinite DEF Retried
<1>3. \A a \in Accounts : Forwards(r, a) \in Nat
  BY <1>1, ForwardsOfOne DEF Forwards
<1> QED
  BY <1>1, <1>2, <1>3, LoopAssumption DEF LoopAssumption

\* A step of the loop spends the accounts of its own request.
LEMMA OwnTried ==
  ASSUME Types, NEW r \in Requests, ListsApart(r), Tried(r), LoopStep(r)
  PROVE  Tried(r)'
<1> SUFFICES ASSUME NEW a \in Accounts
             PROVE  (Forwards(r, a) <= retries[r][a] + (IF Spent(r, a) THEN 1 ELSE 0))'
  BY DEF Tried
<1>1. /\ Forwards(r, a) \in Nat /\ retries[r][a] \in Nat
      /\ Forwards(r, a) <= retries[r][a] + (IF Spent(r, a) THEN 1 ELSE 0)
  BY Sizes DEF Tried
<1>2. CASE Begin(r)
  <2>1. trail'[r] = <<>> /\ retries'[r][a] = 0
    BY <1>2 DEF Begin, Types, LoopTypeOK
  <2>2. {i \in DOMAIN trail'[r] : trail'[r][i] = a} = {}
    BY <2>1
  <2>3. Forwards(r, a)' = 0
    BY <2>2, FS_EmptySet DEF Forwards
  <2> QED
    BY <2>1, <2>3
<1>3. CASE Forward(r)
  <2>1. /\ trail[r] \in Seq(Accounts) /\ acct[r] \in Accounts
        /\ trail'[r] = Append(trail[r], acct[r]) /\ pc'[r] = "calling"
        /\ UNCHANGED <<retries, excluded, rpmOut, acct>>
        /\ pc[r] = "check" /\ acct[r] \notin excluded[r]
    BY <1>3 DEF Forward, Types, TypeOK, LoopTypeOK, GoTo, ListsApart, poolVars
  <2>2. Forwards(r, a)' = Forwards(r, a) + (IF a = acct[r] THEN 1 ELSE 0)
    <3>1. Cardinality({i \in DOMAIN Append(trail[r], acct[r]) :
                       Append(trail[r], acct[r])[i] = a})
            = Cardinality({i \in DOMAIN trail[r] : trail[r][i] = a})
                + (IF a = acct[r] THEN 1 ELSE 0)
      BY <2>1, ForwardsOfOne
    <3>2. Forwards(r, a)'
            = Cardinality({i \in DOMAIN Append(trail[r], acct[r]) :
                             Append(trail[r], acct[r])[i] = a})
      BY <2>1 DEF Forwards
    <3> QED
      BY <3>1, <3>2 DEF Forwards
  <2>3. CASE a = acct[r]
    <3>1. ~Spent(r, a) /\ Spent(r, a)'
      BY <2>1, <2>3 DEF Spent
    <3> QED
      BY <1>1, <2>1, <2>2, <2>3, <3>1
  <2>4. CASE a # acct[r]
    <3>1. Spent(r, a) => Spent(r, a)'
      BY <2>1, <2>4 DEF Spent
    <3> QED
      BY <1>1, <2>1, <2>2, <2>4, <3>1
  <2> QED
    BY <2>3, <2>4
<1>4. CASE RetryBurst(r) /\ Leave(r)
  <2>1. /\ UNCHANGED <<trail, excluded, rpmOut>>
        /\ retries'[r][a] = retries[r][a] + (IF a = acct[r] THEN 1 ELSE 0)
        /\ pc[r] = "calling"
    BY <1>1, <1>4 DEF RetryBurst, Retry, Types, TypeOK, LoopTypeOK
  <2>2. Forwards(r, a)' = Forwards(r, a)
    BY <2>1 DEF Forwards
  <2>3. a # acct[r] /\ Spent(r, a) => Spent(r, a)'
    BY <2>1 DEF Spent
  <2> QED
    BY <1>1, <2>1, <2>2, <2>3
<1>5. ASSUME UNCHANGED <<trail, retries>>, Spent(r, a) => Spent(r, a)'
      PROVE  (Forwards(r, a) <= retries[r][a] + (IF Spent(r, a) THEN 1 ELSE 0))'
  <2>1. Forwards(r, a)' = Forwards(r, a)
    BY <1>5 DEF Forwards
  <2> QED
    BY <1>1, <1>5, <2>1
<1> USE DEF Types, TypeOK, LoopTypeOK, ListsApart, Spent, GoTo
<1>6. CASE Pick(r)
  BY <1>5, <1>6 DEF Pick
<1>7. CASE WaitForRpm(r)
  BY <1>5, <1>7 DEF WaitForRpm, Wait
<1>8. CASE GiveUp(r) \/ \E o \in {"upstream", "error", "none"} : End(r, o)
  BY <1>5, <1>8 DEF GiveUp, End
<1>9. CASE RejectType(r) \/ RpmFull(r)
  BY <1>5, <1>9 DEF RejectType, RpmFull
<1>10. CASE pc[r] = "calling" /\ SwitchAccount(r)
  BY <1>5, <1>10 DEF SwitchAccount, Switch
<1> QED
  BY <1>2, <1>3, <1>4, <1>6, <1>7, <1>8, <1>9, <1>10, Ways

\* A step of the loop keeps the calls of its own request within its switches and
\* retries.
LEMMA OwnCounted ==
  ASSUME Types, NEW r \in Requests, Counted(r), LoopStep(r)
  PROVE  Counted(r)'
<1>1. /\ Cardinality(Retried(r)) \in Nat /\ switches[r] \in Nat /\ Len(trail[r]) \in Nat
  BY Sizes
<1>2. CASE Begin(r)
  <2>1. /\ trail'[r] = <<>> /\ switches'[r] = 0
        /\ retries'[r] = [a \in Accounts |-> 0]
    BY <1>2 DEF Begin, Types, LoopTypeOK
  <2>2. retries'[r] \in [Accounts -> 0..MaxRetries] /\ \A a \in Accounts : retries'[r][a] = 0
    BY <2>1, LoopAssumption DEF LoopAssumption
  <2>3. Cardinality(Retried(r))' = 0
    BY <2>2, RetriesFinite DEF Retried
  <2> QED
    BY <2>1, <2>3 DEF Counted
<1>3. CASE RetryBurst(r)
  <2>1. /\ retries[r] \in [Accounts -> 0..MaxRetries] /\ acct[r] \in Accounts
        /\ retries[r][acct[r]] < MaxRetries
        /\ retries'[r] = [retries[r] EXCEPT ![acct[r]] = retries[r][acct[r]] + 1]
        /\ UNCHANGED <<trail, switches>> /\ pc[r] = "calling"
    BY <1>3 DEF RetryBurst, Retry, Types, TypeOK, LoopTypeOK
  <2>2. Cardinality(Retried(r))' = Cardinality(Retried(r)) + 1
    BY <2>1, RetriesOfOne DEF Retried
  <2> QED
    BY <1>1, <2>1, <2>2 DEF Counted
<1>4. ASSUME UNCHANGED retries PROVE Retried(r)' = Retried(r)
  BY <1>4 DEF Retried
<1>5. CASE Forward(r)
  <2>1. /\ trail[r] \in Seq(Accounts) /\ acct[r] \in Accounts
        /\ trail'[r] = Append(trail[r], acct[r])
        /\ UNCHANGED <<retries, switches>> /\ pc[r] = "check" /\ pc'[r] = "calling"
    BY <1>5 DEF Forward, Types, TypeOK, LoopTypeOK, GoTo
  <2>2. Len(trail'[r]) = Len(trail[r]) + 1
    BY <2>1
  <2> QED
    BY <1>1, <1>4, <2>1, <2>2 DEF Counted
<1>6. CASE pc[r] = "calling" /\ SwitchAccount(r)
  <2>1. UNCHANGED <<retries, trail>> /\ switches'[r] = switches[r] + 1
    BY <1>6 DEF SwitchAccount, Switch, Types, LoopTypeOK
  <2> QED
    BY <1>1, <1>4, <1>6, <2>1 DEF Counted
<1>7. ASSUME UNCHANGED <<retries, trail, switches>>,
             pc[r] \in {"idle", "calling"} => pc'[r] \in {"idle", "calling"}
      PROVE  Counted(r)'
  BY <1>1, <1>4, <1>7 DEF Counted
<1>8. CASE Pick(r) \/ WaitForRpm(r) \/ RejectType(r) \/ RpmFull(r)
  BY <1>7, <1>8 DEF Pick, WaitForRpm, Wait, RejectType, RpmFull
<1>9. CASE GiveUp(r) \/ \E o \in {"upstream", "error", "none"} : End(r, o)
  BY <1>7, <1>9 DEF GiveUp, End, GoTo, Types, LoopTypeOK
<1> QED
  BY <1>2, <1>3, <1>5, <1>6, <1>8, <1>9, Ways

(***************************************************************************)
(* A request calls each account at most once more than it may be retried,  *)
(* and beyond its retries only as often as it may switch and once more.    *)
(***************************************************************************)
THEOREM CallsAreBounded == LoopSpec => []ForwardsBounded
<1> DEFINE Inv == \A r \in Requests : Tried(r) /\ Counted(r)
<1>1. LoopInit => Inv
  <2> SUFFICES ASSUME LoopInit, NEW r \in Requests
               PROVE  Tried(r) /\ Counted(r)
    OBVIOUS
  <2>1. /\ trail[r] = <<>> /\ retries[r] = [a \in Accounts |-> 0]
        /\ pc[r] = "idle" /\ switches[r] = 0
    BY DEF LoopInit
  <2>2. retries[r] \in [Accounts -> 0..MaxRetries] /\ \A a \in Accounts : retries[r][a] = 0
    BY <2>1, LoopAssumption DEF LoopAssumption
  <2>3. Cardinality(Retried(r)) = 0
    BY <2>2, RetriesFinite DEF Retried
  <2>4. \A a \in Accounts : {i \in DOMAIN trail[r] : trail[r][i] = a} = {}
    BY <2>1
  <2>5. \A a \in Accounts : Forwards(r, a) = 0
    BY <2>4, FS_EmptySet DEF Forwards
  <2>6. Tried(r)
    BY <2>2, <2>5 DEF Tried
  <2> QED
    BY <2>1, <2>3, <2>6 DEF Counted
<1>2. ASSUME Types, \A r \in Requests : ListsApart(r), Inv, [LoopNext]_vars
      PROVE  Inv'
  <2> SUFFICES ASSUME NEW q \in Requests
               PROVE  Tried(q)' /\ Counted(q)'
    OBVIOUS
  <2>1. ASSUME NEW r \in Requests, LoopStep(r), r # q PROVE Tried(q)' /\ Counted(q)'
    <3>1. /\ retries'[q] = retries[q] /\ trail'[q] = trail[q] /\ pc'[q] = pc[q]
          /\ excluded'[q] = excluded[q] /\ rpmOut'[q] = rpmOut[q]
          /\ acct'[q] = acct[q] /\ switches'[q] = switches[q]
      BY <1>2, <2>1, OthersUntouched
    <3>2. Retried(q)' = Retried(q) /\ \A a \in Accounts : Forwards(q, a)' = Forwards(q, a)
      BY <3>1 DEF Retried, Forwards
    <3>3. \A a \in Accounts : Spent(q, a)' = Spent(q, a)
      BY <3>1 DEF Spent
    <3> QED
      BY <1>2, <3>1, <3>2, <3>3 DEF Tried, Counted
  <2>2. CASE (PoolStep /\ UNCHANGED loopVars) \/ UNCHANGED vars
    BY <1>2, <2>2, NobodyMoves DEF Tried, Counted, Spent, Retried, Forwards
  <2> QED
    BY <1>2, <2>1, <2>2, OwnTried, OwnCounted DEF LoopNext, LoopStep
<1>3. ASSUME Types, Inv PROVE ForwardsBounded
  <2> SUFFICES ASSUME NEW r \in Requests
               PROVE  /\ \A a \in Accounts : Forwards(r, a) <= MaxRetries + 1
                      /\ Len(trail[r]) <= MaxSwitches + 1 + Cardinality(Retried(r))
    BY DEF ForwardsBounded, Retried
  <2>1. /\ switches[r] \in 0..MaxSwitches
        /\ \A a \in Accounts : retries[r][a] \in 0..MaxRetries
    BY <1>3 DEF Types, LoopTypeOK
  <2>2. Tried(r) /\ Counted(r)
    BY <1>3
  <2>3. \A a \in Accounts : Forwards(r, a) <= MaxRetries + 1
    BY <1>3, <2>1, <2>2, Sizes, LoopAssumption DEF Tried, LoopAssumption
  <2>4. Len(trail[r]) <= MaxSwitches + 1 + Cardinality(Retried(r))
    BY <1>3, <2>1, <2>2, Sizes, LoopAssumption DEF Counted, LoopAssumption
  <2> QED
    BY <2>3, <2>4
<1> HIDE DEF Inv
<1> QED
  BY <1>1, <1>2, <1>3, LoopPoolTyped, LoopTypeCorrect, ListsStayApart, PTL
  DEF LoopSpec, Types
-------------------------------------------------------------------------------
\* The work of a request that has just arrived.
MostWork ==
  4 * (MaxSwitches + Cardinality(Accounts \X (1..MaxRetries)) + 2 * Everyone
         + MaxWaits * (Everyone + 1)) + 3

WorkInBounds == \A r \in Requests : WorkLeft(r) \in 0..MostWork

\* A wait is worth more than all the accounts it lets in again.
LEMMA WaitsAreWorth ==
  /\ Everyone \in Nat
  /\ \A n \in 0..MaxWaits : WaitsWorth(n) \in 0..(MaxWaits * (Everyone + 1))
  /\ \A n \in 0..MaxWaits : n < MaxWaits => WaitsWorth(n) = WaitsWorth(n + 1) + Everyone + 1
<1>1. Everyone \in Nat /\ MaxWaits \in Nat
  BY LoopAssumption, FS_CardinalityType DEF LoopAssumption, Everyone
<1>2. \A k, n, m \in Nat : n <= m => (m - n) * k \in 0..(m * k)
  BY SMT
<1>3. \A k, n, m \in Nat : n < m => (m - n) * k = (m - (n + 1)) * k + k
  BY SMT
<1> DEFINE each == Everyone + 1
<1>4. each \in Nat
  BY <1>1
<1>5. ASSUME NEW n \in 0..MaxWaits PROVE (MaxWaits - n) * each \in 0..(MaxWaits * each)
  <2> HIDE DEF each
  <2> QED
    BY <1>1, <1>2, <1>4
<1>6. ASSUME NEW n \in 0..MaxWaits, n < MaxWaits
      PROVE  (MaxWaits - n) * each = (MaxWaits - (n + 1)) * each + each
  <2> HIDE DEF each
  <2> QED
    BY <1>1, <1>3, <1>4, <1>6
<1>7. ASSUME NEW n \in 0..MaxWaits, n < MaxWaits
      PROVE  (MaxWaits - n) * each = (MaxWaits - (n + 1)) * each + Everyone + 1
  <2>1. \A x \in Int : x + each = x + Everyone + 1
    BY <1>1
  <2>2. (MaxWaits - (n + 1)) * each \in Int
    <3> HIDE DEF each
    <3> QED
      BY <1>1, <1>4
  <2>3. (MaxWaits - (n + 1)) * each + each = (MaxWaits - (n + 1)) * each + Everyone + 1
    BY <2>1, <2>2
  <2> QED
    BY <1>6, <1>7, <2>3
<1> QED
  BY <1>1, <1>5, <1>7 DEF WaitsWorth

\* What is left of each kind is a number, and no more than at the start.
LEMMA WorkSizes ==
  ASSUME Types, NEW r \in Requests
  PROVE  /\ Cardinality(typeOut[r]) \in 0..Everyone
         /\ Cardinality(rpmOut[r]) \in 0..Everyone
         /\ RetriesLeft(r) \in 0..Cardinality(Accounts \X (1..MaxRetries))
         /\ WaitsWorth(waits[r]) \in 0..(MaxWaits * (Everyone + 1))
         /\ switches[r] \in 0..MaxSwitches /\ MaxSwitches \in Nat
         /\ Everyone \in Nat /\ pc[r] \in Phases
<1>1. /\ typeOut[r] \subseteq Accounts /\ rpmOut[r] \subseteq Accounts
      /\ waits[r] \in 0..MaxWaits /\ switches[r] \in 0..MaxSwitches /\ pc[r] \in Phases
  BY DEF Types, LoopTypeOK
<1>2. IsFiniteSet(Accounts) /\ MaxSwitches \in Nat
  BY LoopAssumption DEF LoopAssumption
<1>3. /\ Cardinality(typeOut[r]) \in 0..Everyone /\ Cardinality(rpmOut[r]) \in 0..Everyone
  BY <1>1, <1>2, FS_Subset, FS_CardinalityType DEF Everyone
<1>4. RetriesLeft(r) \in 0..Cardinality(Accounts \X (1..MaxRetries))
  <2>1. Retried(r) \subseteq Accounts \X (1..MaxRetries)
    BY DEF Retried
  <2>2. /\ Cardinality(Retried(r)) \in Nat
        /\ Cardinality(Accounts \X (1..MaxRetries)) \in Nat
        /\ Cardinality(Retried(r)) <= Cardinality(Accounts \X (1..MaxRetries))
    BY <2>1, PairsFinite, FS_Subset, FS_CardinalityType
  <2> QED
    BY <2>2 DEF RetriesLeft
<1> QED
  BY <1>1, <1>2, <1>3, <1>4, WaitsAreWorth

\* Whatever a request does short of a new start takes work off what is left.
LEMMA OwnWork ==
  ASSUME Types, NEW r \in Requests, ListsApart(r), Progress(r) \/ Disconnect(r)
  PROVE  WorkLeft(r)' < WorkLeft(r)
<1>1. LoopStep(r) /\ pc[r] \in {"select", "check", "calling"}
  BY DEF LoopStep, Progress, Disconnect, Pick, WaitForRpm, Wait, GiveUp, RejectType,
    Intercept, RpmFull, SlotFull, Forward, CallFails, Answer, AuthRejected,
    BillingRejected, WindowFull, RetryBurst, Retry, BurstExhausted
<1>2. ~Begin(r)
  BY <1>1 DEF Begin
<1>3. /\ Cardinality(typeOut[r]) \in Int /\ Cardinality(rpmOut[r]) \in 0..Everyone
      /\ RetriesLeft(r) \in Int /\ WaitsWorth(waits[r]) \in Int
      /\ switches[r] \in Int /\ MaxSwitches \in Int /\ Everyone \in Nat
  BY WorkSizes
<1>4. /\ IsFiniteSet(typeOut[r]) /\ IsFiniteSet(rpmOut[r])
  BY LoopAssumption, FS_Subset DEF LoopAssumption, Types, LoopTypeOK
<1>5. pc[r] = "check" => acct[r] \notin rpmOut[r] /\ acct[r] \notin typeOut[r]
  BY DEF Types, LoopTypeOK, ListsApart
<1>6. ASSUME UNCHANGED <<switches, typeOut, rpmOut, retries, waits>>
      PROVE  RoundsLeft(r)' = RoundsLeft(r) /\ RoundsLeft(r) \in Int
  BY <1>3, <1>6 DEF RoundsLeft, RetriesLeft, Retried
<1>7. ASSUME UNCHANGED <<switches, typeOut, rpmOut, retries, waits>>,
             PlacesLeft(pc'[r]) < PlacesLeft(pc[r])
      PROVE  WorkLeft(r)' < WorkLeft(r)
  BY <1>6, <1>7 DEF WorkLeft, PlacesLeft
<1>8. ASSUME RoundsLeft(r)' \in Int, RoundsLeft(r) \in Int,
             RoundsLeft(r)' < RoundsLeft(r)
      PROVE  WorkLeft(r)' < WorkLeft(r)
  <2>1. PlacesLeft(pc'[r]) \in 0..3 /\ PlacesLeft(pc[r]) \in 1..3
    BY <1>1 DEF PlacesLeft
  <2> QED
    BY <1>8, <2>1 DEF WorkLeft
<1>9. CASE Pick(r) \/ Forward(r)
  BY <1>7, <1>9 DEF Pick, Forward, GoTo, PlacesLeft, Types, LoopTypeOK
<1>10. CASE GiveUp(r) \/ \E o \in {"upstream", "error", "none"} : End(r, o)
  BY <1>1, <1>7, <1>10 DEF GiveUp, End, GoTo, PlacesLeft, Types, LoopTypeOK
<1>11. CASE WaitForRpm(r)
  <2>1. /\ waits[r] \in 0..MaxWaits /\ waits[r] < MaxWaits
        /\ waits'[r] = waits[r] + 1 /\ rpmOut'[r] = {}
        /\ UNCHANGED <<switches, typeOut, retries>>
    BY <1>11 DEF WaitForRpm, Wait, Types, LoopTypeOK
  <2>2. WaitsWorth(waits[r]) = WaitsWorth(waits[r] + 1) + Everyone + 1
    BY <2>1, WaitsAreWorth
  <2>3. Cardinality(rpmOut'[r]) = 0 /\ WaitsWorth(waits[r] + 1) \in Int
    <3>1. waits[r] + 1 \in 0..MaxWaits
      BY <2>1, LoopAssumption DEF LoopAssumption
    <3> QED
      BY <2>1, <3>1, FS_EmptySet, WaitsAreWorth
  <2>4. RetriesLeft(r)' = RetriesLeft(r)
    BY <2>1 DEF RetriesLeft, Retried
  <2>5. WaitsWorth(waits[r])' = WaitsWorth(waits[r] + 1)
    BY <2>1 DEF WaitsWorth, Everyone
  <2> QED
    BY <1>3, <1>8, <2>1, <2>2, <2>3, <2>4, <2>5 DEF RoundsLeft, Everyone
<1>12. CASE RejectType(r)
  <2>1. /\ typeOut'[r] = typeOut[r] \cup {acct[r]} /\ acct[r] \notin typeOut[r]
        /\ UNCHANGED <<switches, rpmOut, retries, waits>>
    BY <1>5, <1>12 DEF RejectType, Types, LoopTypeOK
  <2>2. Cardinality(typeOut'[r]) = Cardinality(typeOut[r]) + 1
    BY <1>4, <2>1, OneMore
  <2> QED
    BY <1>3, <1>8, <2>1, <2>2 DEF RoundsLeft, RetriesLeft, Retried
<1>13. CASE RpmFull(r)
  <2>1. /\ rpmOut'[r] = rpmOut[r] \cup {acct[r]} /\ acct[r] \notin rpmOut[r]
        /\ UNCHANGED <<switches, typeOut, retries, waits>>
    BY <1>5, <1>13 DEF RpmFull, Types, LoopTypeOK
  <2>2. Cardinality(rpmOut'[r]) = Cardinality(rpmOut[r]) + 1
    BY <1>4, <2>1, OneMore
  <2> QED
    BY <1>3, <1>8, <2>1, <2>2 DEF RoundsLeft, RetriesLeft, Retried
<1>14. CASE pc[r] = "calling" /\ SwitchAccount(r)
  <2>1. switches'[r] = switches[r] + 1 /\ UNCHANGED <<typeOut, rpmOut, retries, waits>>
    BY <1>14 DEF SwitchAccount, Switch, Types, LoopTypeOK
  <2> QED
    BY <1>3, <1>8, <2>1 DEF RoundsLeft, RetriesLeft, Retried
<1>15. CASE RetryBurst(r)
  <2>1. /\ retries[r] \in [Accounts -> 0..MaxRetries] /\ acct[r] \in Accounts
        /\ retries[r][acct[r]] < MaxRetries
        /\ retries'[r] = [retries[r] EXCEPT ![acct[r]] = retries[r][acct[r]] + 1]
        /\ UNCHANGED <<switches, typeOut, rpmOut, waits>>
    BY <1>15 DEF RetryBurst, Retry, Types, TypeOK, LoopTypeOK
  <2>2. Cardinality(Retried(r))' = Cardinality(Retried(r)) + 1
    BY <2>1, RetriesOfOne DEF Retried
  <2>3. Cardinality(Retried(r)) \in Nat /\ Cardinality(Accounts \X (1..MaxRetries)) \in Nat
    BY Sizes, PairsFinite, FS_CardinalityType
  <2>4. RetriesLeft(r)' = RetriesLeft(r) - 1
    BY <2>2, <2>3 DEF RetriesLeft
  <2> QED
    BY <1>3, <1>8, <2>1, <2>4 DEF RoundsLeft
<1> QED
  BY <1>1, <1>2, <1>9, <1>10, <1>11, <1>12, <1>13, <1>14, <1>15, Ways

(***************************************************************************)
(* The work left to a request is a number, and never more than the bounds  *)
(* of the loop and the number of accounts give it when it arrives.         *)
(***************************************************************************)
THEOREM WorkIsBounded == LoopSpec => []WorkInBounds
<1>1. ASSUME Types PROVE WorkInBounds
  <2> SUFFICES ASSUME NEW r \in Requests
               PROVE  WorkLeft(r) \in 0..MostWork
    BY DEF WorkInBounds
  <2>1. PlacesLeft(pc[r]) \in 0..3
    BY DEF PlacesLeft
  <2> DEFINE pairs == Cardinality(Accounts \X (1..MaxRetries))
             worth == MaxWaits * (Everyone + 1)
  <2>2. /\ Cardinality(typeOut[r]) \in 0..Everyone
        /\ Cardinality(rpmOut[r]) \in 0..Everyone
        /\ RetriesLeft(r) \in 0..pairs
        /\ WaitsWorth(waits[r]) \in 0..worth
        /\ switches[r] \in 0..MaxSwitches /\ MaxSwitches \in Nat
        /\ Everyone \in Nat
    BY <1>1, WorkSizes
  <2>3. pairs \in Nat /\ worth \in Nat
    <3>1. pairs \in Nat
      BY PairsFinite, FS_CardinalityType
    <3>2. MaxWaits \in Nat /\ Everyone + 1 \in Nat
      BY <2>2, LoopAssumption DEF LoopAssumption
    <3> QED
      BY <3>1, <3>2
  <2>4. MostWork = 4 * (MaxSwitches + pairs + 2 * Everyone + worth) + 3
    BY DEF MostWork
  <2> HIDE DEF pairs, worth
  <2>5. /\ RoundsLeft(r) \in Nat
        /\ RoundsLeft(r) <= MaxSwitches + pairs + 2 * Everyone + worth
    BY <2>2, <2>3 DEF RoundsLeft
  <2> QED
    BY <2>1, <2>2, <2>3, <2>4, <2>5 DEF WorkLeft
<1> QED
  BY <1>1, LoopPoolTyped, LoopTypeCorrect, PTL DEF Types

(***************************************************************************)
(* Every step that the gateway takes for a request, for any accounts and   *)
(* bounds, lowers the work left to it, and nothing that other requests,    *)
(* the administrator or time do gives it more.  With WorkIsBounded, a      *)
(* request takes at most MostWork steps; that it takes them is fairness.   *)
(***************************************************************************)
THEOREM WorkShrinks == LoopSpec => WorkFalls
<1> DEFINE Falls(r) ==
      /\ Progress(r) \/ Disconnect(r) => WorkLeft(r)' < WorkLeft(r)
      /\ pc[r] # "idle" => WorkLeft(r)' <= WorkLeft(r)
<1>1. ASSUME Types, WorkInBounds, WorkInBounds',
             \A r \in Requests : ListsApart(r), [LoopNext]_vars
      PROVE  [\A r \in Requests : Falls(r)]_vars
  <2> SUFFICES ASSUME LoopNext, NEW q \in Requests
               PROVE  Falls(q)
    BY <1>1
  <2>1. ASSUME Progress(q) \/ Disconnect(q) PROVE WorkLeft(q)' < WorkLeft(q)
    BY <1>1, <2>1, OwnWork
  <2>2. ASSUME UNCHANGED <<switches[q], typeOut[q], rpmOut[q], retries[q], waits[q], pc[q]>>
        PROVE  WorkLeft(q)' = WorkLeft(q)
    BY <2>2 DEF WorkLeft, RoundsLeft, RetriesLeft, Retried, WaitsWorth, Everyone
  <2>3. ASSUME NEW r \in Requests, LoopStep(r), r # q PROVE WorkLeft(q)' = WorkLeft(q)
    BY <1>1, <2>2, <2>3, OthersUntouched
  <2>4. ASSUME PoolStep /\ UNCHANGED loopVars PROVE WorkLeft(q)' = WorkLeft(q)
    BY <2>2, <2>4, NobodyMoves
  <2>5. ASSUME pc[q] # "idle" PROVE WorkLeft(q)' <= WorkLeft(q)
    <3>1. WorkLeft(q) \in Int /\ WorkLeft(q)' \in Int
      BY <1>1 DEF WorkInBounds
    <3>2. ~Begin(q)
      BY <2>5 DEF Begin
    <3> QED
      BY <2>1, <2>3, <2>4, <3>1, <3>2 DEF LoopNext, LoopStep
  <2> QED
    BY <2>1, <2>5
<1> QED
  BY <1>1, LoopPoolTyped, LoopTypeCorrect, ListsStayApart, WorkIsBounded, PTL
  DEF LoopSpec, Types, WorkFalls
===============================================================================
