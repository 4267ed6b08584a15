--------------------------- MODULE MemorySlotsProofs ---------------------------
(***************************************************************************)
(* Proofs about MemorySlots for any set of requests, accounts and tokens   *)
(* and any limits: the counters are accounted for, and they implement the  *)
(* abstract limit of BoundedConcurrency.                                   *)
(***************************************************************************)
EXTENDS MemorySlots, FiniteSetTheorems, TLAPS

\* The inductive invariant: the refinement needs both the sum and the limit.
WithinLimit == \A k \in Keys : slots[k] <= Max[k]

SlotsInv == TypeOK /\ Accounting /\ WithinLimit

\* 1 if request r is included in the counter of k, 0 if not.
Share(r, k) == IF k \in Holds(r) THEN 1 ELSE 0
-------------------------------------------------------------------------------
(***************************************************************************)
(* When a step changes what one request holds, the number of holders of a  *)
(* key moves by that request's share.                                      *)
(***************************************************************************)
LEMMA HoldersStep ==
  ASSUME NEW r \in Requests, NEW k,
         \A q \in Requests \ {r} : Holds(q)' = Holds(q)
  PROVE  /\ Cardinality(Holders(k)) \in Nat
         /\ Cardinality(Holders(k)') \in Nat
         /\ Cardinality(Holders(k)') + Share(r, k)
              = Cardinality(Holders(k)) + Share(r, k)'
  <1> DEFINE Others == {q \in Requests \ {r} : k \in Holds(q)}
  <1>1. IsFiniteSet(Others)
    <2>1. IsFiniteSet(Requests)
      BY SlotsAssumption
    <2> QED BY <2>1, FS_Subset, Others \subseteq Requests
  <1>2. /\ r \notin Others
        /\ Cardinality(Others) \in Nat
    BY <1>1, FS_CardinalityType
  <1>3. /\ Cardinality(Others \cup {r}) = Cardinality(Others) + 1
    BY <1>1, <1>2, FS_AddElement
  <1>4. Holders(k) = IF k \in Holds(r) THEN Others \cup {r} ELSE Others
    BY DEF Holders
  <1>5. Holders(k)' = IF k \in Holds(r)' THEN Others \cup {r} ELSE Others
    <2>1. Holders(k)' = {q \in Requests : k \in Holds(q)'}
      BY DEF Holders
    <2>2. \A q \in Requests \ {r} : (k \in Holds(q)') = (k \in Holds(q))
      OBVIOUS
    <2> HIDE DEF Others
    <2>3. \A q \in Requests \ {r} : q \in Others <=> k \in Holds(q)'
      BY <2>2 DEF Others
    <2>4. Others \subseteq Requests \ {r}
      BY DEF Others
    <2> QED BY <2>1, <2>3, <2>4
  <1> HIDE DEF Others
  <1> QED BY <1>2, <1>3, <1>4, <1>5 DEF Share

(***************************************************************************)
(* The operations of the store map counters to counters, at their key      *)
(* only; release_slot stops at zero.                                       *)
(***************************************************************************)
LEMMA StoreOperations ==
  ASSUME NEW s \in [Keys -> Nat], NEW k \in Keys
  PROVE  /\ Acquired(s, k) \in [Keys -> Nat]
         /\ Released(s, k) \in [Keys -> Nat]
         /\ Acquired(s, k)[k] = s[k] + 1
         /\ s[k] > 0 => Released(s, k)[k] = s[k] - 1
         /\ \A j \in Keys \ {k} : /\ Acquired(s, k)[j] = s[j]
                                 /\ Released(s, k)[j] = s[j]
  <1>1. s[k] + 1 \in Nat /\ (IF s[k] > 0 THEN s[k] - 1 ELSE s[k]) \in Nat
    OBVIOUS
  <1> QED BY <1>1 DEF Acquired, Released

\* A guard that is dropped adds one release task for each of its keys.
LEMMA DroppedGuards ==
  ASSUME spawned \in [Keys -> Nat], NEW S
  PROVE  /\ DropGuards(S) \in [Keys -> Nat]
         /\ \A k \in Keys :
              DropGuards(S)[k] = spawned[k] + (IF k \in S THEN 1 ELSE 0)
  BY DEF DropGuards
-------------------------------------------------------------------------------
\* Every step keeps the type invariant.
LEMMA TypeStep == TypeOK /\ [Next]_vars => TypeOK'
  <1> SUFFICES ASSUME TypeOK, [Next]_vars
               PROVE  TypeOK'
    OBVIOUS
  <1> USE DEF TypeOK, Phases
  <1>1. ASSUME NEW r \in Requests, Arrive(r) PROVE TypeOK'
    <2>1. PICK t \in Tokens \cup {NoToken} :
            /\ slots' = IF t = NoToken THEN slots ELSE Acquired(slots, t)
            /\ tok' = [tok EXCEPT ![r] = t]
      BY <1>1 DEF Arrive
    <2>2. slots' \in [Keys -> Nat]
      BY <2>1, StoreOperations DEF Keys
    <2> QED BY <1>1, <2>1, <2>2 DEF Arrive
  <1>2. ASSUME NEW r \in Requests, NEW a \in Accounts, AcquireAccount(r, a)
        PROVE  TypeOK'
    <2>1. slots' \in [Keys -> Nat] /\ a # NoAccount
      BY <1>2, StoreOperations, SlotsAssumption DEF AcquireAccount, Keys
    <2> QED BY <1>2, <2>1 DEF AcquireAccount
  <1>3. ASSUME NEW r \in Requests, NEW a \in Accounts, AccountFull(r, a)
        PROVE  TypeOK'
    BY <1>3, DroppedGuards DEF AccountFull
  <1>4. ASSUME NEW r \in Requests, ReturnResponse(r) PROVE TypeOK'
    BY <1>4, DroppedGuards DEF ReturnResponse
  <1>5. ASSUME NEW r \in Requests, EndBody(r) PROVE TypeOK'
    BY <1>5 DEF EndBody
  <1>6. ASSUME NEW r \in Requests, Abort(r) PROVE TypeOK'
    BY <1>6, DroppedGuards DEF Abort
  <1>7. ASSUME NEW r \in Requests, ForgetGuard(r) PROVE TypeOK'
    BY <1>7 DEF ForgetGuard
  <1>8. ASSUME NEW r \in Requests, ReleaseForgotten(r) PROVE TypeOK'
    <2>1. acct[r] \in Keys
      BY <1>8 DEF ReleaseForgotten, Keys
    <2>2. slots' \in [Keys -> Nat]
      BY <1>8, <2>1, StoreOperations DEF ReleaseForgotten
    <2> QED BY <1>8, <2>2 DEF ReleaseForgotten
  <1>9. ASSUME NEW r \in Requests, DisconnectForgotten(r) PROVE TypeOK'
    <2>1. acct[r] \in Keys
      BY <1>9 DEF DisconnectForgotten, Keys
    <2>2. spawned' \in [Keys -> Nat] /\ leaked' \in [Keys -> Nat]
      BY <1>9, <2>1, DroppedGuards DEF DisconnectForgotten
    <2> QED BY <1>9, <2>2 DEF DisconnectForgotten
  <1>10. ASSUME NEW k \in Keys, RunSpawned(k) PROVE TypeOK'
    BY <1>10, StoreOperations DEF RunSpawned
  <1>11. CASE UNCHANGED vars
    BY <1>11 DEF vars
  <1> QED
    BY <1>1, <1>2, <1>3, <1>4, <1>5, <1>6, <1>7, <1>8, <1>9, <1>10, <1>11
       DEF Next, RequestStep

(***************************************************************************)
(* Type correctness: every variable keeps its type, and a request that has *)
(* armed or forgotten an account guard knows which account it is.          *)
(***************************************************************************)
THEOREM TypeCorrect == Spec => []TypeOK
  <1>1. Init => TypeOK
    BY DEF Init, TypeOK, Phases
  <1> QED
    BY <1>1, TypeStep, PTL DEF Spec
-------------------------------------------------------------------------------
\* The arithmetic of Balanced at one key.
LEMMA BalancedAt ==
  ASSUME NEW r, NEW k,
         slots[k] \in Nat, slots'[k] \in Nat, Owed(k) \in Nat, Owed(k)' \in Nat,
         Share(r, k) \in Nat, Share(r, k)' \in Nat,
         Cardinality(Holders(k)) \in Nat, Cardinality(Holders(k)') \in Nat,
         slots[k] = Cardinality(Holders(k)) + Owed(k),
         Cardinality(Holders(k)') + Share(r, k)
           = Cardinality(Holders(k)) + Share(r, k)',
         slots'[k] + Share(r, k) + Owed(k) = slots[k] + Share(r, k)' + Owed(k)'
  PROVE  slots'[k] = Cardinality(Holders(k)') + Owed(k)'
  OBVIOUS

(***************************************************************************)
(* A step of one request keeps the counters accounted for when, at every   *)
(* key, the counter moves with what is owed and with its share.            *)
(***************************************************************************)
LEMMA Balanced ==
  ASSUME TypeOK, TypeOK', Accounting,
         NEW r \in Requests,
         \A q \in Requests \ {r} : Holds(q)' = Holds(q),
         \A k \in Keys :
           slots'[k] + Share(r, k) + Owed(k) = slots[k] + Share(r, k)' + Owed(k)'
  PROVE  Accounting'
  <1> SUFFICES ASSUME NEW k \in Keys
               PROVE  slots'[k] = Cardinality(Holders(k)') + Owed(k)'
    BY DEF Accounting
  <1>1. slots[k] = Cardinality(Holders(k)) + Owed(k)
    BY DEF Accounting
  <1>2. /\ Cardinality(Holders(k)) \in Nat
        /\ Cardinality(Holders(k)') \in Nat
        /\ Cardinality(Holders(k)') + Share(r, k)
             = Cardinality(Holders(k)) + Share(r, k)'
    BY HoldersStep
  <1>3. Share(r, k) \in Nat /\ Share(r, k)' \in Nat
    BY DEF Share
  <1>4. /\ slots[k] \in Nat /\ slots'[k] \in Nat
        /\ Owed(k) \in Nat /\ Owed(k)' \in Nat
    BY DEF TypeOK, Owed
  <1>5. slots'[k] + Share(r, k) + Owed(k) = slots[k] + Share(r, k)' + Owed(k)'
    OBVIOUS
  <1> QED BY <1>1, <1>2, <1>3, <1>4, <1>5, BalancedAt

(***************************************************************************)
(* A counter that someone holds, or that a release task is about to        *)
(* decrement, is positive: release_slot never meets its clamp at zero.     *)
(***************************************************************************)
LEMMA NoClamp ==
  ASSUME TypeOK, Accounting, NEW k \in Keys,
         spawned[k] > 0 \/ \E r \in Requests : k \in Holds(r)
  PROVE  slots[k] > 0
  <1>1. slots[k] = Cardinality(Holders(k)) + Owed(k)
    BY DEF Accounting
  <1>2. IsFiniteSet(Holders(k))
    BY SlotsAssumption, FS_Subset, Holders(k) \subseteq Requests DEF Holders
  <1>3. /\ Cardinality(Holders(k)) \in Nat
        /\ spawned[k] \in Nat
        /\ leaked[k] \in Nat
    BY <1>2, FS_CardinalityType DEF TypeOK
  <1>4. CASE spawned[k] > 0
    BY <1>1, <1>3, <1>4 DEF Owed
  <1>5. CASE \E r \in Requests : k \in Holds(r)
    <2>1. Cardinality(Holders(k)) # 0
      BY <1>2, <1>5, FS_EmptySet DEF Holders
    <2> QED BY <1>1, <1>3, <2>1 DEF Owed
  <1> QED BY <1>4, <1>5
-------------------------------------------------------------------------------
\* A step of one request leaves what the others hold alone.
LEMMA OthersUntouched ==
  ASSUME TypeOK, NEW r \in Requests, RequestStep(r), NEW q \in Requests \ {r}
  PROVE  Holds(q)' = Holds(q)
  <1>1. pc'[q] = pc[q] /\ tok'[q] = tok[q] /\ acct'[q] = acct[q]
    BY DEF TypeOK, RequestStep, Arrive, AcquireAccount, AccountFull, ReturnResponse,
           EndBody, Abort, ForgetGuard, ReleaseForgotten, DisconnectForgotten
  <1> QED BY <1>1 DEF Holds, Inside

(***************************************************************************)
(* What each step of a request does at key k to the counter, to the        *)
(* request's share in it and to what is owed.                              *)
(***************************************************************************)
MovesTogether(r) ==
  \A k \in Keys :
    slots'[k] + Share(r, k) + Owed(k) = slots[k] + Share(r, k)' + Owed(k)'

\* Slots that the request keeps: nothing moves.
LEMMA KeepsAll ==
  ASSUME TypeOK, NEW r \in Requests,
         UNCHANGED <<slots, spawned, leaked>>, Holds(r)' = Holds(r)
  PROVE  MovesTogether(r)
  BY DEF MovesTogether, Share, Owed, TypeOK

\* Guards that drop: every slot held becomes a release that is owed.
LEMMA DropsAll ==
  ASSUME TypeOK, NEW r \in Requests, Holds(r)' = {},
         spawned' = DropGuards(Holds(r)), UNCHANGED <<slots, leaked>>
  PROVE  MovesTogether(r)
  <1> SUFFICES ASSUME NEW k \in Keys
               PROVE  slots[k] + Share(r, k) + Owed(k) = slots[k] + Share(r, k)' + Owed(k)'
    BY DEF MovesTogether
  <1>1. spawned'[k] = spawned[k] + Share(r, k)
    BY DroppedGuards DEF TypeOK, Share
  <1>2. Share(r, k)' = 0 /\ Share(r, k) \in Nat
    BY DEF Share
  <1>3. slots[k] \in Nat /\ spawned[k] \in Nat /\ leaked[k] \in Nat
    BY DEF TypeOK
  <1> QED BY <1>1, <1>2, <1>3 DEF Owed

\* A slot that is acquired and kept.
LEMMA TakesOne ==
  ASSUME TypeOK, NEW r \in Requests, NEW j \in Keys, j \notin Holds(r),
         Holds(r)' = Holds(r) \cup {j},
         slots' = Acquired(slots, j), UNCHANGED <<spawned, leaked>>
  PROVE  MovesTogether(r)
  <1> SUFFICES ASSUME NEW k \in Keys
               PROVE  slots'[k] + Share(r, k) + Owed(k) = slots[k] + Share(r, k)' + Owed(k)'
    BY DEF MovesTogether
  <1>1. Owed(k)' = Owed(k) /\ Owed(k) \in Nat /\ slots[k] \in Nat
    BY DEF Owed, TypeOK
  <1>2. slots'[k] = IF k = j THEN slots[k] + 1 ELSE slots[k]
    BY StoreOperations DEF TypeOK
  <1>3. Share(r, k)' = IF k = j THEN 1 ELSE Share(r, k)
    BY DEF Share
  <1>4. k = j => Share(r, k) = 0
    BY DEF Share
  <1>5. Share(r, k) \in Nat
    BY DEF Share
  <1> QED BY <1>1, <1>2, <1>3, <1>4, <1>5

\* A slot that is given back at once.
LEMMA ReturnsOne ==
  ASSUME TypeOK, Accounting, NEW r \in Requests, NEW j \in Keys, j \in Holds(r),
         Holds(r)' = Holds(r) \ {j},
         slots' = Released(slots, j), UNCHANGED <<spawned, leaked>>
  PROVE  MovesTogether(r)
  <1> SUFFICES ASSUME NEW k \in Keys
               PROVE  slots'[k] + Share(r, k) + Owed(k) = slots[k] + Share(r, k)' + Owed(k)'
    BY DEF MovesTogether
  <1>1. Owed(k)' = Owed(k) /\ Owed(k) \in Nat /\ slots[k] \in Nat
    BY DEF Owed, TypeOK
  <1>2. slots[j] > 0
    BY NoClamp
  <1>3. slots'[k] = IF k = j THEN slots[k] - 1 ELSE slots[k]
    BY <1>2, StoreOperations DEF TypeOK
  <1>4. Share(r, k)' = IF k = j THEN 0 ELSE Share(r, k)
    BY DEF Share
  <1>5. k = j => Share(r, k) = 1
    BY DEF Share
  <1>6. Share(r, k) \in Nat
    BY DEF Share
  <1> QED BY <1>1, <1>3, <1>4, <1>5, <1>6

\* A slot that is lost, while the other guards drop: all of it is owed.
LEMMA LosesOne ==
  ASSUME TypeOK, NEW r \in Requests, NEW j \in Keys, j \in Holds(r),
         Holds(r)' = {}, leaked' = [leaked EXCEPT ![j] = @ + 1],
         spawned' = DropGuards(Holds(r) \ {j}), UNCHANGED slots
  PROVE  MovesTogether(r)
  <1> SUFFICES ASSUME NEW k \in Keys
               PROVE  slots[k] + Share(r, k) + Owed(k) = slots[k] + Share(r, k)' + Owed(k)'
    BY DEF MovesTogether
  <1>1. spawned'[k] = spawned[k] + (IF k \in Holds(r) \ {j} THEN 1 ELSE 0)
    BY DroppedGuards DEF TypeOK
  <1>2. leaked'[k] = IF k = j THEN leaked[k] + 1 ELSE leaked[k]
    BY DEF TypeOK
  <1>3. Share(r, k)' = 0
    BY DEF Share
  <1>4. slots[k] \in Nat /\ spawned[k] \in Nat /\ leaked[k] \in Nat
    BY DEF TypeOK
  <1>5. CASE k = j
    <2>1. Share(r, k) = 1 /\ k \notin Holds(r) \ {j}
      BY <1>5 DEF Share
    <2> QED BY <1>1, <1>2, <1>3, <1>4, <1>5, <2>1 DEF Owed
  <1>6. CASE k # j
    <2>1. spawned'[k] = spawned[k] + Share(r, k) /\ Share(r, k) \in Nat
      BY <1>1, <1>6 DEF Share
    <2> QED BY <1>2, <1>3, <1>4, <1>6, <2>1 DEF Owed
  <1> QED BY <1>5, <1>6
-------------------------------------------------------------------------------
\* A request step moves the counters together with what is held and owed.
LEMMA RequestMoves ==
  ASSUME TypeOK, Accounting, NEW r \in Requests, RequestStep(r)
  PROVE  MovesTogether(r)
  <1> USE DEF Holds, Inside
  <1>1. CASE Arrive(r)
    <2>1. Holds(r) = {}
      BY <1>1 DEF Arrive
    <2>2. PICK t \in Tokens \cup {NoToken} :
            /\ slots' = IF t = NoToken THEN slots ELSE Acquired(slots, t)
            /\ tok' = [tok EXCEPT ![r] = t]
      BY <1>1 DEF Arrive
    <2>3. Holds(r)' = {t} \ {NoToken} /\ UNCHANGED <<spawned, leaked>>
      BY <1>1, <2>2 DEF Arrive, TypeOK
    <2>4. CASE t = NoToken
      BY <2>1, <2>2, <2>3, <2>4, KeepsAll
    <2>5. CASE t # NoToken
      <3>1. t \in Keys /\ t \notin Holds(r) /\ Holds(r)' = Holds(r) \cup {t}
        BY <2>1, <2>3, <2>5 DEF Keys
      <3> HIDE DEF Holds
      <3> QED BY <2>2, <2>3, <2>5, <3>1, TakesOne
    <2> QED BY <2>4, <2>5
  <1>2. ASSUME NEW a \in Accounts, AcquireAccount(r, a) PROVE MovesTogether(r)
    <2>1. a \in Keys /\ a \notin Holds(r) /\ Holds(r)' = Holds(r) \cup {a}
      BY <1>2, SlotsAssumption DEF AcquireAccount, TypeOK, Keys
    <2> HIDE DEF Holds
    <2> QED BY <1>2, <2>1, TakesOne DEF AcquireAccount
  <1>3. ASSUME NEW a \in Accounts, AccountFull(r, a) PROVE MovesTogether(r)
    <2>1. Holds(r)' = {}
      BY <1>3 DEF AccountFull, TypeOK
    <2> HIDE DEF Holds
    <2> QED BY <1>3, <2>1, DropsAll DEF AccountFull
  <1>4. CASE ReturnResponse(r)
    <2>1. Holds(r)' = {}
      BY <1>4 DEF ReturnResponse, TypeOK
    <2> HIDE DEF Holds
    <2> QED BY <1>4, <2>1, DropsAll DEF ReturnResponse
  <1>5. CASE EndBody(r)
    <2>1. Holds(r)' = Holds(r)
      BY <1>5 DEF EndBody, TypeOK
    <2> QED BY <1>5, <2>1, KeepsAll DEF EndBody
  <1>6. CASE Abort(r)
    <2>1. Holds(r)' = {}
      BY <1>6 DEF Abort, TypeOK
    <2> HIDE DEF Holds
    <2> QED BY <1>6, <2>1, DropsAll DEF Abort
  <1>7. CASE ForgetGuard(r)
    <2>1. Holds(r)' = Holds(r)
      BY <1>7 DEF ForgetGuard, TypeOK
    <2> QED BY <1>7, <2>1, KeepsAll DEF ForgetGuard
  <1>8. CASE ReleaseForgotten(r)
    <2>1. acct[r] \in Keys /\ acct[r] \in Holds(r)
      BY <1>8 DEF ReleaseForgotten, TypeOK, Keys
    <2>2. acct[r] # tok[r]
      BY <2>1, SlotsAssumption, <1>8 DEF ReleaseForgotten, TypeOK, Keys
    <2>3. Holds(r)' = Holds(r) \ {acct[r]}
      BY <1>8, <2>2 DEF ReleaseForgotten, TypeOK
    <2> HIDE DEF Holds
    <2> QED BY <1>8, <2>1, <2>3, ReturnsOne DEF ReleaseForgotten
  <1>9. CASE DisconnectForgotten(r)
    <2>1. acct[r] \in Keys /\ acct[r] \in Holds(r) /\ Holds(r)' = {}
      BY <1>9 DEF DisconnectForgotten, TypeOK, Keys
    <2> HIDE DEF Holds
    <2> QED BY <1>9, <2>1, LosesOne DEF DisconnectForgotten
  <1> QED
    BY <1>1, <1>2, <1>3, <1>4, <1>5, <1>6, <1>7, <1>8, <1>9 DEF RequestStep

\* A release task that runs moves one slot from "owed" to "free".
LEMMA SpawnedMoves ==
  ASSUME TypeOK, Accounting, NEW j \in Keys, RunSpawned(j)
  PROVE  Accounting'
  <1> SUFFICES ASSUME NEW k \in Keys
               PROVE  slots'[k] = Cardinality(Holders(k)') + Owed(k)'
    BY DEF Accounting
  <1>1. Holders(k)' = Holders(k)
    BY DEF RunSpawned, Holders, Holds, Inside
  <1>2. Cardinality(Holders(k)) \in Nat
    BY SlotsAssumption, FS_Subset, FS_CardinalityType, Holders(k) \subseteq Requests
       DEF Holders
  <1>3. slots[k] = Cardinality(Holders(k)) + Owed(k)
    BY DEF Accounting
  <1>4. slots[k] \in Nat /\ spawned[k] \in Nat /\ leaked[k] \in Nat
    BY DEF TypeOK
  <1>5. CASE k = j
    <2>1. spawned[k] > 0 /\ spawned'[k] = spawned[k] - 1 /\ leaked'[k] = leaked[k]
      BY <1>5 DEF RunSpawned, TypeOK
    <2>2. slots'[k] = slots[k] - 1
      BY <1>5, <2>1, NoClamp, StoreOperations DEF RunSpawned, TypeOK
    <2> QED BY <1>1, <1>2, <1>3, <1>4, <2>1, <2>2 DEF Owed
  <1>6. CASE k # j
    <2>1. slots \in [Keys -> Nat] /\ slots' = Released(slots, j)
      BY DEF RunSpawned, TypeOK
    <2>2. slots'[k] = slots[k]
      BY <1>6, <2>1, StoreOperations
    <2>3. spawned'[k] = spawned[k] /\ leaked'[k] = leaked[k]
      BY <1>6 DEF RunSpawned, TypeOK
    <2> QED BY <1>1, <1>3, <2>2, <2>3 DEF Owed
  <1> QED BY <1>5, <1>6

\* Counters only grow where there was room, so they stay within the limits.
LEMMA LimitStep ==
  ASSUME TypeOK, WithinLimit, [Next]_vars
  PROVE  WithinLimit'
  <1> SUFFICES ASSUME NEW k \in Keys PROVE slots'[k] <= Max[k]
    BY DEF WithinLimit
  <1>1. slots[k] \in Nat /\ Max[k] \in Nat /\ slots[k] <= Max[k]
    BY SlotsAssumption DEF TypeOK, WithinLimit
  <1>2. ASSUME NEW j \in Keys, HasRoom(j), slots' = Acquired(slots, j)
        PROVE  slots'[k] <= Max[k]
    <2>1. CASE k = j
      BY <1>1, <1>2, <2>1, StoreOperations DEF HasRoom, TypeOK
    <2>2. CASE k # j
      BY <1>1, <1>2, <2>2, StoreOperations DEF TypeOK
    <2> QED BY <2>1, <2>2
  <1>3. ASSUME NEW j \in Keys, slots' = Released(slots, j)
        PROVE  slots'[k] <= Max[k]
    <2>1. slots'[k] = slots[k] \/ slots'[k] = slots[k] - 1
      BY <1>3 DEF Released, TypeOK
    <2> QED BY <1>1, <2>1
  <1>4. \/ slots' = slots
        \/ \E j \in Keys : HasRoom(j) /\ slots' = Acquired(slots, j)
        \/ \E j \in Keys : slots' = Released(slots, j)
    BY DEF Next, RequestStep, Arrive, AcquireAccount, AccountFull, ReturnResponse,
           EndBody, Abort, ForgetGuard, ReleaseForgotten, DisconnectForgotten,
           RunSpawned, vars, Keys, TypeOK
  <1> QED BY <1>1, <1>2, <1>3, <1>4

\* The inductive invariant is inductive.
LEMMA InvStep == SlotsInv /\ [Next]_vars => SlotsInv'
  <1> SUFFICES ASSUME SlotsInv, [Next]_vars PROVE SlotsInv'
    OBVIOUS
  <1>1. TypeOK' /\ WithinLimit'
    BY TypeStep, LimitStep DEF SlotsInv
  <1>2. ASSUME NEW r \in Requests, RequestStep(r) PROVE Accounting'
    <2>1. \A k \in Keys :
            slots'[k] + Share(r, k) + Owed(k) = slots[k] + Share(r, k)' + Owed(k)'
      BY <1>2, RequestMoves DEF SlotsInv, MovesTogether
    <2>2. \A q \in Requests \ {r} : Holds(q)' = Holds(q)
      BY <1>2, OthersUntouched DEF SlotsInv
    <2> QED BY <1>1, <2>1, <2>2, Balanced DEF SlotsInv
  <1>3. ASSUME NEW k \in Keys, RunSpawned(k) PROVE Accounting'
    BY <1>3, SpawnedMoves DEF SlotsInv
  <1>4. ASSUME UNCHANGED vars PROVE Accounting'
    <2>1. \A k \in Keys : Holders(k)' = Holders(k) /\ Owed(k)' = Owed(k)
      BY <1>4 DEF vars, Holders, Holds, Inside, Owed
    <2>2. slots' = slots
      BY <1>4 DEF vars
    <2> QED BY <2>1, <2>2 DEF SlotsInv, Accounting
  <1> QED BY <1>1, <1>2, <1>3, <1>4 DEF SlotsInv, Next

\* The counters are accounted for when MemoryStore is new.
LEMMA InvInit == Init => SlotsInv
  <1> SUFFICES ASSUME Init PROVE SlotsInv
    OBVIOUS
  <1>1. TypeOK
    BY DEF Init, TypeOK, Phases
  <1>2. \A k \in Keys : Holders(k) = {}
    BY DEF Init, Holders, Holds, Inside
  <1>3. Accounting
    BY <1>2, FS_EmptySet DEF Accounting, Init, Owed
  <1>4. WithinLimit
    BY SlotsAssumption DEF WithinLimit, Init
  <1> QED BY <1>1, <1>3, <1>4 DEF SlotsInv

(***************************************************************************)
(* Accounting, for any number of requests, accounts and tokens: a counter  *)
(* is its holders, the releases still to run and the slots lost at the     *)
(* unguarded await of handle_request_inner, and nothing else.              *)
(***************************************************************************)
THEOREM SlotsAccounted == Spec => []Accounting
  <1>1. SlotsInv => Accounting
    BY DEF SlotsInv
  <1> QED
    BY <1>1, InvInit, InvStep, PTL DEF Spec
-------------------------------------------------------------------------------
\* Calls that are all counted fit under the limit while there is room.
LEMMA RoomForOne ==
  ASSUME TypeOK, Accounting, NEW k \in Keys, HasRoom(k),
         NEW C, C \subseteq Holders(k)
  PROVE  Cardinality(C) < Max[k]
  <1>1. IsFiniteSet(Holders(k))
    BY SlotsAssumption, FS_Subset, Holders(k) \subseteq Requests DEF Holders
  <1>2. /\ Cardinality(C) <= Cardinality(Holders(k))
        /\ IsFiniteSet(C)
    BY <1>1, FS_Subset
  <1>3. Cardinality(C) \in Nat /\ Cardinality(Holders(k)) \in Nat
    BY <1>1, <1>2, FS_CardinalityType
  <1>4. slots[k] = Cardinality(Holders(k)) + Owed(k) /\ slots[k] + 1 <= Max[k]
    BY DEF Accounting, HasRoom
  <1>5. Owed(k) \in Nat /\ Max[k] \in Nat
    BY SlotsAssumption DEF Owed, TypeOK
  <1> QED BY <1>2, <1>3, <1>4, <1>5

AccountStep == [AccountLimit!Next]_AccountCalls

\* A step of the slots starts a call on an account below its limit, ends calls, or
\* leaves the calls alone.
LEMMA AccountRefines == SlotsInv /\ [Next]_vars => AccountStep
  <1> SUFFICES ASSUME SlotsInv, [Next]_vars PROVE AccountStep
    OBVIOUS
  <1> DEFINE On(a) == {q \in Requests : pc[q] = "calling" /\ acct[q] = a}
  <1>1. TypeOK /\ Accounting
    BY DEF SlotsInv
  <1>2. ASSUME NEW r \in Requests, NEW a \in Accounts, AcquireAccount(r, a)
        PROVE  AccountLimit!Start(r, a)
    <2>1. r \notin AccountCalls[a] /\ AccountCalls[a] = On(a)
      BY <1>2 DEF AcquireAccount, AccountCalls
    <2>2. On(a) \subseteq Holders(a)
      BY DEF Holders, Holds
    <2>3. Cardinality(AccountCalls[a]) < Max[a]
      <3> HIDE DEF On
      <3> QED BY <1>1, <1>2, <2>1, <2>2, RoomForOne DEF AcquireAccount, Keys
    <2>4. AccountCalls' = [AccountCalls EXCEPT ![a] = @ \cup {r}]
      BY <1>1, <1>2 DEF AcquireAccount, AccountCalls, TypeOK
    <2> QED BY <2>1, <2>3, <2>4 DEF AccountLimit!Start, AccountLimit!Cardinality, Cardinality
  <1>3. ASSUME NEW r \in Requests, pc[r] = "calling",
               ReturnResponse(r) \/ Abort(r) \/ ForgetGuard(r)
        PROVE  AccountLimit!Finish(r, acct[r])
    <2>1. acct[r] \in Accounts /\ r \in AccountCalls[acct[r]]
      BY <1>1, <1>3 DEF TypeOK, AccountCalls
    <2>2. /\ pc'[r] # "calling"
          /\ \A q \in Requests \ {r} : pc'[q] = pc[q] /\ acct'[q] = acct[q]
      BY <1>1, <1>3 DEF ReturnResponse, Abort, ForgetGuard, TypeOK
    <2>3. \A a \in Accounts : On(a)' = IF a = acct[r] THEN On(a) \ {r} ELSE On(a)
      BY <1>3, <2>2
    <2>4. AccountCalls' = [AccountCalls EXCEPT ![acct[r]] = @ \ {r}]
      BY <2>3 DEF AccountCalls
    <2> QED BY <2>1, <2>4 DEF AccountLimit!Finish
  <1>4. ASSUME NEW r \in Requests,
               \/ Arrive(r) \/ EndBody(r) \/ ReleaseForgotten(r)
               \/ DisconnectForgotten(r) \/ (Abort(r) /\ pc[r] # "calling")
               \/ \E a \in Accounts : AccountFull(r, a)
        PROVE  UNCHANGED AccountCalls
    <2>1. pc[r] # "calling" /\ pc'[r] # "calling"
      BY <1>1, <1>4 DEF Arrive, EndBody, ReleaseForgotten, DisconnectForgotten,
                        Abort, AccountFull, TypeOK
    <2>2. \A q \in Requests \ {r} : pc'[q] = pc[q] /\ acct'[q] = acct[q]
      BY <1>1, <1>4 DEF Arrive, EndBody, ReleaseForgotten, DisconnectForgotten,
                        Abort, AccountFull, TypeOK
    <2> QED BY <2>1, <2>2 DEF AccountCalls
  <1>5. ASSUME (\E k \in Keys : RunSpawned(k)) \/ UNCHANGED vars
        PROVE  UNCHANGED AccountCalls
    BY <1>5 DEF RunSpawned, vars, AccountCalls
  <1>6. ASSUME NEW r \in Requests, RequestStep(r) PROVE AccountStep
    <2>1. CASE \E a \in Accounts : AcquireAccount(r, a)
      BY <1>2, <2>1 DEF AccountStep, AccountLimit!Next
    <2>2. CASE pc[r] = "calling" /\ (ReturnResponse(r) \/ Abort(r) \/ ForgetGuard(r))
      <3>1. acct[r] \in Accounts
        BY <1>1, <2>2 DEF TypeOK
      <3> QED BY <1>3, <2>2, <3>1 DEF AccountStep, AccountLimit!Next
    <2>3. CASE \/ Arrive(r) \/ EndBody(r) \/ ReleaseForgotten(r)
               \/ DisconnectForgotten(r) \/ (Abort(r) /\ pc[r] # "calling")
               \/ \E a \in Accounts : AccountFull(r, a)
      BY <1>4, <2>3 DEF AccountStep
    <2> QED BY <1>6, <2>1, <2>2, <2>3 DEF RequestStep, ReturnResponse, ForgetGuard
  <1> QED BY <1>5, <1>6 DEF Next, AccountStep

(***************************************************************************)
(* The account slots implement the limit: whatever is forwarded to an      *)
(* account while its guard is armed starts only below that account's       *)
(* limit.                                                                  *)
(***************************************************************************)
THEOREM AccountsLimited == Spec => AccountsBounded
  <1>1. Init => AccountLimit!Init
    BY DEF Init, AccountLimit!Init, AccountCalls
  <1> QED
    BY <1>1, InvInit, InvStep, AccountRefines, PTL
       DEF Spec, AccountsBounded, AccountLimit!Spec, AccountStep

TokenStep == [TokenLimit!Next]_TokenCalls

\* The same of the handlers that run for a token.
LEMMA TokenRefines == SlotsInv /\ [Next]_vars => TokenStep
  <1> SUFFICES ASSUME SlotsInv, [Next]_vars PROVE TokenStep
    OBVIOUS
  <1> DEFINE Under(t) == {q \in Requests : Inside(q) /\ tok[q] = t}
  <1>1. TypeOK /\ Accounting /\ NoToken \notin Tokens
    BY SlotsAssumption DEF SlotsInv, Keys
  <1>2. ASSUME NEW r \in Requests, Arrive(r) PROVE TokenStep
    <2>1. PICK t \in Tokens \cup {NoToken} :
            (t # NoToken => HasRoom(t)) /\ tok' = [tok EXCEPT ![r] = t]
      BY <1>2 DEF Arrive
    <2>2. CASE t = NoToken
      <3>1. TokenCalls' = TokenCalls
        BY <1>1, <1>2, <2>1, <2>2 DEF Arrive, TokenCalls, Inside, TypeOK
      <3> QED BY <3>1 DEF TokenStep
    <2>3. CASE t # NoToken
      <3>1. t \in Tokens /\ t \in Keys /\ HasRoom(t)
        BY <2>1, <2>3 DEF Keys
      <3>2. r \notin TokenCalls[t] /\ TokenCalls[t] = Under(t)
        BY <1>2, <3>1 DEF Arrive, TokenCalls, Inside
      <3>3. Under(t) \subseteq Holders(t)
        BY <1>1, <3>1 DEF Holders, Holds
      <3>4. Cardinality(TokenCalls[t]) < Max[t]
        <4> HIDE DEF Under
        <4> QED BY <1>1, <3>1, <3>2, <3>3, RoomForOne
      <3>5. TokenCalls' = [TokenCalls EXCEPT ![t] = @ \cup {r}]
        <4>1. ~ Inside(r) /\ Inside(r)' /\ tok'[r] = t
          BY <1>1, <1>2, <2>1 DEF Arrive, Inside, TypeOK
        <4>2. \A q \in Requests \ {r} : Inside(q)' = Inside(q) /\ tok'[q] = tok[q]
          BY <1>1, <1>2, <2>1 DEF Arrive, Inside, TypeOK
        <4>3. \A u \in Tokens :
                Under(u)' = IF u = t THEN Under(u) \cup {r} ELSE Under(u)
          BY <4>1, <4>2
        <4> QED BY <4>3 DEF TokenCalls
      <3>6. TokenLimit!Start(r, t)
        BY <3>2, <3>4, <3>5 DEF TokenLimit!Start, TokenLimit!Cardinality, Cardinality
      <3> QED BY <3>1, <3>6 DEF TokenStep, TokenLimit!Next
    <2> QED BY <2>2, <2>3
  <1>3. ASSUME NEW r \in Requests, Inside(r), ~ Inside(r)',
               \A q \in Requests \ {r} : pc'[q] = pc[q] /\ tok'[q] = tok[q]
        PROVE  TokenStep
    <2>1. CASE tok[r] = NoToken
      <3>1. UNCHANGED TokenCalls
        BY <1>1, <1>3, <2>1 DEF TokenCalls, Inside
      <3> QED BY <3>1 DEF TokenStep
    <2>2. CASE tok[r] # NoToken
      <3>1. tok[r] \in Tokens /\ r \in TokenCalls[tok[r]]
        BY <1>1, <1>3, <2>2 DEF TypeOK, TokenCalls
      <3>2. TokenCalls' = [TokenCalls EXCEPT ![tok[r]] = @ \ {r}]
        BY <1>1, <1>3, <3>1 DEF TokenCalls, Inside
      <3>3. TokenLimit!Finish(r, tok[r])
        BY <3>1, <3>2 DEF TokenLimit!Finish
      <3> QED BY <3>1, <3>3 DEF TokenStep, TokenLimit!Next
    <2> QED BY <2>1, <2>2
  <1>4. ASSUME NEW r \in Requests,
               \/ ReturnResponse(r) \/ Abort(r) \/ DisconnectForgotten(r)
               \/ \E a \in Accounts : AccountFull(r, a)
        PROVE  TokenStep
    <2>1. Inside(r) /\ ~ Inside(r)'
      BY <1>1, <1>4 DEF ReturnResponse, Abort, DisconnectForgotten, AccountFull,
                        Inside, TypeOK
    <2>2. \A q \in Requests \ {r} : pc'[q] = pc[q] /\ tok'[q] = tok[q]
      BY <1>1, <1>4 DEF ReturnResponse, Abort, DisconnectForgotten, AccountFull, TypeOK
    <2> QED BY <1>3, <2>1, <2>2
  <1>5. ASSUME NEW r \in Requests,
               \/ EndBody(r) \/ ForgetGuard(r) \/ ReleaseForgotten(r)
               \/ \E a \in Accounts : AcquireAccount(r, a)
        PROVE  TokenStep
    <2>1. Inside(r)' = Inside(r) /\ (Inside(r) => tok'[r] = tok[r])
      BY <1>1, <1>5 DEF EndBody, ForgetGuard, ReleaseForgotten, AcquireAccount,
                        Inside, TypeOK
    <2>2. \A q \in Requests \ {r} : pc'[q] = pc[q] /\ tok'[q] = tok[q]
      BY <1>1, <1>5 DEF EndBody, ForgetGuard, ReleaseForgotten, AcquireAccount, TypeOK
    <2>3. UNCHANGED TokenCalls
      BY <2>1, <2>2 DEF TokenCalls, Inside
    <2> QED BY <2>3 DEF TokenStep
  <1>6. ASSUME (\E k \in Keys : RunSpawned(k)) \/ UNCHANGED vars PROVE TokenStep
    <2>1. UNCHANGED TokenCalls
      BY <1>6 DEF RunSpawned, vars, TokenCalls, Inside
    <2> QED BY <2>1 DEF TokenStep
  <1> QED BY <1>2, <1>4, <1>5, <1>6 DEF Next, RequestStep

(***************************************************************************)
(* The token slots implement the limit: a handler starts for an API token  *)
(* only below the token's limit.                                           *)
(***************************************************************************)
THEOREM TokensLimited == Spec => TokensBounded
  <1>1. Init => TokenLimit!Init
    BY DEF Init, TokenLimit!Init, TokenCalls, Inside
  <1> QED
    BY <1>1, InvInit, InvStep, TokenRefines, PTL
       DEF Spec, TokensBounded, TokenLimit!Spec, TokenStep

(***************************************************************************)
(* Both kinds of slots of acquire_slot and release_slot implement the      *)
(* abstract limit, whatever the numbers of requests and the limits are.    *)
(***************************************************************************)
THEOREM BothLimited == Spec => LimitsImplemented
  BY AccountsLimited, TokensLimited DEF LimitsImplemented
===============================================================================
