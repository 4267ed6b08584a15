------------------------------- MODULE RedisProofs -------------------------------
(***************************************************************************)
(* Proofs about the operations of the Redis cache, for any callers, ids    *)
(* and limits and any number of expiries and faults.  RedisSlots: the      *)
(* limit holds up to what an expiry under running calls lets in, and a     *)
(* count does not live for ever unless its EXPIRE was lost.                *)
(* RedisAdmission: the commands of an admission exceed a limit by no more  *)
(* than the other calls that can run at the same time.                     *)
(***************************************************************************)
EXTENDS RedisSlots, RedisAdmission, FiniteSetTheorems, TLAPS

-------------------------------------------------------------------------------
(* RedisSlots.                                                             *)

\* The callers that have, or will be told that they have, a slot counted in this
\* life of the key.
Entitled ==
  {c \in Fresh : at[c] = "held" \/ (at[c] = "expire" /\ SlotLimit # 0)}

\* What INCR compared when it let them in still bounds them.
EntitledBounded == Cardinality(Entitled) <= SlotLimit + extra

AbsentIsZero == ~ key.there => key.n = 0

SlotsInv ==
  SlotsTypeOK /\ CountExplained /\ EntitledBounded /\ AbsentIsZero /\ KeyMortal
-------------------------------------------------------------------------------
\* The sets of callers are finite, and the entitled are among the fresh.
LEMMA FiniteCallers ==
  /\ IsFiniteSet(Fresh) /\ Cardinality(Fresh) \in Nat
  /\ IsFiniteSet(Entitled) /\ Cardinality(Entitled) \in Nat
  /\ Cardinality(Entitled) <= Cardinality(Fresh)
  <1>1. IsFiniteSet(Callers)
    BY RedisSlotsAssumption
  <1>2. Fresh \subseteq Callers /\ Entitled \subseteq Fresh
    BY DEF Fresh, Entitled
  <1>3. IsFiniteSet(Fresh)
    BY <1>1, <1>2, FS_Subset
  <1> QED BY <1>2, <1>3, FS_Subset, FS_CardinalityType

\* A set of callers that gains or loses one caller.
LEMMA OneCaller ==
  ASSUME NEW S, IsFiniteSet(S), NEW c
  PROVE  /\ Cardinality(S) \in Nat
         /\ c \notin S => Cardinality(S \cup {c}) = Cardinality(S) + 1
         /\ c \in S => Cardinality(S \ {c}) = Cardinality(S) - 1
         /\ Cardinality(S \ {c}) <= Cardinality(S)
         /\ Cardinality(S \ {c}) \in Nat
  <1>1. Cardinality(S) \in Nat
    BY FS_CardinalityType
  <1>2. /\ c \notin S => Cardinality(S \cup {c}) = Cardinality(S) + 1
        /\ c \in S => Cardinality(S \ {c}) = Cardinality(S) - 1
    BY FS_AddElement, FS_RemoveElement
  <1>3. c \notin S => S \ {c} = S
    OBVIOUS
  <1>4. Cardinality(S \ {c}) \in Nat
    BY FS_Subset, FS_CardinalityType, S \ {c} \subseteq S
  <1> QED BY <1>1, <1>2, <1>3, <1>4

KeyType == [there : BOOLEAN, n : Int, ttl : BOOLEAN]

\* INCR and DECR of the key.
LEMMA CountedKey ==
  ASSUME key \in KeyType, NEW by \in Int, Counted(by)
  PROVE  /\ key' \in KeyType
         /\ key'.n = key.n + by
         /\ key'.there /\ key'.ttl = key.ttl
  <1>1. /\ key.there \in BOOLEAN /\ key.n \in Int /\ key.ttl \in BOOLEAN
        /\ key = [there |-> key.there, n |-> key.n, ttl |-> key.ttl]
    BY DEF KeyType
  <1>2. key' = [there |-> TRUE, n |-> key.n + by, ttl |-> key.ttl]
    BY <1>1 DEF Counted
  <1>3. key.n + by \in Int
    BY <1>1
  <1> QED BY <1>1, <1>2, <1>3 DEF KeyType

\* An expiry leaves no key.
LEMMA NoKeyType == NoKey \in KeyType /\ NoKey.n = 0 /\ ~ NoKey.there
  <1>1. FALSE \in BOOLEAN /\ 0 \in Int
    OBVIOUS
  <1> QED BY <1>1 DEF NoKey, KeyType

\* Every step keeps the type invariant.
LEMMA SlotsTypeStep == SlotsTypeOK /\ [SlotsNext]_slotVars => SlotsTypeOK'
  <1> SUFFICES ASSUME SlotsTypeOK, [SlotsNext]_slotVars
               PROVE  SlotsTypeOK'
    OBVIOUS
  <1>0. /\ key \in KeyType
        /\ SlotsTypeOK' <=> /\ key' \in KeyType
                            /\ at' \in [Callers -> SlotPhases]
                            /\ owed' \in [fresh : Nat, stale : Nat]
                            /\ stale' \in SUBSET Callers
                            /\ \A c \in stale' : at'[c] # "idle"
                            /\ lost' \in Nat
                            /\ extra' \in Nat
                            /\ torn' \in BOOLEAN
                            /\ expiries' \in 0 .. MaxExpiries
                            /\ faults' \in 0 .. MaxFaults
    BY DEF SlotsTypeOK, KeyType
  <1> USE <1>0 DEF SlotsTypeOK, SlotPhases, Moves, Rests, Fault
  <1>1. ASSUME NEW c \in Callers, Incr(c) PROVE SlotsTypeOK'
    BY <1>1, CountedKey DEF Incr, Granted
  <1>2. ASSUME NEW c \in Callers, IncrLost(c) PROVE SlotsTypeOK'
    BY <1>2, CountedKey, RedisSlotsAssumption DEF IncrLost
  <1>3. ASSUME NEW c \in Callers, Expire(c) PROVE SlotsTypeOK'
    BY <1>3 DEF Expire, Granted, KeyType
  <1>4. ASSUME NEW c \in Callers, ExpireFails(c) PROVE SlotsTypeOK'
    BY <1>4, RedisSlotsAssumption DEF ExpireFails, Granted
  <1>5. ASSUME NEW c \in Callers, Decr(c) PROVE SlotsTypeOK'
    BY <1>5, CountedKey DEF Decr, Uncount
  <1>6. ASSUME NEW c \in Callers, Abandon(c) PROVE SlotsTypeOK'
    BY <1>6, RedisSlotsAssumption DEF Abandon
  <1>7. ASSUME NEW c \in Callers, Leave(c) PROVE SlotsTypeOK'
    BY <1>7 DEF Leave
  <1>8. ASSUME ReleaseFresh \/ ReleaseStale PROVE SlotsTypeOK'
    BY <1>8, CountedKey DEF ReleaseFresh, ReleaseStale, Uncount
  <1>9. ASSUME ReleaseFails PROVE SlotsTypeOK'
    BY <1>9, RedisSlotsAssumption DEF ReleaseFails
  <1>10. ASSUME KeyExpires PROVE SlotsTypeOK'
    <2>1. key' \in KeyType
      BY <1>10, NoKeyType DEF KeyExpires
    <2>2. owed.stale + owed.fresh \in Nat
      OBVIOUS
    <2>3. /\ owed' \in [fresh : Nat, stale : Nat]
          /\ at' \in [Callers -> SlotPhases]
      BY <1>10, <2>2 DEF KeyExpires
    <2>4. stale' \in SUBSET Callers /\ \A c \in stale' : at'[c] # "idle"
      BY <1>10 DEF KeyExpires
    <2>5. /\ lost' = 0 /\ extra' = 0 /\ torn' = FALSE /\ faults' = faults
          /\ expiries < MaxExpiries /\ expiries' = expiries + 1
      BY <1>10 DEF KeyExpires
    <2>6. /\ lost' \in Nat /\ extra' \in Nat /\ torn' \in BOOLEAN
          /\ expiries' \in 0 .. MaxExpiries /\ faults' \in 0 .. MaxFaults
      <3>1. /\ expiries \in 0 .. MaxExpiries /\ faults \in 0 .. MaxFaults
            /\ MaxExpiries \in Nat
        BY RedisSlotsAssumption
      <3>2. expiries + 1 \in 0 .. MaxExpiries
        BY <2>5, <3>1
      <3>3. 0 \in Nat /\ FALSE \in BOOLEAN
        OBVIOUS
      <3> QED BY <2>5, <3>1, <3>2, <3>3
    <2> QED BY <2>1, <2>3, <2>4, <2>6
  <1>11. ASSUME Restart PROVE SlotsTypeOK'
    <2>1. Cardinality(Fresh) \in Nat
      BY FiniteCallers
    <2> QED BY <1>11, <2>1, RedisSlotsAssumption DEF Restart, Fresh
  <1>12. ASSUME UNCHANGED slotVars PROVE SlotsTypeOK'
    BY <1>12 DEF slotVars
  <1> QED BY <1>1, <1>2, <1>3, <1>4, <1>5, <1>6, <1>7, <1>8, <1>9, <1>10, <1>11, <1>12
          DEF SlotsNext, SlotStep
-------------------------------------------------------------------------------
\* How a step of caller c moves it in and out of the two sets.
LEMMA CallerMoves ==
  ASSUME SlotsTypeOK, NEW c \in Callers, NEW place \in SlotPhases,
         Moves(c, place), stale' \in {stale, stale \ {c}},
         place = "idle" => stale' = stale \ {c}
  PROVE  /\ Fresh' = IF place # "idle" /\ c \notin stale' THEN Fresh \cup {c}
                                                         ELSE Fresh \ {c}
         /\ Entitled' =
              IF /\ c \notin stale'
                 /\ place = "held" \/ (place = "expire" /\ SlotLimit # 0)
                THEN Entitled \cup {c} ELSE Entitled \ {c}
  <1>1. /\ \A d \in Callers \ {c} : at'[d] = at[d] /\ (d \in stale' <=> d \in stale)
        /\ at'[c] = place
    BY DEF SlotsTypeOK, Moves
  <1>2. Fresh' = {d \in Callers : at'[d] # "idle" /\ d \notin stale'}
    BY DEF Fresh
  <1>3. Fresh = {d \in Callers : at[d] # "idle" /\ d \notin stale}
    BY DEF Fresh
  <1>4. Fresh' = IF place # "idle" /\ c \notin stale' THEN Fresh \cup {c}
                                                     ELSE Fresh \ {c}
    BY <1>1, <1>2, <1>3
  <1>5. Entitled' = {d \in Callers : /\ at'[d] # "idle" /\ d \notin stale'
                                     /\ \/ at'[d] = "held"
                                        \/ at'[d] = "expire" /\ SlotLimit # 0}
    BY <1>2 DEF Entitled
  <1>6. Entitled = {d \in Callers : /\ at[d] # "idle" /\ d \notin stale
                                    /\ \/ at[d] = "held"
                                       \/ at[d] = "expire" /\ SlotLimit # 0}
    BY <1>3 DEF Entitled
  <1> QED BY <1>1, <1>4, <1>5, <1>6

\* The count stays explained, and the entitled bounded, by every step.
LEMMA CountStep ==
  SlotsInv /\ [SlotsNext]_slotVars => CountExplained' /\ EntitledBounded'
  <1> SUFFICES ASSUME SlotsInv, [SlotsNext]_slotVars
               PROVE  CountExplained' /\ EntitledBounded'
    OBVIOUS
  <1> USE RedisSlotsAssumption
  <1>0. /\ SlotsTypeOK
        /\ CountExplained /\ EntitledBounded
        /\ IsFiniteSet(Fresh) /\ Cardinality(Fresh) \in Nat
        /\ IsFiniteSet(Entitled) /\ Cardinality(Entitled) \in Nat
        /\ Cardinality(Entitled) <= Cardinality(Fresh)
        /\ key \in [there : BOOLEAN, n : Int, ttl : BOOLEAN]
        /\ owed \in [fresh : Nat, stale : Nat]
        /\ lost \in Nat /\ extra \in Nat
    BY FiniteCallers DEF SlotsInv, SlotsTypeOK
  <1>1. ASSUME NEW c \in Callers, Incr(c) PROVE CountExplained' /\ EntitledBounded'
    <2> DEFINE place == IF key.n + 1 = 1 THEN "expire" ELSE Granted(key.n + 1)
    <2>1. place \in SlotPhases \ {"idle"} /\ Moves(c, place) /\ stale' = stale
      BY <1>1 DEF Incr, SlotPhases, Granted
    <2>2. c \notin stale /\ c \notin Fresh /\ c \notin Entitled
      BY <1>0, <1>1 DEF Incr, SlotsTypeOK, Fresh, Entitled
    <2>3. /\ Fresh' = Fresh \cup {c}
          /\ Entitled' = IF place = "held" \/ (place = "expire" /\ SlotLimit # 0)
                           THEN Entitled \cup {c} ELSE Entitled \ {c}
      <3> HIDE DEF place
      <3> QED BY <1>0, <2>1, <2>2, CallerMoves
    <2>4. /\ Cardinality(Fresh') = Cardinality(Fresh) + 1
          /\ Cardinality(Entitled \cup {c}) = Cardinality(Entitled) + 1
          /\ Entitled \ {c} = Entitled
      BY <1>0, <2>2, <2>3, OneCaller
    <2>5. /\ key'.n = key.n + 1
          /\ owed' = owed /\ lost' = lost /\ extra' = extra
      BY <1>0, <1>1 DEF Incr, Counted
    <2>6. CountExplained'
      BY <1>0, <2>4, <2>5 DEF CountExplained
    <2>7. place = "held" \/ (place = "expire" /\ SlotLimit # 0) => key.n + 1 <= SlotLimit
      BY <1>0 DEF Granted
    <2>8. key.n = Cardinality(Fresh) + owed.fresh + lost - extra
      BY <1>0 DEF CountExplained
    <2>9. Cardinality(Entitled) <= SlotLimit + extra
      BY <1>0 DEF EntitledBounded
    <2>10. Cardinality(Entitled') <= SlotLimit + extra'
      <3>1. CASE place = "held" \/ (place = "expire" /\ SlotLimit # 0)
        <4>1. Cardinality(Entitled') = Cardinality(Entitled) + 1
          BY <3>1, <2>3, <2>4
        <4> QED BY <4>1, <3>1, <2>5, <2>7, <2>8, <1>0
      <3>2. CASE ~ (place = "held" \/ (place = "expire" /\ SlotLimit # 0))
        BY <3>2, <2>3, <2>4, <2>5, <2>9
      <3> QED BY <3>1, <3>2
    <2> QED BY <2>6, <2>10 DEF EntitledBounded
  <1>2. ASSUME NEW c \in Callers, IncrLost(c) PROVE CountExplained' /\ EntitledBounded'
    <2>1. /\ key'.n = key.n + 1 /\ lost' = lost + 1
          /\ owed' = owed /\ extra' = extra /\ at' = at /\ stale' = stale
      BY <1>0, <1>2 DEF IncrLost, Counted
    <2>2. Fresh' = Fresh /\ Entitled' = Entitled
      BY <2>1 DEF Fresh, Entitled
    <2> QED BY <1>0, <2>1, <2>2 DEF CountExplained, EntitledBounded
  <1>3. ASSUME NEW c \in Callers, Expire(c) \/ ExpireFails(c)
        PROVE  CountExplained' /\ EntitledBounded'
    <2>1. /\ key'.n = key.n
          /\ owed' = owed /\ lost' = lost /\ extra' = extra /\ stale' = stale
          /\ Moves(c, Granted(1)) /\ at[c] = "expire"
      BY <1>0, <1>3 DEF Expire, ExpireFails
    <2>2. Granted(1) = IF SlotLimit = 0 THEN "decr" ELSE "held"
      BY DEF Granted
    <2>3. Granted(1) \in SlotPhases
      BY <2>2 DEF SlotPhases
    <2>4. /\ Fresh' = IF Granted(1) # "idle" /\ c \notin stale' THEN Fresh \cup {c}
                                                                ELSE Fresh \ {c}
          /\ Entitled' = IF /\ c \notin stale'
                            /\ \/ Granted(1) = "held"
                               \/ Granted(1) = "expire" /\ SlotLimit # 0
                           THEN Entitled \cup {c} ELSE Entitled \ {c}
      BY <1>0, <2>1, <2>2, <2>3, CallerMoves
    <2>5. /\ c \in Fresh <=> c \notin stale
          /\ c \in Entitled <=> (c \notin stale /\ SlotLimit # 0)
      BY <2>1 DEF Fresh, Entitled
    <2>6. Fresh' = Fresh /\ Entitled' = Entitled
      BY <2>1, <2>2, <2>4, <2>5
    <2> QED BY <1>0, <2>1, <2>6 DEF CountExplained, EntitledBounded
  <1>4. ASSUME NEW c \in Callers, Rests(c), at[c] # "idle"
        PROVE  /\ Cardinality(Fresh') = IF c \in stale THEN Cardinality(Fresh)
                                                      ELSE Cardinality(Fresh) - 1
               /\ Cardinality(Entitled') <= Cardinality(Entitled)
               /\ Cardinality(Entitled') \in Nat
    <2>1. Fresh' = Fresh \ {c} /\ Entitled' = Entitled \ {c}
      BY <1>0, <1>4, CallerMoves DEF Rests, SlotPhases
    <2>2. c \in Fresh <=> c \notin stale
      BY <1>4 DEF Fresh
    <2>3. c \notin Fresh => Fresh \ {c} = Fresh
      OBVIOUS
    <2> QED BY <1>0, <2>1, <2>2, <2>3, OneCaller
  <1>5. ASSUME NEW c \in Callers, Decr(c) PROVE CountExplained' /\ EntitledBounded'
    <2>1. /\ key'.n = key.n - 1 /\ owed' = owed /\ lost' = lost
          /\ extra' = IF c \notin stale THEN extra ELSE extra + 1
      BY <1>0, <1>5, CountedKey DEF Decr, Uncount, KeyType
    <2>2. Rests(c) /\ at[c] # "idle"
      BY <1>5 DEF Decr
    <2> QED BY <1>0, <1>4, <2>1, <2>2 DEF CountExplained, EntitledBounded
  <1>6. ASSUME NEW c \in Callers, Abandon(c) PROVE CountExplained' /\ EntitledBounded'
    <2>1. /\ key' = key /\ owed' = owed /\ extra' = extra
          /\ lost' = IF c \in stale THEN lost ELSE lost + 1
      BY <1>6 DEF Abandon
    <2>2. Rests(c) /\ at[c] # "idle"
      BY <1>6 DEF Abandon
    <2> QED BY <1>0, <1>4, <2>1, <2>2 DEF CountExplained, EntitledBounded
  <1>7. ASSUME NEW c \in Callers, Leave(c) PROVE CountExplained' /\ EntitledBounded'
    <2>1. /\ key' = key /\ lost' = lost /\ extra' = extra
          /\ owed'.fresh = IF c \in stale THEN owed.fresh ELSE owed.fresh + 1
      BY <1>0, <1>7 DEF Leave
    <2>2. Rests(c) /\ at[c] # "idle"
      BY <1>7 DEF Leave
    <2> QED BY <1>0, <1>4, <2>1, <2>2 DEF CountExplained, EntitledBounded
  <1>8. ASSUME ReleaseFresh \/ ReleaseStale \/ ReleaseFails
        PROVE  CountExplained' /\ EntitledBounded'
    <2>1. Fresh' = Fresh /\ Entitled' = Entitled
      BY <1>8 DEF ReleaseFresh, ReleaseStale, ReleaseFails, Fresh, Entitled
    <2>2. /\ key'.n + extra' - owed'.fresh - lost' = key.n + extra - owed.fresh - lost
          /\ key'.n \in Int /\ owed'.fresh \in Nat /\ lost' \in Nat
          /\ extra' \in Nat /\ extra' >= extra
      BY <1>0, <1>8, CountedKey
         DEF ReleaseFresh, ReleaseStale, ReleaseFails, Uncount, KeyType
    <2> QED BY <1>0, <2>1, <2>2 DEF CountExplained, EntitledBounded
  <1>9. ASSUME KeyExpires \/ Restart PROVE Fresh' = {} /\ Entitled' = {}
    <2>1. Fresh' = {}
      BY <1>9 DEF KeyExpires, Restart, Fresh
    <2> QED BY <2>1 DEF Entitled
  <1>10. ASSUME KeyExpires PROVE CountExplained' /\ EntitledBounded'
    <2>1. /\ key'.n = 0 /\ owed'.fresh = 0 /\ lost' = 0 /\ extra' = 0
      BY <1>10 DEF KeyExpires, NoKey
    <2> QED BY <1>9, <1>10, <2>1, FS_EmptySet DEF CountExplained, EntitledBounded
  <1>11. ASSUME Restart PROVE CountExplained' /\ EntitledBounded'
    <2>1. /\ key' = key /\ owed'.fresh = 0 /\ extra' = extra
          /\ lost' = lost + owed.fresh + Cardinality(Fresh)
      BY <1>11 DEF Restart, Fresh
    <2>2. Cardinality(Fresh') = 0 /\ Cardinality(Entitled') = 0
      BY <1>9, <1>11, FS_EmptySet
    <2> QED BY <1>0, <2>1, <2>2 DEF CountExplained, EntitledBounded
  <1>12. ASSUME UNCHANGED slotVars PROVE CountExplained' /\ EntitledBounded'
    BY <1>0, <1>12 DEF slotVars, CountExplained, EntitledBounded, Entitled, Fresh
  <1> QED BY <1>1, <1>2, <1>3, <1>5, <1>6, <1>7, <1>8, <1>10, <1>11, <1>12
          DEF SlotsNext, SlotStep

\* A key that is not there counts nothing, and a count above zero is mortal.
LEMMA KeyStep ==
  SlotsInv /\ [SlotsNext]_slotVars => AbsentIsZero' /\ KeyMortal'
  <1> SUFFICES ASSUME SlotsInv, [SlotsNext]_slotVars
               PROVE  AbsentIsZero' /\ KeyMortal'
    OBVIOUS
  <1> USE DEF SlotsInv, SlotsTypeOK, AbsentIsZero, KeyMortal, Moves, Rests
  <1>0. key \in KeyType
    BY DEF KeyType
  <1>1. ASSUME NEW c \in Callers, Incr(c) PROVE AbsentIsZero' /\ KeyMortal'
    BY <1>0, <1>1, CountedKey DEF Incr, KeyType
  <1>2. ASSUME NEW c \in Callers, IncrLost(c) PROVE AbsentIsZero' /\ KeyMortal'
    BY <1>0, <1>2, CountedKey DEF IncrLost, KeyType
  <1>3. ASSUME NEW c \in Callers, Expire(c) PROVE AbsentIsZero' /\ KeyMortal'
    BY <1>3 DEF Expire
  <1>4. ASSUME NEW c \in Callers, ExpireFails(c) PROVE AbsentIsZero' /\ KeyMortal'
    BY <1>4 DEF ExpireFails
  <1>5. ASSUME NEW c \in Callers, Decr(c) PROVE AbsentIsZero' /\ KeyMortal'
    BY <1>0, <1>5, CountedKey DEF Decr, Uncount, KeyType
  <1>6. ASSUME NEW c \in Callers, Abandon(c) PROVE AbsentIsZero' /\ KeyMortal'
    BY <1>6 DEF Abandon
  <1>7. ASSUME NEW c \in Callers, Leave(c) PROVE AbsentIsZero' /\ KeyMortal'
    BY <1>7 DEF Leave
  <1>8. ASSUME ReleaseFresh \/ ReleaseStale \/ ReleaseFails
        PROVE  AbsentIsZero' /\ KeyMortal'
    BY <1>0, <1>8, CountedKey
       DEF ReleaseFresh, ReleaseStale, ReleaseFails, Uncount, KeyType
  <1>9. ASSUME KeyExpires PROVE AbsentIsZero' /\ KeyMortal'
    BY <1>9, NoKeyType DEF KeyExpires
  <1>10. ASSUME Restart PROVE AbsentIsZero' /\ KeyMortal'
    BY <1>10 DEF Restart
  <1>11. ASSUME UNCHANGED slotVars PROVE AbsentIsZero' /\ KeyMortal'
    BY <1>11 DEF slotVars
  <1> QED BY <1>1, <1>2, <1>3, <1>4, <1>5, <1>6, <1>7, <1>8, <1>9, <1>10, <1>11
          DEF SlotsNext, SlotStep

LEMMA SlotsInitially == SlotsInit => SlotsInv
  <1> SUFFICES ASSUME SlotsInit PROVE SlotsInv
    OBVIOUS
  <1>1. Fresh = {} /\ Entitled = {}
    BY DEF SlotsInit, Fresh, Entitled
  <1>2. SlotsTypeOK
    <2>1. key \in [there : BOOLEAN, n : Int, ttl : BOOLEAN]
      BY NoKeyType DEF SlotsInit, KeyType
    <2>2. owed \in [fresh : Nat, stale : Nat] /\ at \in [Callers -> SlotPhases]
      BY DEF SlotsInit, SlotPhases
    <2>3. stale = {} /\ lost = 0 /\ extra = 0 /\ torn = FALSE
      BY DEF SlotsInit
    <2>4. expiries \in 0 .. MaxExpiries /\ faults \in 0 .. MaxFaults
      BY RedisSlotsAssumption DEF SlotsInit
    <2> QED BY <2>1, <2>2, <2>3, <2>4 DEF SlotsTypeOK
  <1>3. CountExplained /\ EntitledBounded
    BY <1>1, FS_EmptySet, RedisSlotsAssumption
       DEF SlotsInit, NoKey, CountExplained, EntitledBounded
  <1>4. AbsentIsZero /\ KeyMortal
    BY DEF SlotsInit, NoKey, AbsentIsZero, KeyMortal
  <1> QED BY <1>2, <1>3, <1>4 DEF SlotsInv

\* The inductive invariant.
THEOREM SlotsInvariant == SlotsSpec => []SlotsInv
  <1>1. SlotsInit => SlotsInv
    BY SlotsInitially
  <1>2. SlotsInv /\ [SlotsNext]_slotVars => SlotsInv'
    BY SlotsTypeStep, CountStep, KeyStep DEF SlotsInv
  <1> QED BY <1>1, <1>2, PTL DEF SlotsSpec

\* acquire_slot keeps the limit, up to the calls an expiry forgot and the decrements
\* that came after it.
THEOREM SlotsLimited == SlotsSpec => []SlotsBounded
  <1>1. SlotsInv => SlotsBounded
    <2> SUFFICES ASSUME SlotsInv PROVE SlotsBounded
      OBVIOUS
    <2> DEFINE H == Holding \ stale
               G == Holding \cap stale
    <2>1. IsFiniteSet(Holding) /\ IsFiniteSet(H) /\ IsFiniteSet(G)
      <3>1. Holding \subseteq Callers /\ H \subseteq Callers /\ G \subseteq Callers
        BY DEF Holding
      <3> QED BY <3>1, RedisSlotsAssumption, FS_Subset
    <2>2. H \subseteq Entitled
      BY DEF Holding, Entitled, Fresh
    <2>3. Cardinality(H) <= Cardinality(Entitled)
      BY <2>2, FiniteCallers, FS_Subset
    <2>4. Cardinality(Holding) = Cardinality(H) + Cardinality(G)
      <3>1. Holding = H \cup G /\ H \cap G = {}
        OBVIOUS
      <3>2. Cardinality(H \cup G) = Cardinality(H) + Cardinality(G) - Cardinality(H \cap G)
        BY <2>1, FS_Union
      <3>3. Cardinality(H \cap G) = 0
        BY <3>1, FS_EmptySet
      <3>4. Cardinality(H) \in Nat /\ Cardinality(G) \in Nat
        BY <2>1, FS_CardinalityType
      <3> HIDE DEF H, G
      <3> QED BY <3>1, <3>2, <3>3, <3>4
    <2>5. /\ Cardinality(H) \in Nat /\ Cardinality(G) \in Nat
          /\ Cardinality(Entitled) \in Nat
      BY <2>1, FiniteCallers, FS_CardinalityType
    <2>6. Cardinality(Entitled) <= SlotLimit + extra /\ extra \in Nat
      BY DEF SlotsInv, EntitledBounded, SlotsTypeOK
    <2>7. Cardinality(Holding) <= SlotLimit + Cardinality(G) + extra
      <3> HIDE DEF H, G
      <3> QED BY <2>3, <2>4, <2>5, <2>6, RedisSlotsAssumption
    <2> QED BY <2>7 DEF SlotsBounded
  <1> QED BY <1>1, SlotsInvariant, PTL

\* Nothing happens that takes the key or all its callers away at once.
Undisturbed == ~KeyExpires /\ ~Restart

\* Then every increment is one of this life of the key.
OneLife == stale = {} /\ extra = 0 /\ owed.stale = 0

LEMMA OneLifeStep ==
  SlotsTypeOK /\ OneLife /\ [SlotsNext]_slotVars /\ [Undisturbed]_slotVars => OneLife'
  <1> SUFFICES ASSUME SlotsTypeOK, OneLife, [SlotsNext]_slotVars, [Undisturbed]_slotVars
               PROVE  OneLife'
    OBVIOUS
  <1>0. /\ stale = {} /\ extra = 0 /\ owed.stale = 0
        /\ owed \in [fresh : Nat, stale : Nat]
    BY DEF OneLife, SlotsTypeOK
  <1>1. ASSUME NEW c \in Callers, Decr(c) PROVE OneLife'
    BY <1>0, <1>1 DEF Decr, Uncount, Rests, OneLife
  <1>2. ASSUME NEW c \in Callers, Leave(c) PROVE OneLife'
    BY <1>0, <1>2 DEF Leave, Rests, OneLife
  <1>3. ASSUME NEW c \in Callers, Abandon(c) PROVE OneLife'
    BY <1>0, <1>3 DEF Abandon, Rests, OneLife
  <1>4. ASSUME NEW c \in Callers, Incr(c) \/ IncrLost(c) \/ Expire(c) \/ ExpireFails(c)
        PROVE  OneLife'
    BY <1>0, <1>4 DEF Incr, IncrLost, Expire, ExpireFails, OneLife
  <1>5. ASSUME ReleaseFresh \/ ReleaseStale \/ ReleaseFails PROVE OneLife'
    BY <1>0, <1>5 DEF ReleaseFresh, ReleaseStale, ReleaseFails, Uncount, OneLife
  <1>6. ASSUME UNCHANGED slotVars PROVE OneLife'
    BY <1>0, <1>6 DEF slotVars, OneLife
  <1> QED BY <1>1, <1>2, <1>3, <1>4, <1>5, <1>6 DEF SlotsNext, SlotStep, Undisturbed

LimitStep == [RedisLimit!Next]_SlotCalls

\* A caller that is told it has the slot starts a call, one that leaves ends it, and
\* nothing else moves the calls.
LEMMA LimitRefines ==
  SlotsInv /\ OneLife /\ [SlotsNext]_slotVars /\ [Undisturbed]_slotVars => LimitStep
  <1> SUFFICES ASSUME SlotsInv, OneLife, [SlotsNext]_slotVars, [Undisturbed]_slotVars
               PROVE  LimitStep
    OBVIOUS
  <1> USE RedisSlotsAssumption
  <1>0. /\ SlotsTypeOK /\ CountExplained /\ EntitledBounded
        /\ stale = {} /\ extra = 0
        /\ key \in KeyType /\ owed \in [fresh : Nat, stale : Nat] /\ lost \in Nat
    BY DEF SlotsInv, OneLife, SlotsTypeOK, KeyType
  <1>1. ASSUME Holding' = Holding PROVE LimitStep
    BY <1>1 DEF LimitStep, SlotCalls
  <1>2. ASSUME NEW c \in Callers, c \notin Holding, Holding' = Holding \cup {c},
               Cardinality(Holding) < SlotLimit
        PROVE  LimitStep
    <2>1. SlotCalls = [k \in {"key"} |-> Holding]
          /\ SlotCalls' = [k \in {"key"} |-> Holding \cup {c}]
      BY <1>2 DEF SlotCalls
    <2>2. RedisLimit!Start(c, "key")
      BY <1>2, <2>1 DEF RedisLimit!Start, RedisLimit!Cardinality, Cardinality
    <2> QED BY <2>2 DEF LimitStep, RedisLimit!Next
  <1>3. ASSUME NEW c \in Callers, c \in Holding, Holding' = Holding \ {c}
        PROVE  LimitStep
    <2>1. SlotCalls = [k \in {"key"} |-> Holding]
          /\ SlotCalls' = [k \in {"key"} |-> Holding \ {c}]
      BY <1>3 DEF SlotCalls
    <2>2. RedisLimit!Finish(c, "key")
      BY <1>3, <2>1 DEF RedisLimit!Finish
    <2> QED BY <2>2 DEF LimitStep, RedisLimit!Next
  <1>4. ASSUME NEW c \in Callers, NEW place \in SlotPhases, Moves(c, place)
        PROVE  Holding' = IF place = "held" THEN Holding \cup {c} ELSE Holding \ {c}
    <2>1. \A d \in Callers : at'[d] = IF d = c THEN place ELSE at[d]
      BY <1>0, <1>4 DEF Moves, SlotsTypeOK
    <2> QED BY <2>1 DEF Holding
  <1>5. ASSUME NEW c \in Callers, at[c] # "held", NEW place \in SlotPhases, Moves(c, place),
               place = "held" => Cardinality(Holding) < SlotLimit
        PROVE  LimitStep
    <2>1. c \notin Holding
      BY <1>5 DEF Holding
    <2>2. CASE place = "held"
      BY <1>2, <1>4, <1>5, <2>1, <2>2
    <2>3. CASE place # "held"
      <3>1. Holding' = Holding
        BY <1>4, <1>5, <2>1, <2>3
      <3> QED BY <1>1, <3>1
    <2> QED BY <2>2, <2>3
  <1>6. /\ Fresh = {c \in Callers : at[c] # "idle"}
        /\ Cardinality(Holding) \in Nat /\ Cardinality(Fresh) \in Nat
        /\ Cardinality(Holding) <= Cardinality(Fresh)
    <2>1. Fresh = {c \in Callers : at[c] # "idle"}
      BY <1>0 DEF Fresh
    <2>2. Holding \subseteq Fresh
      BY <2>1 DEF Holding
    <2>3. IsFiniteSet(Fresh) /\ IsFiniteSet(Holding) /\ Cardinality(Fresh) \in Nat
      BY <2>2, FiniteCallers, FS_Subset
    <2> QED BY <2>1, <2>2, <2>3, FS_Subset, FS_CardinalityType
  <1>7. ASSUME NEW c \in Callers, Incr(c) PROVE LimitStep
    <2> DEFINE place == IF key.n + 1 = 1 THEN "expire" ELSE Granted(key.n + 1)
    <2>1. place \in SlotPhases /\ Moves(c, place) /\ at[c] # "held"
      BY <1>7 DEF Incr, SlotPhases, Granted
    <2>2. place = "held" => key.n + 1 <= SlotLimit
      <3>1. key.n \in Int
        BY <1>0 DEF KeyType
      <3> QED BY <3>1 DEF Granted
    <2>3. Cardinality(Holding) <= key.n
      <3>1. key.n = Cardinality(Fresh) + owed.fresh + lost - extra /\ owed.fresh \in Nat
        BY <1>0 DEF CountExplained
      <3> QED BY <1>0, <1>6, <3>1
    <2>4. key.n \in Int
      BY <1>0 DEF KeyType
    <2> HIDE DEF place
    <2>5. place = "held" => Cardinality(Holding) < SlotLimit
      BY <1>6, <2>2, <2>3, <2>4
    <2> QED BY <1>5, <2>1, <2>5
  <1>8. ASSUME NEW c \in Callers, Expire(c) \/ ExpireFails(c) PROVE LimitStep
    <2>1. at[c] = "expire" /\ Moves(c, Granted(1))
      BY <1>8 DEF Expire, ExpireFails
    <2>2. Granted(1) \in SlotPhases /\ (Granted(1) = "held" => SlotLimit # 0)
      BY DEF Granted, SlotPhases
    <2>3. ASSUME SlotLimit # 0 PROVE Cardinality(Holding) < SlotLimit
      <3>1. Holding \subseteq Entitled \ {c} /\ c \in Entitled
        BY <1>0, <2>1, <2>3 DEF Holding, Entitled, Fresh
      <3>2. /\ Cardinality(Entitled \ {c}) = Cardinality(Entitled) - 1
            /\ Cardinality(Entitled \ {c}) \in Nat
            /\ IsFiniteSet(Entitled \ {c})
        BY <3>1, FiniteCallers, OneCaller, FS_RemoveElement
      <3>3. Cardinality(Holding) <= Cardinality(Entitled \ {c})
        BY <3>1, <3>2, FS_Subset
      <3>4. Cardinality(Entitled) <= SlotLimit /\ Cardinality(Entitled) \in Nat
        BY <1>0, FiniteCallers DEF EntitledBounded
      <3> QED BY <1>6, <3>2, <3>3, <3>4
    <2> QED BY <1>5, <2>1, <2>2, <2>3
  <1>9. ASSUME NEW c \in Callers, Decr(c) \/ Abandon(c) PROVE LimitStep
    <2>1. at[c] # "held" /\ Moves(c, "idle")
      BY <1>9 DEF Decr, Abandon, Rests
    <2> QED BY <1>5, <2>1 DEF SlotPhases
  <1>10. ASSUME NEW c \in Callers, Leave(c) PROVE LimitStep
    <2>1. at[c] = "held" /\ Moves(c, "idle")
      BY <1>10 DEF Leave, Rests
    <2>2. c \in Holding /\ Holding' = Holding \ {c}
      BY <1>4, <2>1 DEF Holding, SlotPhases
    <2> QED BY <1>3, <2>2
  <1>11. ASSUME at' = at PROVE LimitStep
    <2>1. Holding' = Holding
      BY <1>11 DEF Holding
    <2> QED BY <1>1, <2>1
  <1>12. ASSUME \/ \E c \in Callers : IncrLost(c)
                \/ ReleaseFresh \/ ReleaseStale \/ ReleaseFails
                \/ UNCHANGED slotVars
         PROVE  at' = at
    BY <1>12 DEF IncrLost, ReleaseFresh, ReleaseStale, ReleaseFails, slotVars
  <1> QED BY <1>7, <1>8, <1>9, <1>10, <1>11, <1>12 DEF SlotsNext, SlotStep, Undisturbed

\* acquire_slot and release_slot over Redis implement the abstract limit on calls, as
\* those of MemoryStore do, while no key expires and the gateway is not restarted:
\* however the commands of the callers interleave, and with any of them lost.
THEOREM SlotsImplementLimit ==
  SlotsSpec /\ [][Undisturbed]_slotVars => SlotsImplemented
  <1>1. SlotsInit => RedisLimit!Init
    BY DEF SlotsInit, RedisLimit!Init, SlotCalls, Holding
  <1>2. SlotsInit => OneLife
    BY DEF SlotsInit, OneLife
  <1>3. SlotsInv => SlotsTypeOK
    BY DEF SlotsInv
  <1> QED
    BY <1>1, <1>2, <1>3, SlotsInvariant, OneLifeStep, LimitRefines, PTL
       DEF SlotsSpec, SlotsImplemented, RedisLimit!Spec, LimitStep

\* A count above zero has, or is about to get, its time to live, unless an EXPIRE was
\* lost.
THEOREM KeyIsMortal == SlotsSpec => []KeyMortal
  <1>1. SlotsInv => KeyMortal
    BY DEF SlotsInv
  <1> QED BY <1>1, SlotsInvariant, PTL
-------------------------------------------------------------------------------
(* RedisAdmission.                                                         *)

\* The sets that have let the id of call c in, and that it has still to be added to.
Passed(c) ==
  IF call[c].step = "add"
    THEN IF call[c].kind = "devices" THEN OfTheDay ELSE {call[c].kind}
    ELSE IF call[c].step \in {"look", "count"} /\ call[c].kind = "sessions"
           THEN {"devices"} ELSE {}

\* The calls that will add an id to k on the strength of its test.
Waiting(k) == {c \in Calls : k \in Passed(c) \ call[c].free}

Pending(k) == {IdOf(c, k) : c \in Waiting(k)}

\* The ids that are, or will be, members of k on the strength of a test.
Races(k) == Checked(k) \cup Pending(k)

RacesBounded ==
  \A k \in Kinds :
    IdLimit[k] > 0 => Cardinality(Races(k)) < IdLimit[k] + Cardinality(Calls)

TrimsLive == \A c \in Calls : call[c].step = "trim" => call[c].kind = "live"

AdmissionInv == AdmissionTypeOK /\ TrimsLive /\ RacesBounded
-------------------------------------------------------------------------------
\* Every step keeps the type invariant: first the calls, ...
LEMMA CallTypes ==
  ASSUME AdmissionTypeOK, NEW c \in Calls, NEW k \in Kinds
  PROVE  /\ call[c] \in CallType
         /\ Onward(c, k) \in CallType
         /\ [Onward(c, k) EXCEPT !.free = @ \cup {k}] \in CallType
         /\ Resting \in CallType
         /\ \A s \in {"idle", "trim", "look", "count", "add"} :
              [call[c] EXCEPT !.step = s] \in CallType
         /\ [call[c] EXCEPT !.kind = "sessions"] \in CallType
  <1>1. call[c] \in CallType
    BY DEF AdmissionTypeOK
  <1>2. Onward(c, k) \in CallType
    BY <1>1 DEF Onward, CallType, Kinds
  <1>3. ASSUME NEW r \in CallType
        PROVE  /\ [r EXCEPT !.free = @ \cup {k}] \in CallType
               /\ \A s \in {"idle", "trim", "look", "count", "add"} :
                    [r EXCEPT !.step = s] \in CallType
               /\ [r EXCEPT !.kind = "sessions"] \in CallType
    BY DEF CallType, Kinds
  <1>4. Resting \in CallType
    BY DEF Resting, CallType, Kinds
  <1> HIDE DEF CallType
  <1> QED BY <1>1, <1>2, <1>3, <1>4

\* ... then the sets and the counters.
LEMMA AdmissionTypeStep ==
  AdmissionTypeOK /\ [AdmissionNext]_admissionVars => AdmissionTypeOK'
  <1> SUFFICES ASSUME AdmissionTypeOK, [AdmissionNext]_admissionVars
               PROVE  AdmissionTypeOK'
    OBVIOUS
  <1> USE RedisAdmissionAssumption
  <1>1. ASSUME NEW c \in Calls, NEW r \in CallType, call' = [call EXCEPT ![c] = r]
        PROVE  call' \in [Calls -> CallType]
    BY <1>1 DEF AdmissionTypeOK
  <1>2. ASSUME NEW c \in Calls
        PROVE  /\ call[c].kind \in Kinds
               /\ IdOf(c, call[c].kind) \in Ids \cup {NoId}
    BY DEF AdmissionTypeOK, CallType, IdOf, Ids
  <1>3. ASSUME NEW c \in Calls, StartSession(c) \/ StartQuota(c)
        PROVE  AdmissionTypeOK'
    <2>1. \A s \in Sessions, d \in Devices \cup {NoId}, f \in BOOLEAN :
            /\ [Resting EXCEPT !.step = "trim", !.session = s, !.force = f] \in CallType
            /\ [Resting EXCEPT !.step = "look", !.kind = "devices", !.session = s,
                               !.device = d, !.force = f] \in CallType
      BY DEF Resting, CallType, Kinds
    <2>2. call' \in [Calls -> CallType]
      <3> HIDE DEF CallType
      <3>1. CASE StartSession(c)
        BY <3>1, <1>1, <2>1 DEF StartSession
      <3>2. CASE StartQuota(c)
        BY <3>2, <1>1, <2>1 DEF StartQuota
      <3> QED BY <1>3, <3>1, <3>2
    <2> QED BY <1>3, <2>2 DEF AdmissionTypeOK, StartSession, StartQuota
  <1>4. ASSUME NEW c \in Calls,
               \/ Waive(c) \/ Found(c) \/ CountFree(c) \/ CountFails(c)
        PROVE  AdmissionTypeOK'
    <2>1. call' \in [Calls -> CallType]
      <3>1. Pass(c, call[c].kind) \/ PassFree(c, call[c].kind)
        BY <1>4 DEF Waive, Found, CountFree, CountFails
      <3> QED BY <3>1, <1>1, <1>2, CallTypes DEF Pass, PassFree
    <2>2. /\ UNCHANGED <<members, aged, turns, unchecked>>
          /\ misses' \in 0 .. MaxMisses
      BY <1>4 DEF Waive, Found, CountFree, CountFails, Miss, AdmissionTypeOK
    <2> QED BY <2>1, <2>2 DEF AdmissionTypeOK
  <1>5. ASSUME NEW c \in Calls,
               \/ NotFound(c) \/ LookFails(c) \/ TrimFails(c)
               \/ CountFull(c) \/ Dropped(c)
        PROVE  AdmissionTypeOK'
    <2>1. call' \in [Calls -> CallType]
      <3>1. \/ call' = [call EXCEPT ![c] = [call[c] EXCEPT !.step = "count"]]
            \/ call' = [call EXCEPT ![c] = [call[c] EXCEPT !.step = "look"]]
            \/ call' = [call EXCEPT ![c] = Resting]
        BY <1>5 DEF NotFound, LookFails, TrimFails, CountFull, Dropped, Done
      <3>2. "live" \in Kinds
        BY DEF Kinds
      <3> QED BY <3>1, <3>2, <1>1, CallTypes
    <2>2. /\ UNCHANGED <<members, aged, turns, unchecked>>
          /\ misses' \in 0 .. MaxMisses
      BY <1>5 DEF NotFound, LookFails, TrimFails, CountFull, Dropped, Miss, AdmissionTypeOK
    <2> QED BY <2>1, <2>2 DEF AdmissionTypeOK
  <1>6. ASSUME NEW c \in Calls, Trim(c) PROVE AdmissionTypeOK'
    <2>1. call' \in [Calls -> CallType]
      <3>1. call' = [call EXCEPT ![c] = [call[c] EXCEPT !.step = "look"]]
        BY <1>6 DEF Trim
      <3>2. "live" \in Kinds
        BY DEF Kinds
      <3> QED BY <3>1, <3>2, <1>1, CallTypes
    <2> QED BY <1>6, <2>1 DEF Trim, AdmissionTypeOK, Kinds
  <1>7. ASSUME NEW c \in Calls, Add(c) \/ AddFails(c) PROVE AdmissionTypeOK'
    <2>1. call' \in [Calls -> CallType]
      <3>1. \/ call' = [call EXCEPT ![c] = [call[c] EXCEPT !.kind = "sessions"]]
            \/ call' = [call EXCEPT ![c] = Resting]
        BY <1>7 DEF Add, AddFails, AfterAdd, Done
      <3>2. "live" \in Kinds
        BY DEF Kinds
      <3> QED BY <3>1, <3>2, <1>1, CallTypes
    <2>2. CASE Add(c)
      <3> DEFINE k == call[c].kind
                 new == {IdOf(c, k)} \ {NoId}
      <3>1. new \subseteq Ids /\ k \in Kinds
        BY <1>2
      <3>2. /\ members' = [members EXCEPT ![k] = @ \cup new]
            /\ aged' = IF k = "live" THEN aged \ new ELSE aged
            /\ \/ unchecked' = [unchecked EXCEPT ![k] = @ \cup new]
               \/ unchecked' = unchecked
            /\ turns' = turns /\ misses' = misses
        BY <2>2 DEF Add
      <3> HIDE DEF new, k
      <3> QED BY <2>1, <3>1, <3>2 DEF AdmissionTypeOK, Kinds
    <2>3. CASE AddFails(c)
      BY <2>1, <2>3 DEF AddFails, Miss, AdmissionTypeOK
    <2> QED BY <1>7, <2>2, <2>3
  <1>8. ASSUME NEW s \in Sessions, SessionAges(s) PROVE AdmissionTypeOK'
    BY <1>8 DEF SessionAges, Turn, AdmissionTypeOK
  <1>9. ASSUME Midnight PROVE AdmissionTypeOK'
    <2>1. /\ members' \in [Kinds -> SUBSET Ids]
          /\ unchecked' \in [Kinds -> SUBSET Ids]
          /\ members'["live"] = members["live"]
      BY <1>9 DEF Midnight, AdmissionTypeOK, OfTheDay, Kinds
    <2>2. call' \in [Calls -> CallType]
      <3>1. "live" \in Kinds
        BY DEF Kinds
      <3>2. \A c \in Calls : call[c] \in CallType /\ Resting \in CallType
        BY <3>1, CallTypes
      <3> QED BY <1>9, <3>2 DEF Midnight
    <2>3. aged' \in SUBSET members'["live"]
      BY <1>9, <2>1 DEF Midnight, AdmissionTypeOK
    <2>4. /\ turns' = turns + 1 /\ turns < MaxTurns /\ misses' = misses
          /\ turns \in 0 .. MaxTurns /\ misses \in 0 .. MaxMisses
      BY <1>9 DEF Midnight, Turn, AdmissionTypeOK
    <2>5. turns' \in 0 .. MaxTurns /\ misses' \in 0 .. MaxMisses
      BY <2>4
    <2> QED BY <2>1, <2>2, <2>3, <2>5 DEF AdmissionTypeOK
  <1>10. ASSUME UNCHANGED admissionVars PROVE AdmissionTypeOK'
    BY <1>10 DEF admissionVars, AdmissionTypeOK
  <1> QED BY <1>3, <1>4, <1>5, <1>6, <1>7, <1>8, <1>9, <1>10
          DEF AdmissionNext, CallStep
-------------------------------------------------------------------------------
\* What call c has pending for k.
Share(c, k) == IF k \in Passed(c) \ call[c].free THEN {IdOf(c, k)} ELSE {}

\* A step of call c changes what is pending by its own share.
LEMMA PendingStep ==
  ASSUME NEW c \in Calls, NEW k, \A d \in Calls \ {c} : call'[d] = call[d]
  PROVE  /\ Pending(k)' \subseteq Pending(k) \cup Share(c, k)'
         /\ Share(c, k) \subseteq Pending(k)
  <1>1. \A d \in Calls \ {c} : /\ d \in Waiting(k)' <=> d \in Waiting(k)
                               /\ IdOf(d, k)' = IdOf(d, k)
    BY DEF Waiting, Passed, IdOf
  <1>2. c \in Waiting(k)' <=> k \in (Passed(c) \ call[c].free)'
    BY DEF Waiting
  <1>3. Pending(k)' = {IdOf(d, k)' : d \in Waiting(k)'}
    BY DEF Pending
  <1>4. Waiting(k)' \subseteq Calls
    BY DEF Waiting
  <1>5. ASSUME NEW x \in Pending(k)' PROVE x \in Pending(k) \cup Share(c, k)'
    <2>1. PICK d \in Waiting(k)' : x = IdOf(d, k)'
      BY <1>3
    <2>2. CASE d = c
      BY <2>1, <2>2, <1>2 DEF Share
    <2>3. CASE d # c
      BY <2>1, <2>3, <1>1, <1>4 DEF Pending
    <2> QED BY <2>2, <2>3
  <1>6. Share(c, k) \subseteq Pending(k)
    BY DEF Share, Pending, Waiting
  <1> QED BY <1>5, <1>6

\* Letting the id in by a test adds it to what is pending of that set alone;
\* letting it in otherwise adds nothing.
LEMMA PassShare ==
  ASSUME AdmissionTypeOK, NEW c \in Calls, call[c].step \in {"look", "count"}
  PROVE  /\ Pass(c, call[c].kind) =>
              \A k \in Kinds : Share(c, k)' \subseteq
                Share(c, k) \cup (IF k = call[c].kind THEN {IdOf(c, k)} ELSE {})
         /\ PassFree(c, call[c].kind) =>
              \A k \in Kinds : Share(c, k)' \subseteq Share(c, k)
  <1> DEFINE j == call[c].kind
  <1>1. call[c] \in CallType /\ j \in Kinds
    BY DEF AdmissionTypeOK, CallType
  <1>2. /\ Pass(c, j) => call'[c] = Onward(c, j)
        /\ PassFree(c, j) => call'[c] = [Onward(c, j) EXCEPT !.free = @ \cup {j}]
    BY DEF Pass, PassFree, AdmissionTypeOK
  <1>3. LET next == Onward(c, j) IN
        /\ next.step = IF j = "devices" THEN "look" ELSE "add"
        /\ next.kind = IF j \in OfTheDay THEN (IF j = "devices" THEN "sessions" ELSE "devices")
                       ELSE j
        /\ next.session = call[c].session /\ next.device = call[c].device
        /\ next.free = call[c].free
        /\ next \in CallType
    BY <1>1 DEF Onward, CallType, Kinds, OfTheDay
  <1>4. Pass(c, j) \/ PassFree(c, j) =>
          /\ call'[c].step = IF j = "devices" THEN "look" ELSE "add"
          /\ call'[c].kind =
               IF j \in OfTheDay THEN (IF j = "devices" THEN "sessions" ELSE "devices") ELSE j
          /\ call'[c].session = call[c].session /\ call'[c].device = call[c].device
    <2> HIDE DEF j
    <2> QED BY <1>2, <1>3 DEF CallType
  <1>5. /\ Pass(c, j) => call'[c].free = call[c].free
        /\ PassFree(c, j) => call'[c].free = call[c].free \cup {j}
    <2> HIDE DEF j
    <2> QED BY <1>2, <1>3 DEF CallType
  <1>6. Pass(c, j) \/ PassFree(c, j) =>
          /\ Passed(c)' \subseteq Passed(c) \cup {j}
          /\ \A k \in Kinds : IdOf(c, k)' = IdOf(c, k)
    <2> SUFFICES ASSUME Pass(c, j) \/ PassFree(c, j)
                 PROVE  /\ Passed(c)' \subseteq Passed(c) \cup {j}
                        /\ \A k \in Kinds : IdOf(c, k)' = IdOf(c, k)
      OBVIOUS
    <2>1. \A k \in Kinds : IdOf(c, k)' = IdOf(c, k)
      BY <1>4 DEF IdOf
    <2>2. CASE j = "devices"
      BY <1>4, <2>1, <2>2 DEF Passed
    <2>3. CASE j = "sessions"
      BY <1>4, <2>1, <2>3 DEF Passed, OfTheDay
    <2>4. CASE j = "live"
      BY <1>4, <2>1, <2>4 DEF Passed, OfTheDay
    <2> QED BY <1>1, <2>2, <2>3, <2>4 DEF Kinds
  <1> QED BY <1>5, <1>6 DEF Share

\* No step lets a set of tested ids grow, but for the one that found a place free.
LEMMA RaceStep ==
  ASSUME AdmissionTypeOK, TrimsLive, [AdmissionNext]_admissionVars, NEW k \in Kinds
  PROVE  Races(k)' \subseteq Races(k) \/ (Checked(k)' = Checked(k) /\ HasPlace(k))
  <1>0. ASSUME NEW c \in Calls, CallStep(c)
        PROVE  \A d \in Calls \ {c} : call'[d] = call[d]
    BY <1>0 DEF CallStep, StartSession, StartQuota, Trim, TrimFails, Waive, Found,
                NotFound, LookFails, CountFree, CountFull, CountFails, Add, AddFails,
                Dropped, Pass, PassFree, AfterAdd, Done, AdmissionTypeOK
  <1>1. ASSUME NEW c \in Calls, CallStep(c), Share(c, k)' \subseteq Races(k),
               Checked(k)' \subseteq Races(k)
        PROVE  Races(k)' \subseteq Races(k)
    BY <1>0, <1>1, PendingStep DEF Races
  <1>2. ASSUME NEW c \in Calls PROVE Share(c, k) \subseteq Races(k)
    BY DEF Share, Races, Pending, Waiting
  <1>3. ASSUME NEW c \in Calls PROVE call[c] \in CallType
    BY DEF AdmissionTypeOK
  <1>4. ASSUME UNCHANGED <<members, unchecked>> PROVE Checked(k)' = Checked(k)
    BY <1>4 DEF Checked
  <1>5. Checked(k) \subseteq Races(k)
    BY DEF Races
  <1>6. ASSUME NEW c \in Calls,
               \/ StartSession(c) \/ StartQuota(c) \/ CountFull(c) \/ Dropped(c)
        PROVE  Races(k)' \subseteq Races(k)
    <2>1. Passed(c)' = {}
      <3>1. CASE StartSession(c)
        BY <3>1 DEF StartSession, Resting, AdmissionTypeOK, Passed
      <3>2. CASE StartQuota(c)
        BY <3>2 DEF StartQuota, Resting, AdmissionTypeOK, Passed
      <3>3. CASE CountFull(c) \/ Dropped(c)
        BY <3>3 DEF CountFull, Dropped, Done, Resting, AdmissionTypeOK, Passed
      <3> QED BY <1>6, <3>1, <3>2, <3>3
    <2>2. Share(c, k)' = {}
      BY <2>1 DEF Share
    <2>3. UNCHANGED <<members, unchecked>> /\ CallStep(c)
      BY <1>6 DEF CallStep, StartSession, StartQuota, CountFull, Dropped
    <2> QED BY <1>1, <1>4, <1>5, <2>2, <2>3
  <1>7. ASSUME NEW c \in Calls,
               \/ Trim(c) \/ TrimFails(c) \/ NotFound(c) \/ LookFails(c)
        PROVE  Races(k)' \subseteq Races(k)
    <2>1. \/ call[c].step = "trim" /\ call'[c] = [call[c] EXCEPT !.step = "look"]
          \/ call[c].step = "look" /\ call'[c] = [call[c] EXCEPT !.step = "count"]
      BY <1>7 DEF Trim, TrimFails, NotFound, LookFails, AdmissionTypeOK
    <2>2. Share(c, k)' \subseteq Races(k)
      <3>1. CASE call[c].step = "look" /\ call'[c] = [call[c] EXCEPT !.step = "count"]
        <4>1. Share(c, k)' = Share(c, k)
          BY <3>1, <1>3 DEF Share, Passed, IdOf, CallType
        <4> QED BY <4>1, <1>2
      <3>2. CASE call[c].step = "trim" /\ call'[c] = [call[c] EXCEPT !.step = "look"]
        <4>1. Share(c, k)' = {}
          BY <3>2, <1>3 DEF TrimsLive, Share, Passed, CallType
        <4> QED BY <4>1
      <3> QED BY <2>1, <3>1, <3>2
    <2>3. Checked(k)' \subseteq Checked(k) /\ CallStep(c)
      BY <1>7 DEF Trim, TrimFails, NotFound, LookFails, Checked, CallStep, AdmissionTypeOK
    <2> QED BY <1>1, <1>5, <2>2, <2>3
  <1>8. ASSUME NEW c \in Calls, Waive(c) \/ CountFails(c)
        PROVE  Races(k)' \subseteq Races(k)
    <2>1. /\ PassFree(c, call[c].kind) /\ call[c].step \in {"look", "count"}
          /\ UNCHANGED <<members, unchecked>> /\ CallStep(c)
      BY <1>8 DEF Waive, CountFails, CallStep
    <2> QED BY <1>1, <1>2, <1>4, <1>5, <2>1, PassShare
  <1>9. ASSUME NEW c \in Calls, Found(c) PROVE Races(k)' \subseteq Races(k)
    <2>1. /\ call[c].step \in {"look", "count"} /\ call[c].kind \in Kinds
          /\ UNCHANGED <<members, unchecked>> /\ CallStep(c)
          /\ IdOf(c, call[c].kind) \in members[call[c].kind]
      BY <1>9, <1>3 DEF Found, CallStep, CallType
    <2>2. Share(c, k)' \subseteq Races(k)
      <3>1. CASE PassFree(c, call[c].kind)
        BY <3>1, <2>1, <1>2, PassShare
      <3>2. CASE Pass(c, call[c].kind) /\ IdOf(c, call[c].kind) \notin unchecked[call[c].kind]
        <4>1. k = call[c].kind => IdOf(c, k) \in Checked(k)
          BY <3>2, <2>1 DEF Checked
        <4> QED BY <3>2, <4>1, <2>1, <1>2, <1>5, PassShare
      <3> QED BY <1>9, <3>1, <3>2 DEF Found
    <2> QED BY <1>1, <1>4, <1>5, <2>1, <2>2
  <1>10. ASSUME NEW c \in Calls, CountFree(c)
         PROVE  Races(k)' \subseteq Races(k) \/ (Checked(k)' = Checked(k) /\ HasPlace(k))
    <2>1. /\ call[c].step \in {"look", "count"} /\ Pass(c, call[c].kind)
          /\ UNCHANGED <<members, unchecked>> /\ CallStep(c) /\ HasPlace(call[c].kind)
      BY <1>10 DEF CountFree, CallStep
    <2>2. CASE k = call[c].kind
      BY <2>1, <2>2, <1>4
    <2>3. CASE k # call[c].kind
      BY <2>1, <2>3, <1>1, <1>2, <1>4, <1>5, PassShare
    <2> QED BY <2>2, <2>3
  <1>11. ASSUME NEW c \in Calls, Add(c) \/ AddFails(c) PROVE Races(k)' \subseteq Races(k)
    <2> DEFINE j == call[c].kind
               new == {IdOf(c, j)} \ {NoId}
    <2>1. call[c].step = "add" /\ j \in Kinds /\ CallStep(c)
      BY <1>11, <1>3 DEF Add, AddFails, CallStep, CallType
    <2>2. Share(c, k)' \subseteq Races(k)
      <3>1. CASE j = "devices" /\ call'[c] = [call[c] EXCEPT !.kind = "sessions"]
        <4>1. Share(c, k)' \subseteq Share(c, k)
          BY <3>1, <2>1, <1>3 DEF Share, Passed, IdOf, CallType, OfTheDay
        <4> QED BY <4>1, <1>2
      <3>2. CASE call'[c] = Resting
        BY <3>2 DEF Share, Passed, Resting
      <3> QED BY <1>11, <3>1, <3>2 DEF Add, AddFails, AfterAdd, Done, AdmissionTypeOK
    <2>3. Checked(k)' \subseteq Races(k)
      <3>1. CASE AddFails(c)
        BY <3>1, <1>4, <1>5 DEF AddFails
      <3>2. CASE Add(c) /\ k # j
        BY <3>2, <2>1, <1>5 DEF Add, Checked, AdmissionTypeOK
      <3>3. CASE Add(c) /\ k = j /\ j \in call[c].free
        <4>1. /\ members'[k] = members[k] \cup new
              /\ unchecked'[k] = unchecked[k] \cup new
          BY <3>3, <2>1 DEF Add, AdmissionTypeOK
        <4> QED BY <4>1, <1>5 DEF Checked
      <3>4. CASE Add(c) /\ k = j /\ j \notin call[c].free
        <4>1. /\ members'[k] = members[k] \cup new
              /\ unchecked'[k] = unchecked[k]
          BY <3>4, <2>1 DEF Add, AdmissionTypeOK
        <4>2. new \subseteq Share(c, k)
          BY <3>4, <2>1 DEF Share, Passed, OfTheDay, Kinds
        <4> QED BY <4>1, <4>2, <1>2, <1>5 DEF Checked
      <3> QED BY <1>11, <3>1, <3>2, <3>3, <3>4
    <2> QED BY <1>1, <2>1, <2>2, <2>3
  <1>12. ASSUME NEW s \in Sessions, SessionAges(s) PROVE Races(k)' \subseteq Races(k)
    <2>1. UNCHANGED <<members, unchecked, call>>
      BY <1>12 DEF SessionAges
    <2> QED BY <2>1 DEF Races, Checked, Pending, Waiting, Passed, IdOf
  <1>13. ASSUME Midnight PROVE Races(k)' \subseteq Races(k)
    <2>1. /\ \A c \in Calls :
               \/ call'[c] = call[c] /\ call[c].kind = "live"
               \/ call'[c] = Resting
          /\ Checked(k)' \subseteq Checked(k)
      BY <1>13, <1>3 DEF Midnight, CallType, Kinds, OfTheDay, Checked, AdmissionTypeOK
    <2>2. Pending(k)' \subseteq Pending(k)
      <3>1. Pending(k)' = {IdOf(d, k)' : d \in Waiting(k)'}
        BY DEF Pending
      <3>2. \A d \in Waiting(k)' : d \in Calls /\ call'[d] # Resting
        BY DEF Waiting, Passed, Resting
      <3>3. \A d \in Waiting(k)' : d \in Waiting(k) /\ IdOf(d, k)' = IdOf(d, k)
        BY <2>1, <3>2 DEF Waiting, Passed, IdOf
      <3> QED BY <3>1, <3>3 DEF Pending
    <2> QED BY <2>1, <2>2 DEF Races
  <1>14. ASSUME UNCHANGED admissionVars PROVE Races(k)' \subseteq Races(k)
    BY <1>14 DEF admissionVars, Races, Checked, Pending, Waiting, Passed, IdOf
  <1> QED BY <1>6, <1>7, <1>8, <1>9, <1>10, <1>11, <1>12, <1>13, <1>14
          DEF AdmissionNext, CallStep

LEMMA TrimsLiveStep ==
  AdmissionTypeOK /\ TrimsLive /\ [AdmissionNext]_admissionVars => TrimsLive'
  <1> SUFFICES ASSUME AdmissionTypeOK, TrimsLive, [AdmissionNext]_admissionVars,
                      NEW c \in Calls, call'[c].step = "trim"
               PROVE  call'[c].kind = "live"
    BY DEF TrimsLive
  <1>1. ASSUME NEW d \in Calls, StartSession(d) PROVE call'[c].kind = "live"
    BY <1>1 DEF StartSession, Resting, AdmissionTypeOK, TrimsLive
  <1>2. ASSUME NEW d \in Calls, CallStep(d), ~ StartSession(d)
        PROVE  c # d \/ call'[c].step # "trim"
    <2>1. call[d] \in CallType
      BY DEF AdmissionTypeOK
    <2>2. CASE StartQuota(d)
      BY <2>2 DEF StartQuota, Resting, AdmissionTypeOK
    <2>3. CASE Trim(d) \/ TrimFails(d) \/ NotFound(d) \/ LookFails(d)
      BY <2>3, <2>1 DEF Trim, TrimFails, NotFound, LookFails, CallType, AdmissionTypeOK
    <2>4. CASE Waive(d) \/ Found(d) \/ CountFree(d) \/ CountFails(d)
      <3>1. Onward(d, call[d].kind).step \in {"look", "add"}
        BY <2>1 DEF Onward, CallType
      <3>2. \/ call'[d] = Onward(d, call[d].kind)
            \/ call'[d] = [Onward(d, call[d].kind) EXCEPT !.free = @ \cup {call[d].kind}]
        BY <2>4 DEF Waive, Found, CountFree, CountFails, Pass, PassFree, AdmissionTypeOK
      <3>3. [Onward(d, call[d].kind) EXCEPT !.free = @ \cup {call[d].kind}].step
              = Onward(d, call[d].kind).step
        BY <2>1 DEF Onward, CallType
      <3> QED BY <3>1, <3>2, <3>3
    <2>5. CASE CountFull(d) \/ Dropped(d) \/ Add(d) \/ AddFails(d)
      BY <2>5, <2>1 DEF CountFull, Dropped, Add, AddFails, AfterAdd, Done, Resting,
                        CallType, AdmissionTypeOK
    <2> QED BY <1>2, <2>2, <2>3, <2>4, <2>5 DEF CallStep
  <1>3. ASSUME NEW d \in Calls, CallStep(d), c # d PROVE call'[c] = call[c]
    BY <1>3 DEF CallStep, StartSession, StartQuota, Trim, TrimFails, Waive, Found,
                NotFound, LookFails, CountFree, CountFull, CountFails, Add, AddFails,
                Dropped, Pass, PassFree, AfterAdd, Done, AdmissionTypeOK
  <1>4. ASSUME Midnight PROVE call'[c].kind = "live"
    BY <1>4 DEF Midnight, Resting, TrimsLive
  <1>5. ASSUME UNCHANGED call PROVE call'[c].kind = "live"
    BY <1>5 DEF TrimsLive
  <1> QED BY <1>1, <1>2, <1>3, <1>4, <1>5
          DEF AdmissionNext, SessionAges, admissionVars, TrimsLive

\* The sets are finite, and there is one pending id for each call at most.
RacesFinite ==
  \A k \in Kinds :
    /\ IsFiniteSet(Races(k)) /\ Cardinality(Races(k)) \in Nat
    /\ IsFiniteSet(Checked(k)) /\ Cardinality(Checked(k)) \in Nat
    /\ Cardinality(Checked(k)) <= Cardinality(Races(k))
    /\ Cardinality(Checked(k)) <= Cardinality(members[k])
    /\ Cardinality(members[k]) \in Nat
    /\ Cardinality(Races(k)) <= Cardinality(Checked(k)) + Cardinality(Calls)

LEMMA FiniteRaces == AdmissionTypeOK => RacesFinite
  <1> SUFFICES ASSUME AdmissionTypeOK, NEW k \in Kinds
      PROVE  /\ IsFiniteSet(Races(k)) /\ Cardinality(Races(k)) \in Nat
             /\ IsFiniteSet(Checked(k)) /\ Cardinality(Checked(k)) \in Nat
             /\ Cardinality(Checked(k)) <= Cardinality(Races(k))
             /\ Cardinality(Checked(k)) <= Cardinality(members[k])
             /\ Cardinality(members[k]) \in Nat
             /\ Cardinality(Races(k)) <= Cardinality(Checked(k)) + Cardinality(Calls)
    BY DEF RacesFinite
  <1>1. IsFiniteSet(members[k]) /\ Checked(k) \subseteq members[k]
    <2>1. members[k] \subseteq Ids /\ IsFiniteSet(Ids)
      BY RedisAdmissionAssumption DEF AdmissionTypeOK
    <2> QED BY <2>1, FS_Subset DEF Checked
  <1>2. IsFiniteSet(Checked(k))
    BY <1>1, FS_Subset
  <1>3. /\ IsFiniteSet(Pending(k)) /\ Cardinality(Pending(k)) <= Cardinality(Calls)
        /\ Cardinality(Calls) \in Nat /\ Cardinality(Pending(k)) \in Nat
    <2>1. /\ IsFiniteSet(Waiting(k)) /\ Cardinality(Waiting(k)) <= Cardinality(Calls)
          /\ Cardinality(Calls) \in Nat /\ Cardinality(Waiting(k)) \in Nat
      <3>1. Waiting(k) \subseteq Calls /\ IsFiniteSet(Calls)
        BY RedisAdmissionAssumption DEF Waiting
      <3> QED BY <3>1, FS_Subset, FS_CardinalityType
    <2> DEFINE f == [c \in Waiting(k) |-> IdOf(c, k)]
    <2>2. f \in Surjection(Waiting(k), Pending(k))
      BY DEF Surjection, Pending
    <2>3. IsFiniteSet(Pending(k)) /\ Cardinality(Pending(k)) <= Cardinality(Waiting(k))
      <3> HIDE DEF f
      <3> QED BY <2>1, <2>2, FS_Surjection
    <2> QED BY <2>1, <2>3, FS_CardinalityType
  <1>4. /\ IsFiniteSet(Races(k))
        /\ Cardinality(Races(k)) =
             Cardinality(Checked(k)) + Cardinality(Pending(k))
               - Cardinality(Checked(k) \cap Pending(k))
    BY <1>2, <1>3, FS_Union DEF Races
  <1>5. Cardinality(Checked(k) \cap Pending(k)) \in Nat
    BY <1>2, FS_Subset, FS_CardinalityType, Checked(k) \cap Pending(k) \subseteq Checked(k)
  <1>6. Checked(k) \subseteq Races(k)
    BY DEF Races
  <1> QED BY <1>1, <1>2, <1>3, <1>4, <1>5, <1>6, FS_Subset, FS_CardinalityType

\* The inductive invariant.
THEOREM AdmissionInvariant == AdmissionSpec => []AdmissionInv
  <1>1. AdmissionInit => AdmissionInv
    <2> SUFFICES ASSUME AdmissionInit PROVE AdmissionInv
      OBVIOUS
    <2>1. Resting \in CallType
      BY DEF Resting, CallType, Kinds
    <2>2. AdmissionTypeOK
      <3> HIDE DEF CallType
      <3> QED BY <2>1, RedisAdmissionAssumption
              DEF AdmissionInit, AdmissionTypeOK, Kinds
    <2>3. TrimsLive
      BY DEF AdmissionInit, TrimsLive, Resting
    <2>4. ASSUME NEW k \in Kinds, IdLimit[k] > 0
          PROVE  Cardinality(Races(k)) < IdLimit[k] + Cardinality(Calls)
      <3>1. Waiting(k) = {} /\ Checked(k) = {}
        BY DEF AdmissionInit, Waiting, Passed, Resting, Checked
      <3>2. Races(k) = {}
        BY <3>1 DEF Races, Pending
      <3>3. Cardinality(Calls) \in Nat /\ Cardinality(Races(k)) = 0
        BY <3>2, RedisAdmissionAssumption, FS_EmptySet, FS_CardinalityType
      <3> QED BY <2>4, <3>3, RedisAdmissionAssumption
    <2> QED BY <2>2, <2>3, <2>4 DEF AdmissionInv, RacesBounded
  <1>2. AdmissionInv /\ [AdmissionNext]_admissionVars => AdmissionInv'
    <2> SUFFICES ASSUME AdmissionInv, [AdmissionNext]_admissionVars
                 PROVE  AdmissionInv'
      OBVIOUS
    <2>1. AdmissionTypeOK /\ TrimsLive /\ AdmissionTypeOK'
      BY AdmissionTypeStep DEF AdmissionInv
    <2>2. TrimsLive'
      BY <2>1, TrimsLiveStep
    <2>3. RacesFinite /\ RacesFinite'
      <3>1. AdmissionTypeOK' => RacesFinite'
        BY FiniteRaces, PTL
      <3> QED BY <2>1, <3>1, FiniteRaces
    <2>4. ASSUME NEW k \in Kinds, IdLimit[k] > 0
          PROVE  Cardinality(Races(k)') < IdLimit[k] + Cardinality(Calls)
      <3>1. /\ Cardinality(Races(k)) < IdLimit[k] + Cardinality(Calls)
            /\ IdLimit[k] \in Nat /\ Cardinality(Calls) \in Nat
        BY <2>4, RedisAdmissionAssumption, FS_CardinalityType
           DEF AdmissionInv, RacesBounded
      <3>2. /\ IsFiniteSet(Races(k)) /\ Cardinality(Races(k)) \in Nat
            /\ Cardinality(Checked(k)) <= Cardinality(members[k])
            /\ Cardinality(members[k]) \in Nat /\ Cardinality(Checked(k)) \in Nat
        BY <2>3 DEF RacesFinite
      <3>3. /\ Cardinality(Races(k)') \in Nat
            /\ Cardinality(Races(k)') <= Cardinality(Checked(k)') + Cardinality(Calls)
        BY <2>3 DEF RacesFinite
      <3>4. CASE Races(k)' \subseteq Races(k)
        <4>1. Cardinality(Races(k)') <= Cardinality(Races(k))
          BY <3>2, <3>4, FS_Subset
        <4> QED BY <4>1, <3>1, <3>2, <3>3
      <3>5. CASE Checked(k)' = Checked(k) /\ HasPlace(k)
        <4>1. Cardinality(Checked(k)') < IdLimit[k]
          BY <3>1, <3>2, <3>5 DEF HasPlace
        <4>2. Cardinality(Checked(k)') = Cardinality(Checked(k))
          BY <3>5
        <4> QED BY <4>1, <4>2, <3>1, <3>2, <3>3
      <3> QED BY <2>1, <3>4, <3>5, RaceStep
    <2> QED BY <2>1, <2>2, <2>4 DEF AdmissionInv, RacesBounded
  <1> QED BY <1>1, <1>2, PTL DEF AdmissionSpec

\* The races of session_admit and account_quota_admit exceed a limit by no more than
\* the number of other calls.
THEOREM RacesAreBounded == AdmissionSpec => []AdmissionsRaced
  <1>1. AdmissionInv => AdmissionsRaced
    <2> SUFFICES ASSUME AdmissionInv, NEW k \in Kinds, IdLimit[k] > 0
                 PROVE  Cardinality(Checked(k)) < IdLimit[k] + Cardinality(Calls)
      BY DEF AdmissionsRaced
    <2>1. /\ Cardinality(Checked(k)) <= Cardinality(Races(k))
          /\ Cardinality(Checked(k)) \in Nat /\ Cardinality(Races(k)) \in Nat
      BY FiniteRaces DEF AdmissionInv, RacesFinite
    <2>2. /\ Cardinality(Races(k)) < IdLimit[k] + Cardinality(Calls)
          /\ IdLimit[k] \in Nat /\ Cardinality(Calls) \in Nat
      BY RedisAdmissionAssumption, FS_CardinalityType DEF AdmissionInv, RacesBounded
    <2> QED BY <2>1, <2>2
  <1> QED BY <1>1, AdmissionInvariant, PTL
===============================================================================
