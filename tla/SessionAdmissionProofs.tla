------------------------- MODULE SessionAdmissionProofs -------------------------
(***************************************************************************)
(* What SessionAdmission promises, proved for any sets of requests,        *)
(* accounts, sessions and devices and for any limits.                      *)
(***************************************************************************)
EXTENDS SessionAdmission, FiniteSetTheorems, TLAPS

\* A call of account_quota_admit keeps the types.
LEMMA QuotaTypes ==
  ASSUME TypeOK, NEW a \in Accounts, NEW w \in 0 .. today,
         NEW joining \in SUBSET Sessions, Retain(a, w, joining)
  PROVE  /\ devices' \in [Accounts -> SUBSET Devices]
         /\ sessions' \in [Accounts -> SUBSET Sessions]
         /\ day' \in [Accounts -> 0 .. today]
         /\ erased' \in [Accounts -> SUBSET Sessions]
<1>1. \A s \in joining : DeviceOf[s] \in Devices
  BY AdmissionAssumption DEF AdmissionAssumption
<1>2. /\ OfDay(devices, a, w) \cup {DeviceOf[s] : s \in joining} \in SUBSET Devices
      /\ OfDay(sessions, a, w) \cup joining \in SUBSET Sessions
      /\ OfDay(sessions, a, today) \in SUBSET Sessions
  BY <1>1 DEF TypeOK, OfDay
<1>3. /\ devices' \in [Accounts -> SUBSET Devices]
      /\ sessions' \in [Accounts -> SUBSET Sessions]
  BY <1>2 DEF TypeOK, Retain
<1>4. day' \in [Accounts -> 0 .. today] /\ erased' \in [Accounts -> SUBSET Sessions]
  BY <1>2 DEF TypeOK, Retain
<1> QED
  BY <1>3, <1>4

LEMMA CountTypes ==
  ASSUME TypeOK, NEW a \in Accounts, NEW w \in 0 .. today, NEW s \in Sessions,
         CountIn(a, s, w)
  PROVE  /\ Retain(a, w, {s})
         /\ counted' \in [Accounts -> SUBSET Sessions]
         /\ forcedToday' \in [Accounts -> SUBSET Sessions]
         /\ strays' \in [Accounts -> SUBSET Sessions]
<1>1. Retain(a, w, {s})
  BY DEF CountIn
<1>2. CASE w = today
  <2>1. /\ counted' = [counted EXCEPT ![a] = @ \cup {s}]
        /\ strays' = [strays EXCEPT ![a] = @ \ {s}]
        /\ \/ forcedToday' = forcedToday
           \/ forcedToday' = [forcedToday EXCEPT ![a] = @ \cup {s}]
    BY <1>2 DEF CountIn, Joins
  <2> QED
    BY <1>1, <2>1 DEF TypeOK
<1>3. CASE w # today
  <2>1. UNCHANGED <<counted, forcedToday, strays>>
    BY <1>3 DEF CountIn
  <2> QED
    BY <1>1, <2>1 DEF TypeOK
<1> QED
  BY <1>2, <1>3

\* Every step keeps the types.
LEMMA TypeStep ==
  ASSUME TypeOK, [Next]_vars
  PROVE  TypeOK'
<1> USE AdmissionAssumption DEF AdmissionAssumption, TypeOK, Phases, GoTo, End, Admitted,
        AdmitSession, OfDay, CallQuota, Choose, Joins, Upset,
        cacheVars, quotaVars, requestVars, counters, history, quotaHistory
<1>1. ASSUME NEW r \in Requests, Arrive(r) PROVE TypeOK'
  BY <1>1 DEF Arrive
<1>2. ASSUME NEW r \in Requests, FindBinding(r) PROVE TypeOK'
  BY <1>2 DEF FindBinding
<1>3. ASSUME NEW r \in Requests, ForceSession(r) PROVE TypeOK'
  BY <1>3 DEF ForceSession
<1>4. ASSUME NEW r \in Requests, ForceQuota(r) PROVE TypeOK'
  <2>1. PICK w \in ClockOf(r) : CountIn(chosen[r], sess[r], w)
    BY <1>4 DEF ForceQuota
  <2>2. chosen[r] \in Accounts /\ sess[r] \in Sessions /\ w \in 0 .. today
    BY <1>4, <2>1 DEF ForceQuota, ClockOf
  <2>3. /\ devices' \in [Accounts -> SUBSET Devices]
        /\ sessions' \in [Accounts -> SUBSET Sessions]
        /\ day' \in [Accounts -> 0 .. today]
        /\ erased' \in [Accounts -> SUBSET Sessions]
        /\ counted' \in [Accounts -> SUBSET Sessions]
        /\ forcedToday' \in [Accounts -> SUBSET Sessions]
        /\ strays' \in [Accounts -> SUBSET Sessions]
    <3>1. /\ Retain(chosen[r], w, {sess[r]})
          /\ counted' \in [Accounts -> SUBSET Sessions]
          /\ forcedToday' \in [Accounts -> SUBSET Sessions]
          /\ strays' \in [Accounts -> SUBSET Sessions]
      BY <2>1, <2>2, CountTypes
    <3>2. {sess[r]} \in SUBSET Sessions
      BY <2>2
    <3> QED
      BY <2>2, <3>1, <3>2, QuotaTypes
  <2> QED
    BY <1>4, <2>3 DEF ForceQuota
<1>5. ASSUME NEW r \in Requests, ListAccounts(r) PROVE TypeOK'
  BY <1>5 DEF ListAccounts
<1>6. ASSUME NEW r \in Requests, TrySession(r) PROVE TypeOK'
  BY <1>6 DEF TrySession
<1>7. ASSUME NEW r \in Requests, SessionsFull(r) PROVE TypeOK'
  BY <1>7 DEF SessionsFull
<1>8. ASSUME NEW r \in Requests, TryQuota(r) PROVE TypeOK'
  <2>1. PICK w \in ClockOf(r) : CountIn(chosen[r], sess[r], w)
    BY <1>8 DEF TryQuota
  <2>2. chosen[r] \in Accounts /\ sess[r] \in Sessions /\ w \in 0 .. today
    BY <1>8, <2>1 DEF TryQuota, ClockOf
  <2>3. /\ devices' \in [Accounts -> SUBSET Devices]
        /\ sessions' \in [Accounts -> SUBSET Sessions]
        /\ day' \in [Accounts -> 0 .. today]
        /\ erased' \in [Accounts -> SUBSET Sessions]
        /\ counted' \in [Accounts -> SUBSET Sessions]
        /\ forcedToday' \in [Accounts -> SUBSET Sessions]
        /\ strays' \in [Accounts -> SUBSET Sessions]
    <3>1. /\ Retain(chosen[r], w, {sess[r]})
          /\ counted' \in [Accounts -> SUBSET Sessions]
          /\ forcedToday' \in [Accounts -> SUBSET Sessions]
          /\ strays' \in [Accounts -> SUBSET Sessions]
      BY <2>1, <2>2, CountTypes
    <3>2. {sess[r]} \in SUBSET Sessions
      BY <2>2
    <3> QED
      BY <2>2, <3>1, <3>2, QuotaTypes
  <2> QED
    BY <1>8, <2>3 DEF TryQuota
<1>9. ASSUME NEW r \in Requests, QuotaFull(r) PROVE TypeOK'
  <2>1. PICK w \in ClockOf(r) : Retain(chosen[r], w, {})
    BY <1>9 DEF QuotaFull
  <2>2. chosen[r] \in Accounts /\ w \in 0 .. today
    BY <1>9, <2>1 DEF QuotaFull, ClockOf
  <2>3. /\ devices' \in [Accounts -> SUBSET Devices]
        /\ sessions' \in [Accounts -> SUBSET Sessions]
        /\ day' \in [Accounts -> 0 .. today]
        /\ erased' \in [Accounts -> SUBSET Sessions]
    BY <2>1, <2>2, QuotaTypes
  <2> QED
    BY <1>9, <2>3 DEF QuotaFull
<1>10. ASSUME NEW r \in Requests, Bind(r) PROVE TypeOK'
  BY <1>10 DEF Bind
<1>11. ASSUME NEW r \in Requests, NextRound(r) PROVE TypeOK'
  BY <1>11 DEF NextRound
<1>12. ASSUME NEW r \in Requests, GiveUp(r) PROVE TypeOK'
  BY <1>12 DEF GiveUp
<1>13. ASSUME NEW r \in Requests, SelectBound(r) PROVE TypeOK'
  BY <1>13 DEF SelectBound
<1>14. ASSUME NEW r \in Requests, SelectOther(r) PROVE TypeOK'
  BY <1>14 DEF SelectOther
<1>15. ASSUME NEW r \in Requests, Unbind(r) PROVE TypeOK'
  BY <1>15 DEF Unbind
<1>16. ASSUME NEW r \in Requests, PickOther(r) PROVE TypeOK'
  BY <1>16 DEF PickOther
<1>17. ASSUME NEW r \in Requests, PickNone(r) PROVE TypeOK'
  <2>1. CASE End(r)
    BY <1>17, <2>1 DEF PickNone
  <2>2. CASE GoTo(r, "select") /\ UNCHANGED <<sess, chosen, left, rounds, since>>
    BY <1>17, <2>2 DEF PickNone
  <2> QED
    BY <1>17, <2>1, <2>2 DEF PickNone
<1>18. ASSUME NEW r \in Requests, Failover(r) PROVE TypeOK'
  BY <1>18 DEF Failover
<1>19. ASSUME NEW r \in Requests, Leave(r) PROVE TypeOK'
  BY <1>19 DEF Leave
<1>20. ASSUME NEW a \in Accounts, NEW s \in Sessions, SessionIdles(a, s) PROVE TypeOK'
  BY <1>20 DEF SessionIdles
<1>21. ASSUME NEW s \in Sessions, BindingExpires(s) PROVE TypeOK'
  BY <1>21 DEF BindingExpires
<1>22. ASSUME NewDay PROVE TypeOK'
  BY <1>22 DEF NewDay, Underway
<1>23. CASE UNCHANGED vars
  BY <1>23 DEF vars
<1> QED
  BY <1>1, <1>2, <1>3, <1>4, <1>5, <1>6, <1>7, <1>8, <1>9, <1>10, <1>11,
     <1>12, <1>13, <1>14, <1>15, <1>16, <1>17, <1>18, <1>19, <1>20, <1>21, <1>22,
     <1>23
  DEF Next, AdmissionStep, LoopStep, TimeStep

(***************************************************************************)
(* Every variable of SessionAdmission keeps its type: a request has a      *)
(* session while it is under way and an account while it deals with one.   *)
(***************************************************************************)
THEOREM TypeCorrect == Spec => []TypeOK
<1>1. Init => TypeOK
  BY AdmissionAssumption DEF AdmissionAssumption, Init, TypeOK, Phases
<1>2. ASSUME TypeOK, [Next]_vars PROVE TypeOK'
  BY <1>2, TypeStep
<1> QED
  BY <1>1, <1>2, PTL DEF Spec
-------------------------------------------------------------------------------
(***************************************************************************)
(* The arithmetic of the limits: a set within its limit stays so when the  *)
(* element that joins passed the test of session_admit, and when the       *)
(* elements that count are fewer.                                          *)
(***************************************************************************)
LEMMA JoinWithin ==
  ASSUME NEW set, IsFiniteSet(set), NEW x, NEW max \in Nat, NEW over,
         Within(set, max, over), Room(set, x, max)
  PROVE  Within(set \cup {x}, max, over)
<1>1. CASE max = 0 \/ x \in set
  <2>1. x \in set => set \cup {x} = set
    OBVIOUS
  <2> QED
    BY <1>1, <2>1 DEF Within
<1>2. CASE x \notin set /\ Cardinality(set) < max
  <2>1. /\ IsFiniteSet(set \cup {x})
        /\ Cardinality(set \cup {x}) = Cardinality(set) + 1
    BY <1>2, FS_AddElement
  <2>2. Cardinality((set \cup {x}) \ over) <= Cardinality(set \cup {x})
    BY <2>1, FS_Subset
  <2>3. /\ Cardinality(set) \in Nat
        /\ Cardinality((set \cup {x}) \ over) \in Nat
    BY <2>1, FS_CardinalityType, FS_Subset
  <2> QED
    BY <1>2, <2>1, <2>2, <2>3 DEF Within
<1> QED
  BY <1>1, <1>2 DEF Room

\* A set that loses members stays within its limit.
LEMMA FewerWithin ==
  ASSUME NEW set, IsFiniteSet(set), NEW max \in Nat, NEW over, NEW set2, NEW over2,
         Within(set, max, over), set2 \ over2 \subseteq set \ over
  PROVE  Within(set2, max, over2)
<1>1. IsFiniteSet(set \ over)
  BY FS_Subset
<1>2. /\ IsFiniteSet(set2 \ over2)
      /\ Cardinality(set2 \ over2) <= Cardinality(set \ over)
  BY <1>1, FS_Subset
<1>3. Cardinality(set2 \ over2) \in Nat /\ Cardinality(set \ over) \in Nat
  BY <1>1, <1>2, FS_CardinalityType
<1> QED
  BY <1>2, <1>3 DEF Within

(***************************************************************************)
(* session_admit never lets the live sessions of an account grow over its  *)
(* limit, but for the sessions that were let in because they were bound.   *)
(***************************************************************************)
THEOREM LiveLimited == Spec => []LiveBounded
<1>1. Init => LiveBounded
  <2>1. Cardinality({}) = 0
    BY FS_EmptySet
  <2>2. {} \ {} = {}
    OBVIOUS
  <2> QED
    BY <2>1, <2>2, AdmissionAssumption DEF AdmissionAssumption, Init, LiveBounded, Within
<1>2. ASSUME TypeOK, LiveBounded, [Next]_vars
      PROVE  LiveBounded'
  <2> SUFFICES ASSUME NEW a \in Accounts
               PROVE  Within(live'[a], MaxSessions[a], forced'[a])
    BY DEF LiveBounded
  <2>1. /\ IsFiniteSet(live[a])
        /\ MaxSessions[a] \in Nat
        /\ Within(live[a], MaxSessions[a], forced[a])
    BY <1>2, AdmissionAssumption, FS_Subset DEF AdmissionAssumption, TypeOK, LiveBounded
  <2>2. CASE UNCHANGED <<live, forced>>
    BY <2>1, <2>2
  <2>3. ASSUME NEW b \in Accounts, NEW s \in Sessions, AdmitSession(b, s)
        PROVE  Within(live'[a], MaxSessions[a], forced'[a])
    <3>1. live'[a] = IF a = b THEN live[a] \cup {s} ELSE live[a]
      BY <1>2, <2>3 DEF AdmitSession, Joins, TypeOK
    <3>2. CASE a = b /\ Room(live[a], s, MaxSessions[a])
      <4>1. forced'[a] = forced[a]
        BY <2>3, <3>2 DEF AdmitSession, SessionRoom
      <4> QED
        BY <2>1, <3>1, <3>2, <4>1, JoinWithin
    <3>3. CASE a = b /\ ~ Room(live[a], s, MaxSessions[a])
      <4>1. forced'[a] = forced[a] \cup {s}
        BY <1>2, <2>3, <3>3 DEF AdmitSession, SessionRoom, Joins, TypeOK
      <4>2. live'[a] \ forced'[a] \subseteq live[a] \ forced[a]
        BY <3>1, <3>3, <4>1
      <4> QED
        BY <2>1, <4>2, FewerWithin
    <3>4. CASE a # b
      <4>1. forced'[a] = forced[a]
        BY <1>2, <2>3, <3>4 DEF AdmitSession, Joins, TypeOK
      <4> QED
        BY <2>1, <3>1, <3>4, <4>1
    <3> QED
      BY <3>2, <3>3, <3>4
  <2>4. ASSUME NEW b \in Accounts, NEW s \in Sessions, SessionIdles(b, s)
        PROVE  Within(live'[a], MaxSessions[a], forced'[a])
    <3>1. live'[a] \ forced'[a] \subseteq live[a] \ forced[a]
      BY <1>2, <2>4 DEF SessionIdles, TypeOK
    <3> QED
      BY <2>1, <3>1, FewerWithin
  <2>5. ASSUME NEW r \in Requests, ForceSession(r) \/ TrySession(r)
        PROVE  \E b \in Accounts, s \in Sessions : AdmitSession(b, s)
    <3>1. sess[r] \in Sessions /\ left[r] \subseteq Accounts
      BY <1>2, <2>5, AdmissionAssumption
      DEF AdmissionAssumption, ForceSession, TrySession, TypeOK
    <3>2. ForceSession(r) => chosen[r] \in Accounts
      BY <1>2 DEF ForceSession, TypeOK
    <3> QED
      BY <2>5, <3>1, <3>2 DEF ForceSession, TrySession
  <2>6. \/ UNCHANGED <<live, forced>>
        \/ \E r \in Requests : ForceSession(r) \/ TrySession(r)
        \/ \E b \in Accounts, s \in Sessions : SessionIdles(b, s)
    BY <1>2 DEF Next, AdmissionStep, LoopStep, TimeStep, Arrive, FindBinding, ForceQuota,
      ListAccounts, SessionsFull, TryQuota, QuotaFull, Bind, NextRound, GiveUp,
      SelectBound, SelectOther, Unbind, PickOther, PickNone, Failover, Leave,
      BindingExpires, NewDay, CountIn, vars, cacheVars, history
  <2> QED
    BY <2>2, <2>3, <2>4, <2>5, <2>6
<1> QED
  BY <1>1, <1>2, TypeCorrect, PTL DEF Spec
-------------------------------------------------------------------------------
\* What is counted for the day of the clock; the code drops entries of other days.
SessionsToday(a) == OfDay(sessions, a, today)
DevicesToday(a) == OfDay(devices, a, today)

\* What a call of account_quota_admit does to the entries of today.
LEMMA RetainToday ==
  ASSUME TypeOK, NEW b \in Accounts, NEW w \in 0 .. today, NEW joining \in SUBSET Sessions,
         Retain(b, w, joining), today' = today, NEW a \in Accounts
  PROVE  /\ a # b => /\ SessionsToday(a)' = SessionsToday(a)
                     /\ DevicesToday(a)' = DevicesToday(a)
                     /\ erased'[a] = erased[a]
         /\ a = b /\ w = today =>
              /\ SessionsToday(a)' = SessionsToday(a) \cup joining
              /\ DevicesToday(a)' = DevicesToday(a) \cup {DeviceOf[s] : s \in joining}
              /\ erased'[a] = erased[a] \ joining
         /\ a = b /\ w # today =>
              /\ SessionsToday(a)' = {}
              /\ DevicesToday(a)' = {}
              /\ erased'[a] = erased[a] \cup SessionsToday(a)
<1>1. CASE a # b
  BY <1>1 DEF TypeOK, Retain, SessionsToday, DevicesToday, OfDay
<1>2. CASE a = b
  <2>1. /\ day'[a] = w
        /\ sessions'[a] = OfDay(sessions, a, w) \cup joining
        /\ devices'[a] = OfDay(devices, a, w) \cup {DeviceOf[s] : s \in joining}
        /\ erased'[a] = IF w = today THEN erased[a] \ joining
                                     ELSE erased[a] \cup OfDay(sessions, a, today)
    BY <1>2 DEF TypeOK, Retain
  <2> QED
    BY <1>2, <2>1 DEF SessionsToday, DevicesToday, OfDay
<1> QED
  BY <1>1, <1>2

\* The calls of account_quota_admit, with the window each has read.
QuotaCall(r, w) ==
  /\ w \in ClockOf(r)
  /\ \/ CountIn(chosen[r], sess[r], w)
     \/ Retain(chosen[r], w, {}) /\ UNCHANGED <<counted, forcedToday, strays>>

QuotaStep(r) == ForceQuota(r) \/ TryQuota(r) \/ QuotaFull(r)

LEMMA QuotaCalls ==
  ASSUME TypeOK, NEW r \in Requests, QuotaStep(r)
  PROVE  /\ chosen[r] \in Accounts /\ sess[r] \in Sessions /\ today' = today
         /\ \E w \in 0 .. today : QuotaCall(r, w)
<1>1. chosen[r] \in Accounts /\ sess[r] \in Sessions /\ today' = today
  BY AdmissionAssumption DEF AdmissionAssumption, QuotaStep, ForceQuota, TryQuota,
    QuotaFull, TypeOK, counters
<1>2. \E w \in ClockOf(r) : QuotaCall(r, w)
  BY DEF QuotaStep, ForceQuota, TryQuota, QuotaFull, QuotaCall
<1>3. ClockOf(r) \subseteq 0 .. today
  BY DEF TypeOK, ClockOf
<1> QED
  BY <1>1, <1>2, <1>3

(***************************************************************************)
(* Why a day keeps to its quotas.  DayBounded speaks of all that was let   *)
(* in, the code compares the entries that are left: the invariant says     *)
(* that they are the sessions let in for today and not erased since, that  *)
(* both maps tell of the same sessions, and that the entries of today,     *)
(* those of bound sessions aside, are within the quotas.                   *)
(***************************************************************************)
DayKept(a) ==
  /\ counted[a] \ erased[a] = SessionsToday(a)
  /\ DevicesToday(a) = {DeviceOf[s] : s \in SessionsToday(a)}
  /\ Within(SessionsToday(a), SessionQuota[a], forcedToday[a])
  /\ Within(DevicesToday(a), DeviceQuota[a], {DeviceOf[s] : s \in forcedToday[a]})

DayInv == \A a \in Accounts : DayKept(a)

LEMMA NobodyWithin ==
  ASSUME NEW max \in Nat, NEW over PROVE Within({}, max, over)
<1>1. Cardinality({}) = 0 /\ {} \ over = {}
  BY FS_EmptySet
<1> QED
  BY <1>1 DEF Within

LEMMA DayStep ==
  ASSUME TypeOK, DayInv, [Next]_vars, NEW a \in Accounts
  PROVE  DayKept(a)'
<1> DEFINE Over == {DeviceOf[s] : s \in forcedToday[a]}
           over2 == {DeviceOf[s] : s \in forcedToday'[a]}
<1>1. /\ IsFiniteSet(SessionsToday(a)) /\ SessionQuota[a] \in Nat
      /\ IsFiniteSet(DevicesToday(a)) /\ DeviceQuota[a] \in Nat
  <2>1. SessionsToday(a) \subseteq Sessions /\ DevicesToday(a) \subseteq Devices
    BY DEF TypeOK, SessionsToday, DevicesToday, OfDay
  <2> QED
    BY <2>1, AdmissionAssumption, FS_Subset DEF AdmissionAssumption
<1>2. /\ counted[a] \ erased[a] = SessionsToday(a)
      /\ DevicesToday(a) = {DeviceOf[s] : s \in SessionsToday(a)}
      /\ Within(SessionsToday(a), SessionQuota[a], forcedToday[a])
      /\ Within(DevicesToday(a), DeviceQuota[a], Over)
  BY DEF DayInv, DayKept
<1>3. ASSUME SessionsToday(a)' = SessionsToday(a), DevicesToday(a)' = DevicesToday(a),
             counted'[a] = counted[a], erased'[a] = erased[a],
             forcedToday'[a] = forcedToday[a]
      PROVE  DayKept(a)'
  BY <1>2, <1>3 DEF DayKept
<1>4. ASSUME SessionsToday(a)' = {}, DevicesToday(a)' = {},
             counted'[a] \subseteq erased'[a]
      PROVE  DayKept(a)'
  <2>1. Within({}, SessionQuota[a], forcedToday'[a]) /\ Within({}, DeviceQuota[a], over2)
    BY <1>1, NobodyWithin
  <2> QED
    BY <1>4, <2>1 DEF DayKept
<1>5. ASSUME NEW r \in Requests, QuotaStep(r)
      PROVE  DayKept(a)'
  <2> DEFINE b == chosen[r]
             s == sess[r]
  <2>1. b \in Accounts /\ s \in Sessions /\ today' = today
    BY <1>5, QuotaCalls
  <2>2. PICK w \in 0 .. today : QuotaCall(r, w)
    BY <1>5, QuotaCalls
  <2> HIDE DEF b, s
  <2>3. CASE Retain(b, w, {}) /\ UNCHANGED <<counted, forcedToday, strays>>
    <3>1. CASE a = b /\ w # today
      <4>1. SessionsToday(a)' = {} /\ DevicesToday(a)' = {}
            /\ erased'[a] = erased[a] \cup SessionsToday(a)
        BY <2>1, <2>3, <3>1, RetainToday
      <4> QED
        BY <1>2, <1>4, <2>3, <4>1
    <3>2. CASE a # b \/ w = today
      <4>1. SessionsToday(a)' = SessionsToday(a) /\ DevicesToday(a)' = DevicesToday(a)
            /\ erased'[a] = erased[a]
        <5>1. CASE a # b
          BY <2>1, <2>3, <5>1, RetainToday
        <5>2. CASE a = b /\ w = today
          <6>1. PICK nobody \in SUBSET Sessions : nobody = {}
            OBVIOUS
          <6>2. Retain(b, w, nobody)
            BY <2>3, <6>1
          <6>3. /\ SessionsToday(a)' = SessionsToday(a) \cup nobody
                /\ DevicesToday(a)' = DevicesToday(a) \cup {DeviceOf[x] : x \in nobody}
                /\ erased'[a] = erased[a] \ nobody
            BY <2>1, <5>2, <6>2, RetainToday
          <6>4. {DeviceOf[x] : x \in nobody} = {}
            BY <6>1
          <6> QED
            BY <6>1, <6>3, <6>4
        <5> QED
          BY <3>2, <5>1, <5>2
      <4> QED
        BY <1>3, <2>3, <4>1
    <3> QED
      BY <3>1, <3>2
  <2>4. CASE CountIn(b, s, w)
    <3>1. Retain(b, w, {s})
      BY <2>4 DEF CountIn
    <3>2. CASE a # b
      <4>1. SessionsToday(a)' = SessionsToday(a) /\ DevicesToday(a)' = DevicesToday(a)
            /\ erased'[a] = erased[a]
        BY <2>1, <3>1, <3>2, RetainToday
      <4>2. counted'[a] = counted[a] /\ forcedToday'[a] = forcedToday[a]
        BY <2>4, <3>2 DEF CountIn, Joins, TypeOK
      <4> QED
        BY <1>3, <4>1, <4>2
    <3>3. CASE a = b /\ w # today
      <4>1. SessionsToday(a)' = {} /\ DevicesToday(a)' = {}
            /\ erased'[a] = erased[a] \cup SessionsToday(a)
        BY <2>1, <3>1, <3>3, RetainToday
      <4>2. counted' = counted
        BY <2>4, <3>3 DEF CountIn
      <4> QED
        BY <1>2, <1>4, <4>1, <4>2
    <3>4. CASE a = b /\ w = today
      <4>1. SessionsToday(a)' = SessionsToday(a) \cup {s}
            /\ DevicesToday(a)' = DevicesToday(a) \cup {DeviceOf[s]}
            /\ erased'[a] = erased[a] \ {s}
        <5>1. {DeviceOf[x] : x \in {s}} = {DeviceOf[s]}
          OBVIOUS
        <5> QED
          BY <2>1, <3>1, <3>4, <5>1, RetainToday
      <4>2. counted'[a] = counted[a] \cup {s}
        BY <2>4, <3>4 DEF CountIn, Joins, TypeOK
      <4>3. /\ counted'[a] \ erased'[a] = SessionsToday(a)'
            /\ DevicesToday(a)' = {DeviceOf[x] : x \in SessionsToday(a)'}
        BY <1>2, <4>1, <4>2
      <4>4. CASE QuotaRoom(b, s, w)
        <5>1. forcedToday' = forcedToday
          BY <2>4, <3>4, <4>4 DEF CountIn
        <5>2. /\ Room(SessionsToday(a), s, SessionQuota[a])
              /\ Room(DevicesToday(a), DeviceOf[s], DeviceQuota[a])
          BY <3>4, <4>4 DEF QuotaRoom, SessionsToday, DevicesToday
        <5> HIDE DEF Over
        <5>3. /\ Within(SessionsToday(a) \cup {s}, SessionQuota[a], forcedToday[a])
              /\ Within(DevicesToday(a) \cup {DeviceOf[s]}, DeviceQuota[a], Over)
          BY <1>1, <1>2, <5>2, JoinWithin
        <5> QED
          BY <4>1, <4>3, <5>1, <5>3 DEF DayKept, Over
      <4>5. CASE ~ QuotaRoom(b, s, w)
        <5>1. forcedToday'[a] = forcedToday[a] \cup {s}
          BY <2>4, <3>4, <4>5 DEF CountIn, Joins, TypeOK
        <5>2. /\ (SessionsToday(a) \cup {s}) \ forcedToday'[a]
                   \subseteq SessionsToday(a) \ forcedToday[a]
              /\ (DevicesToday(a) \cup {DeviceOf[s]}) \ over2 \subseteq DevicesToday(a) \ Over
          BY <5>1
        <5> HIDE DEF Over, over2
        <5>3. /\ Within(SessionsToday(a) \cup {s}, SessionQuota[a], forcedToday'[a])
              /\ Within(DevicesToday(a) \cup {DeviceOf[s]}, DeviceQuota[a], over2)
          BY <1>1, <1>2, <5>2, FewerWithin
        <5> QED
          BY <4>1, <4>3, <5>3 DEF DayKept, over2
      <4> QED
        BY <4>4, <4>5
    <3> QED
      BY <3>2, <3>3, <3>4
  <2> QED
    BY <2>2, <2>3, <2>4 DEF QuotaCall, b, s
<1>6. CASE NewDay
  <2>1. /\ today' = today + 1 /\ day' = day /\ day[a] \in 0 .. today /\ today \in Nat
        /\ sessions' = sessions /\ devices' = devices /\ counted'[a] = {}
    BY <1>6 DEF NewDay, TypeOK, cacheVars, quotaVars
  <2>2. day'[a] # today'
    BY <2>1
  <2> QED
    BY <1>4, <2>1, <2>2 DEF SessionsToday, DevicesToday, OfDay
<1>7. CASE UNCHANGED <<devices, sessions, day, today, counted, forcedToday, erased>>
  BY <1>2, <1>7 DEF DayKept, SessionsToday, DevicesToday, OfDay
<1>8. \/ UNCHANGED <<devices, sessions, day, today, counted, forcedToday, erased>>
      \/ \E r \in Requests : QuotaStep(r)
      \/ NewDay
  BY DEF Next, AdmissionStep, LoopStep, TimeStep, Arrive, FindBinding, ForceSession,
    ListAccounts, TrySession, SessionsFull, Bind, NextRound, GiveUp, QuotaStep,
    SelectBound, SelectOther, Unbind, PickOther, PickNone, Failover, Leave,
    BindingExpires, SessionIdles, vars, cacheVars, quotaVars, counters, history,
    quotaHistory
<1> QED
  BY <1>5, <1>6, <1>7, <1>8

(***************************************************************************)
(* account_quota_admit lets no more sessions and devices of an account in  *)
(* for a day than its quotas, but for the sessions let in because they     *)
(* were bound, and those that a call from before midnight has erased.      *)
(***************************************************************************)
THEOREM DayLimited == Spec => []DayBounded
<1>1. Init => DayInv
  <2>1. ASSUME Init, NEW a \in Accounts PROVE DayKept(a)
    <3>1. SessionsToday(a) = {} /\ DevicesToday(a) = {} /\ counted[a] = {}
      BY <2>1 DEF Init, SessionsToday, DevicesToday, OfDay
    <3> DEFINE over == {DeviceOf[s] : s \in forcedToday[a]}
    <3> HIDE DEF over
    <3>2. Within({}, SessionQuota[a], forcedToday[a]) /\ Within({}, DeviceQuota[a], over)
      BY NobodyWithin, AdmissionAssumption DEF AdmissionAssumption
    <3> QED
      BY <3>1, <3>2 DEF DayKept, over
  <2> QED
    BY <2>1 DEF DayInv
<1>2. TypeOK /\ DayInv /\ [Next]_vars => DayInv'
  BY DayStep DEF DayInv
<1>3. TypeOK /\ DayInv => DayBounded
  <2> SUFFICES ASSUME TypeOK, DayInv, NEW a \in Accounts
               PROVE  /\ Within(counted[a], SessionQuota[a], forcedToday[a] \cup erased[a])
                      /\ Within({DeviceOf[s] : s \in counted[a]}, DeviceQuota[a],
                                {DeviceOf[s] : s \in forcedToday[a] \cup erased[a]})
    BY DEF DayBounded
  <2> DEFINE seen == {DeviceOf[s] : s \in counted[a]}
             Over == {DeviceOf[s] : s \in forcedToday[a]}
             aside == {DeviceOf[s] : s \in forcedToday[a] \cup erased[a]}
  <2>1. /\ IsFiniteSet(SessionsToday(a)) /\ SessionQuota[a] \in Nat
        /\ IsFiniteSet(DevicesToday(a)) /\ DeviceQuota[a] \in Nat
    <3>1. SessionsToday(a) \subseteq Sessions /\ DevicesToday(a) \subseteq Devices
      BY DEF TypeOK, SessionsToday, DevicesToday, OfDay
    <3> QED
      BY <3>1, AdmissionAssumption, FS_Subset DEF AdmissionAssumption
  <2>2. /\ counted[a] \ erased[a] = SessionsToday(a)
        /\ DevicesToday(a) = {DeviceOf[s] : s \in SessionsToday(a)}
        /\ Within(SessionsToday(a), SessionQuota[a], forcedToday[a])
        /\ Within(DevicesToday(a), DeviceQuota[a], Over)
    BY DEF DayInv, DayKept
  <2>3. counted[a] \ (forcedToday[a] \cup erased[a]) \subseteq SessionsToday(a) \ forcedToday[a]
    BY <2>2
  <2>4. seen \ aside \subseteq DevicesToday(a) \ Over
    BY <2>2
  <2>5. Within(counted[a], SessionQuota[a], forcedToday[a] \cup erased[a])
    BY <2>1, <2>2, <2>3, FewerWithin
  <2>6. Within(seen, DeviceQuota[a], aside)
    <3> HIDE DEF seen, Over, aside
    <3> QED
      BY <2>1, <2>2, <2>4, FewerWithin
  <2> QED
    BY <2>5, <2>6
<1> QED
  BY <1>1, <1>2, <1>3, TypeCorrect, PTL DEF Spec
-------------------------------------------------------------------------------
(***************************************************************************)
(* Why a session is served only where it is counted.  ServiceCounted is    *)
(* not inductive: what a request is about to do depends on the binding,    *)
(* which requests of the same session move.  A request that holds an       *)
(* account with a right to serve is accounted for there; one that is let   *)
(* in by its binding still holds the binding it read, or the binding has   *)
(* moved to an account that has counted the session; once the request is   *)
(* in select_account the binding leads to no other account; and a request  *)
(* that may have read the clock before midnight is one of those that       *)
(* midnight found under way.                                               *)
(***************************************************************************)
Accounted(a, s) == s \in SessionsToday(a) \cup strays[a] \cup erased[a]

BindingCounted(s) == sticky[s] = NoAccount \/ Accounted(sticky[s], s)

CountedOnTheWay(r) ==
  /\ pc[r] \in {"bind", "serving"} => Accounted(chosen[r], sess[r])
  /\ pc[r] \in {"force", "forceQuota"} =>
       sticky[sess[r]] = chosen[r] \/ BindingCounted(sess[r])
  /\ pc[r] \in {"select", "unbind", "pick", "serving"} => BindingCounted(sess[r])
  /\ pc[r] \in {"quota", "forceQuota"} /\ since[r] # today =>
       \A a \in Accounts : Accounted(a, sess[r])

ServiceInv == \A r \in Requests : CountedOnTheWay(r)

RequestStep(r) == Arrive(r) \/ AdmissionStep(r) \/ LoopStep(r) \/ Leave(r)

\* What a step of a request leaves alone.
LEMMA OthersWait ==
  ASSUME TypeOK, NEW r \in Requests, RequestStep(r), NEW q \in Requests \ {r}
  PROVE  /\ pc'[q] = pc[q] /\ sess'[q] = sess[q] /\ chosen'[q] = chosen[q]
         /\ left'[q] = left[q] /\ rounds'[q] = rounds[q] /\ since'[q] = since[q]
         /\ today' = today
<1> USE DEF TypeOK, End, Admitted, GoTo, CallQuota, Choose, counters, cacheVars
<1>1. CASE Arrive(r) \/ Leave(r)
  BY <1>1 DEF Arrive, Leave
<1>2. CASE AdmissionStep(r)
  <2>1. CASE FindBinding(r) \/ ForceSession(r) \/ ForceQuota(r) \/ ListAccounts(r)
    BY <2>1 DEF FindBinding, ForceSession, ForceQuota, ListAccounts
  <2>2. CASE TrySession(r) \/ SessionsFull(r) \/ TryQuota(r) \/ QuotaFull(r)
    BY <2>2 DEF TrySession, SessionsFull, TryQuota, QuotaFull
  <2>3. CASE Bind(r) \/ NextRound(r) \/ GiveUp(r)
    BY <2>3 DEF Bind, NextRound, GiveUp
  <2> QED
    BY <1>2, <2>1, <2>2, <2>3 DEF AdmissionStep
<1>3. CASE LoopStep(r)
  <2>1. CASE SelectBound(r) \/ SelectOther(r) \/ Unbind(r)
    BY <2>1 DEF SelectBound, SelectOther, Unbind
  <2>2. CASE PickOther(r) \/ PickNone(r) \/ Failover(r)
    BY <2>2 DEF PickOther, PickNone, Failover
  <2> QED
    BY <1>3, <2>1, <2>2 DEF LoopStep
<1> QED
  BY <1>1, <1>2, <1>3 DEF RequestStep

\* Within a day nothing that is accounted for is lost.
LEMMA AccountedStays ==
  ASSUME TypeOK, NEW r \in Requests, RequestStep(r),
         NEW a \in Accounts, NEW s \in Sessions, Accounted(a, s)
  PROVE  Accounted(a, s)'
<1>1. CASE UNCHANGED <<sessions, day, today, strays, erased>>
  BY <1>1 DEF Accounted, SessionsToday, OfDay
<1>2. CASE QuotaStep(r)
  <2> DEFINE b == chosen[r]
             x == sess[r]
  <2>1. b \in Accounts /\ x \in Sessions /\ today' = today
    BY <1>2, QuotaCalls
  <2>2. PICK w \in 0 .. today : QuotaCall(r, w)
    BY <1>2, QuotaCalls
  <2> HIDE DEF b, x
  <2>3. CASE Retain(b, w, {}) /\ UNCHANGED <<counted, forcedToday, strays>>
    BY <2>1, <2>3, RetainToday DEF Accounted
  <2>4. CASE CountIn(b, x, w)
    <3>1. Retain(b, w, {x})
      BY <2>4 DEF CountIn
    <3>2. /\ a # b \/ w # today => strays'[a] = strays[a]
          /\ strays[a] \ {x} \subseteq strays'[a]
      BY <2>1, <2>4 DEF CountIn, TypeOK
    <3> QED
      BY <2>1, <3>1, <3>2, RetainToday DEF Accounted
  <2> QED
    BY <2>2, <2>3, <2>4 DEF QuotaCall, b, x
<1>3. CASE PickOther(r)
  <2>1. UNCHANGED <<sessions, day, today, erased>>
    BY <1>3 DEF PickOther, quotaVars, counters
  <2>2. strays[a] \subseteq strays'[a]
    BY <1>3 DEF PickOther, TypeOK
  <2> QED
    BY <2>1, <2>2 DEF Accounted, SessionsToday, OfDay
<1> QED
  BY <1>1, <1>2, <1>3 DEF RequestStep, AdmissionStep, LoopStep, Arrive, FindBinding,
    ForceSession, ListAccounts, TrySession, SessionsFull, Bind, NextRound, QuotaStep,
    GiveUp, SelectBound, SelectOther, Unbind, PickNone, Failover, Leave,
    cacheVars, quotaVars, counters, history, quotaHistory

\* A binding only moves to an account where the session is accounted for.
LEMMA BindingMoves ==
  ASSUME TypeOK, ServiceInv, NEW r \in Requests, RequestStep(r), NEW s \in Sessions
  PROVE  sticky'[s] = sticky[s] \/ BindingCounted(s)'
<1>1. CASE UNCHANGED sticky
  BY <1>1
<1>2. CASE Bind(r)
  <2>1. Accounted(chosen[r], sess[r]) /\ chosen[r] \in Accounts
    BY <1>2 DEF Bind, ServiceInv, CountedOnTheWay, TypeOK
  <2> QED
    BY <1>2, <2>1 DEF Bind, BindingCounted, Accounted, SessionsToday, OfDay, quotaVars,
      counters, history, quotaHistory, TypeOK
<1>3. CASE Unbind(r)
  BY <1>3 DEF Unbind, BindingCounted, TypeOK
<1>4. CASE PickOther(r)
  <2>1. PICK a \in Accounts :
          /\ sticky' = [sticky EXCEPT ![sess[r]] = a]
          /\ strays' = [strays EXCEPT ![a] = @ \cup ({sess[r]} \ SessionsToday(a))]
    BY <1>4 DEF PickOther, SessionsToday
  <2>2. sess[r] \in Sessions /\ UNCHANGED <<sessions, day, today>>
    BY <1>4, AdmissionAssumption DEF AdmissionAssumption, PickOther, TypeOK, quotaVars, counters
  <2>3. SessionsToday(a)' = SessionsToday(a)
    BY <2>2 DEF SessionsToday, OfDay
  <2>4. sess[r] \in SessionsToday(a) \cup strays'[a] /\ sticky'[sess[r]] = a
    BY <2>1, <2>2 DEF TypeOK
  <2>5. s # sess[r] => sticky'[s] = sticky[s]
    BY <2>1 DEF TypeOK
  <2> QED
    BY <2>3, <2>4, <2>5 DEF BindingCounted, Accounted
<1> QED
  BY <1>1, <1>2, <1>3, <1>4 DEF RequestStep, AdmissionStep, LoopStep, Arrive,
    FindBinding, ForceSession, ForceQuota, ListAccounts, TrySession, SessionsFull,
    TryQuota, QuotaFull, NextRound, GiveUp, SelectBound, SelectOther, PickNone,
    Failover, Leave, cacheVars

\* A session that a call of account_quota_admit lets in is accounted for: counted
\* for today, or under way at the midnight that the call has missed.
LEMMA CountedNow ==
  ASSUME TypeOK, NEW r \in Requests, ForceQuota(r) \/ TryQuota(r),
         NEW a \in Accounts, NEW x \in Sessions, NEW w \in ClockOf(r),
         a = chosen[r], x = sess[r], CountIn(a, x, w),
         since[r] # today => \A b \in Accounts : Accounted(b, sess[r])
  PROVE  Accounted(a, x)'
<1>1. w \in 0 .. today /\ (w # today => since[r] # today) /\ today' = today
  BY DEF ClockOf, TypeOK, ForceQuota, TryQuota, counters
<1>2. CASE w = today
  <2>1. Retain(a, w, {x})
    BY DEF CountIn
  <2> QED
    BY <1>1, <1>2, <2>1, RetainToday DEF Accounted
<1>3. CASE w # today
  <2>1. Accounted(a, x)
    BY <1>1, <1>3 DEF Accounted
  <2> QED
    BY <2>1, AccountedStays DEF RequestStep, AdmissionStep
<1> QED
  BY <1>2, <1>3

\* The request that takes the step keeps its account of itself.
LEMMA OwnStep ==
  ASSUME TypeOK, ServiceInv, NEW r \in Requests, RequestStep(r)
  PROVE  CountedOnTheWay(r)'
<1> USE DEF TypeOK, GoTo, Choose, CallQuota
<1>0. CountedOnTheWay(r) /\ (pc[r] # "idle" => sess[r] \in Sessions)
  BY AdmissionAssumption DEF AdmissionAssumption, ServiceInv
<1>1. CASE Arrive(r)
  BY <1>1 DEF Arrive, CountedOnTheWay
<1>2. CASE FindBinding(r)
  BY <1>2 DEF FindBinding, CountedOnTheWay, cacheVars
<1>3. CASE ForceSession(r)
  <2>1. /\ pc'[r] = "forceQuota" /\ pc[r] = "force" /\ since'[r] = today /\ today' = today
        /\ sticky' = sticky /\ sess' = sess /\ chosen' = chosen
    BY <1>3 DEF ForceSession, counters
  <2>2. sticky[sess[r]] \in Accounts \cup {NoAccount}
    BY <1>0, <2>1
  <2>3. UNCHANGED <<sessions, day, strays, erased>>
    BY <1>3 DEF ForceSession, quotaVars, quotaHistory
  <2> QED
    BY <1>0, <2>1, <2>2, <2>3
    DEF CountedOnTheWay, BindingCounted, Accounted, SessionsToday, OfDay
<1>4. CASE ForceQuota(r)
  <2>1. /\ pc[r] = "forceQuota" /\ pc'[r] = "select" /\ sess' = sess /\ sticky' = sticky
        /\ sess[r] \in Sessions /\ chosen[r] \in Accounts
    BY <1>0, <1>4 DEF ForceQuota, Admitted
  <2>2. PICK a \in Accounts, b \in Accounts \cup {NoAccount}, x \in Sessions :
          a = chosen[r] /\ b = sticky[x] /\ x = sess[r]
    BY <2>1
  <2>3. PICK w \in ClockOf(r) : CountIn(a, x, w)
    BY <1>4, <2>2 DEF ForceQuota
  <2>4. Accounted(a, x)'
    BY <1>0, <1>4, <2>1, <2>2, <2>3, CountedNow DEF CountedOnTheWay
  <2>5. b = a \/ b = NoAccount \/ Accounted(b, x)
    BY <1>0, <2>1, <2>2 DEF CountedOnTheWay, BindingCounted
  <2>6. b = NoAccount \/ Accounted(b, x)'
    BY <2>4, <2>5, AccountedStays
  <2> QED
    BY <2>1, <2>2, <2>6
    DEF CountedOnTheWay, BindingCounted, Accounted, SessionsToday, OfDay
<1>5. CASE ListAccounts(r) \/ SessionsFull(r) \/ NextRound(r)
  BY <1>5 DEF ListAccounts, SessionsFull, NextRound, CountedOnTheWay
<1>6. CASE TrySession(r) \/ QuotaFull(r)
  BY <1>6 DEF TrySession, QuotaFull, CountedOnTheWay, counters
<1>7. CASE TryQuota(r)
  <2>1. /\ pc[r] = "quota" /\ pc'[r] = "bind" /\ sess' = sess /\ chosen' = chosen
        /\ sess[r] \in Sessions /\ chosen[r] \in Accounts
    BY <1>0, <1>7 DEF TryQuota
  <2>2. PICK a \in Accounts, x \in Sessions : a = chosen[r] /\ x = sess[r]
    BY <2>1
  <2>3. PICK w \in ClockOf(r) : CountIn(a, x, w)
    BY <1>7, <2>2 DEF TryQuota
  <2>4. Accounted(a, x)'
    BY <1>0, <1>7, <2>1, <2>2, <2>3, CountedNow DEF CountedOnTheWay
  <2> QED
    BY <2>1, <2>2, <2>4 DEF CountedOnTheWay, Accounted, SessionsToday, OfDay
<1>8. CASE Bind(r)
  <2>1. /\ pc[r] = "bind" /\ chosen[r] \in Accounts /\ sess[r] \in Sessions
        /\ pc'[r] = "select" /\ sess' = sess /\ sticky'[sess[r]] = chosen[r]
    BY <1>0, <1>8 DEF Bind, Admitted
  <2>2. UNCHANGED <<sessions, day, today, strays, erased>>
    BY <1>8 DEF Bind, quotaVars, counters, history, quotaHistory
  <2>3. Accounted(chosen[r], sess[r])
    BY <1>0, <2>1 DEF CountedOnTheWay
  <2> QED
    BY <2>1, <2>2, <2>3 DEF CountedOnTheWay, BindingCounted, Accounted, SessionsToday, OfDay
<1>9. CASE GiveUp(r) \/ Leave(r)
  BY <1>9 DEF GiveUp, Leave, End, CountedOnTheWay
<1>10. CASE /\ SelectBound(r) \/ SelectOther(r) \/ Failover(r) \/ PickNone(r)
            /\ pc'[r] # "idle"
  <2>1. /\ UNCHANGED <<sessions, day, today, strays, erased, sticky, sess>>
        /\ pc[r] \in {"select", "pick", "serving"}
        /\ pc'[r] \in {"serving", "select", "pick", "unbind"}
        /\ pc'[r] = "serving" =>
             chosen'[r] = sticky[sess[r]] /\ sticky[sess[r]] # NoAccount
    BY <1>10 DEF SelectBound, SelectOther, Failover, PickNone, End,
      cacheVars, quotaVars, counters, history, quotaHistory
  <2>2. BindingCounted(sess[r])
    BY <1>0, <2>1 DEF CountedOnTheWay
  <2>3. BindingCounted(sess[r])'
    BY <2>1, <2>2 DEF BindingCounted, Accounted, SessionsToday, OfDay
  <2>4. pc'[r] = "serving" => Accounted(chosen[r], sess[r])'
    BY <2>1, <2>2 DEF BindingCounted, Accounted, SessionsToday, OfDay
  <2> QED
    BY <2>1, <2>3, <2>4 DEF CountedOnTheWay, BindingCounted
<1>11. CASE PickNone(r) /\ pc'[r] = "idle"
  BY <1>11 DEF CountedOnTheWay
<1>12. CASE Unbind(r)
  BY <1>0, <1>12 DEF Unbind, CountedOnTheWay, BindingCounted
<1>13. CASE PickOther(r)
  <2>1. PICK a \in Accounts :
          /\ chosen' = [chosen EXCEPT ![r] = a] /\ pc' = [pc EXCEPT ![r] = "serving"]
          /\ sticky' = [sticky EXCEPT ![sess[r]] = a]
          /\ strays' = [strays EXCEPT ![a] = @ \cup ({sess[r]} \ SessionsToday(a))]
    BY <1>13 DEF PickOther, SessionsToday
  <2>2. sess[r] \in Sessions /\ UNCHANGED <<sessions, day, today, sess, erased>>
    BY <1>0, <1>13 DEF PickOther, quotaVars, counters
  <2>3. SessionsToday(a)' = SessionsToday(a)
    BY <2>2 DEF SessionsToday, OfDay
  <2>4. /\ sess[r] \in SessionsToday(a)' \cup strays'[a]
        /\ sticky'[sess[r]] = a /\ chosen'[r] = a /\ pc'[r] = "serving"
    BY <2>1, <2>2, <2>3
  <2> QED
    BY <2>2, <2>4 DEF CountedOnTheWay, BindingCounted, Accounted
<1> QED
  <2>1. \/ pc'[r] # "idle"
        \/ ~ (SelectBound(r) \/ SelectOther(r) \/ Failover(r))
    BY DEF SelectBound, SelectOther, Failover
  <2> QED
    BY <1>1, <1>2, <1>3, <1>4, <1>5, <1>6, <1>7, <1>8, <1>9, <1>10, <1>11, <1>12, <1>13,
       <2>1 DEF RequestStep, AdmissionStep, LoopStep

\* A step of another request does not disturb it.
LEMMA OthersStep ==
  ASSUME TypeOK, ServiceInv, NEW r \in Requests, RequestStep(r), NEW q \in Requests \ {r}
  PROVE  CountedOnTheWay(q)'
<1>1. /\ pc'[q] = pc[q] /\ sess'[q] = sess[q] /\ chosen'[q] = chosen[q]
      /\ since'[q] = since[q] /\ today' = today
  BY OthersWait
<1>2. CASE pc[q] = "idle"
  BY <1>1, <1>2 DEF CountedOnTheWay
<1>3. CASE pc[q] # "idle"
  <2>0. PICK s \in Sessions : s = sess[q]
    BY <1>3 DEF TypeOK
  <2> DEFINE held == {a \in Accounts : s \in SessionsToday(a) \cup strays[a] \cup erased[a]}
             holds == {a \in Accounts :
                         s \in SessionsToday(a)' \cup strays'[a] \cup erased'[a]}
             next == sticky'[s]
  <2>1. s \in Sessions
    OBVIOUS
  <2>2. held \subseteq holds
    <3>1. ASSUME NEW a \in Accounts, Accounted(a, s) PROVE a \in holds
      BY <2>1, <3>1, AccountedStays DEF Accounted
    <3> QED
      BY <3>1 DEF Accounted
  <2>3. sticky[s] \in Accounts \cup {NoAccount} /\ next \in Accounts \cup {NoAccount}
    <3>1. TypeOK'
      BY TypeStep DEF Next, RequestStep
    <3> QED
      BY <2>1, <3>1 DEF TypeOK
  <2>4. next = sticky[s] \/ next = NoAccount \/ next \in holds
    <3>1. next = sticky[s] \/ BindingCounted(s)'
      BY <2>1, BindingMoves
    <3>2. BindingCounted(s)' => next = NoAccount \/ next \in holds
      BY <1>1, <2>3 DEF BindingCounted, Accounted
    <3> QED
      BY <3>1, <3>2
  <2>5. pc[q] \in {"bind", "serving"} => chosen[q] \in Accounts
    BY DEF TypeOK
  <2>6. /\ pc[q] \in {"bind", "serving"} => chosen[q] \in held
        /\ pc[q] \in {"force", "forceQuota"} =>
             sticky[s] = chosen[q] \/ sticky[s] = NoAccount \/ sticky[s] \in held
        /\ pc[q] \in {"select", "unbind", "pick", "serving"} =>
             sticky[s] = NoAccount \/ sticky[s] \in held
        /\ pc[q] \in {"quota", "forceQuota"} /\ since[q] # today => Accounts \subseteq held
    BY <2>0, <2>3, <2>5 DEF ServiceInv, CountedOnTheWay, BindingCounted, Accounted
  <2>7. /\ pc[q] \in {"bind", "serving"} => chosen[q] \in holds
        /\ pc[q] \in {"force", "forceQuota"} =>
             next = chosen[q] \/ next = NoAccount \/ next \in holds
        /\ pc[q] \in {"select", "unbind", "pick", "serving"} =>
             next = NoAccount \/ next \in holds
        /\ pc[q] \in {"quota", "forceQuota"} /\ since[q] # today => Accounts \subseteq holds
    <3> HIDE DEF held, holds, next
    <3> QED
      BY <2>2, <2>4, <2>6
  <2> QED
    BY <1>1, <2>0, <2>7 DEF CountedOnTheWay, BindingCounted, Accounted, SessionsToday, OfDay
<1> QED
  BY <1>2, <1>3

(***************************************************************************)
(* An account that serves a session has an entry of today for it, unless   *)
(* select_account handed the session over without admission, midnight came *)
(* while one of its requests was under way, or a call from before midnight *)
(* dropped the entry.                                                      *)
(***************************************************************************)
THEOREM ServiceIsCounted == Spec => []ServiceCounted
<1>1. Init => ServiceInv
  BY DEF Init, ServiceInv, CountedOnTheWay
<1>2. ASSUME TypeOK, ServiceInv, [Next]_vars
      PROVE  ServiceInv'
  <2> SUFFICES ASSUME NEW q \in Requests
               PROVE  CountedOnTheWay(q)'
    BY DEF ServiceInv
  <2>1. CountedOnTheWay(q)
    BY <1>2 DEF ServiceInv
  <2>2. ASSUME NEW r \in Requests, RequestStep(r)
        PROVE  CountedOnTheWay(q)'
    BY <1>2, <2>2, OwnStep, OthersStep
  <2>3. CASE /\ UNCHANGED <<requestVars, sessions, day, today, strays, erased>>
             /\ \/ UNCHANGED sticky
                \/ \E s \in Sessions : sticky' = [sticky EXCEPT ![s] = NoAccount]
    <3>1. pc' = pc /\ sess' = sess /\ chosen' = chosen /\ since' = since /\ today' = today
          /\ \A a : SessionsToday(a)' = SessionsToday(a)
          /\ strays' = strays /\ erased' = erased
      BY <2>3 DEF requestVars, SessionsToday, OfDay
    <3>2. CASE pc[q] = "idle"
      BY <3>1, <3>2 DEF CountedOnTheWay
    <3>3. CASE pc[q] # "idle"
      <4>1. sess[q] \in Sessions
        BY <1>2, <3>3 DEF TypeOK
      <4>2. sticky'[sess[q]] \in {sticky[sess[q]], NoAccount}
        BY <1>2, <2>3, <4>1 DEF TypeOK
      <4> QED
        BY <2>1, <3>1, <4>2 DEF CountedOnTheWay, BindingCounted, Accounted
    <3> QED
      BY <3>2, <3>3
  <2>4. CASE NewDay
    <3>1. pc' = pc /\ sess' = sess /\ chosen' = chosen /\ sticky' = sticky
          /\ strays' = [a \in Accounts |-> Underway]
      BY <2>4 DEF NewDay, requestVars, cacheVars
    <3>2. CASE pc[q] = "idle"
      BY <3>1, <3>2 DEF CountedOnTheWay
    <3>3. CASE pc[q] # "idle"
      <4>1. sess[q] \in Sessions /\ sess[q] \in Underway
        BY <1>2, <3>3, AdmissionAssumption DEF AdmissionAssumption, TypeOK, Underway
      <4>2. sticky[sess[q]] \in Accounts \cup {NoAccount}
        BY <1>2, <4>1 DEF TypeOK
      <4>3. pc[q] \in {"bind", "serving"} => chosen[q] \in Accounts
        BY <1>2 DEF TypeOK
      <4>4. \A a \in Accounts : sess[q] \in strays'[a]
        BY <3>1, <4>1
      <4> QED
        BY <3>1, <4>1, <4>2, <4>3, <4>4 DEF CountedOnTheWay, BindingCounted, Accounted
    <3> QED
      BY <3>2, <3>3
  <2>5. \/ \E r \in Requests : RequestStep(r)
        \/ NewDay
        \/ /\ UNCHANGED <<requestVars, sessions, day, today, strays, erased>>
           /\ \/ UNCHANGED sticky
              \/ \E s \in Sessions : sticky' = [sticky EXCEPT ![s] = NoAccount]
    BY <1>2 DEF Next, TimeStep, RequestStep, SessionIdles, BindingExpires, vars,
      cacheVars, quotaVars, counters, history, quotaHistory
  <2> QED
    BY <2>2, <2>3, <2>4, <2>5
<1>3. ServiceInv => ServiceCounted
  BY DEF ServiceInv, CountedOnTheWay, Accounted, SessionsToday, ServiceCounted
<1> QED
  BY <1>1, <1>2, <1>3, TypeCorrect, PTL DEF Spec
-------------------------------------------------------------------------------
\* The candidate that is asked for its quota is one of those that are left.
Listed == \A r \in Requests : pc[r] = "quota" => chosen[r] \in left[r]

\* A set that loses a member is smaller by one.
LEMMA OneLess ==
  ASSUME NEW S, IsFiniteSet(S), NEW x \in S
  PROVE  Cardinality(S \ {x}) = Cardinality(S) - 1
  BY FS_RemoveElement

LEMMA ListedStep ==
  ASSUME TypeOK, Listed, [Next]_vars
  PROVE  Listed'
<1> SUFFICES ASSUME NEW q \in Requests, pc'[q] = "quota"
             PROVE  chosen'[q] \in left'[q]
  BY DEF Listed
<1>1. CASE RequestStep(q)
  <2>1. CASE TrySession(q)
    BY <2>1 DEF TrySession, TypeOK
  <2>2. pc'[q] # "quota" \/ TrySession(q)
    BY <1>1 DEF RequestStep, AdmissionStep, LoopStep, Arrive, FindBinding, ForceSession,
      ForceQuota, ListAccounts, SessionsFull, TryQuota, QuotaFull, Bind, NextRound,
      GiveUp, SelectBound, SelectOther, Unbind, PickOther, PickNone, Failover, Leave,
      End, Admitted, GoTo, CallQuota, Choose, TypeOK
  <2> QED
    BY <2>1, <2>2
<1>2. ASSUME NEW r \in Requests \ {q}, RequestStep(r) PROVE chosen'[q] \in left'[q]
  BY <1>2, OthersWait DEF Listed
<1>3. CASE UNCHANGED requestVars
  BY <1>3 DEF requestVars, Listed
<1> QED
  BY <1>1, <1>2, <1>3 DEF Next, RequestStep, TimeStep, SessionIdles, BindingExpires,
    NewDay, vars

(***************************************************************************)
(* Admission comes to an end: each step of a request in admit_session ends *)
(* it, shortens its round or starts one of the few rounds that are left,   *)
(* whatever the other requests and the clock do.                           *)
(***************************************************************************)
THEOREM AdmissionShrinks == Spec => AdmissionFalls
<1> DEFINE Falls(r) ==
             Admitting(r) /\ RequestState(r)' # RequestState(r) =>
               \/ pc'[r] \in {"idle", "select"}
               \/ rounds'[r] \in rounds[r] + 1 .. MaxRounds - 1
               \/ Admitting(r)' /\ rounds'[r] = rounds[r] /\ RestOfRound(r)' < RestOfRound(r)
           Fall == \A r \in Requests : Falls(r)
<1>1. ASSUME TypeOK, Listed, [Next]_vars
      PROVE  Fall
  <2> SUFFICES ASSUME NEW q \in Requests, Admitting(q),
                      RequestState(q)' # RequestState(q)
               PROVE  Falls(q)
    OBVIOUS
  <2>1. RequestStep(q)
    <3>1. ASSUME NEW r \in Requests, RequestStep(r), r # q PROVE FALSE
      BY <1>1, <3>1, OthersWait DEF RequestState
    <3>2. UNCHANGED requestVars => FALSE
      BY DEF requestVars, RequestState
    <3> QED
      BY <1>1, <3>1, <3>2 DEF Next, RequestStep, TimeStep, SessionIdles, BindingExpires,
        NewDay, vars
  <2>2. /\ left[q] \in SUBSET Accounts /\ left'[q] \in SUBSET Accounts
        /\ rounds[q] \in 0 .. MaxRounds - 1 /\ MaxRounds \in Nat
    <3>1. TypeOK'
      BY <1>1, TypeStep
    <3> QED
      BY <1>1, <3>1, AdmissionAssumption DEF TypeOK, AdmissionAssumption
  <2> DEFINE n == Cardinality(left[q])
             m == Cardinality(left'[q])
             all == Cardinality(Accounts)
  <2>3. n \in 0 .. all /\ m \in 0 .. all /\ all \in Nat
    <3>1. IsFiniteSet(Accounts)
      BY AdmissionAssumption DEF AdmissionAssumption
    <3> QED
      BY <2>2, <3>1, FS_Subset, FS_CardinalityType
  <2>4. /\ pc[q] = "admit" => RestOfRound(q) = 2 * all + 3
        /\ pc[q] = "try" => RestOfRound(q) = 2 * n + 2
        /\ pc[q] = "quota" => RestOfRound(q) = 2 * n + 1
        /\ pc[q] = "force" => RestOfRound(q) = 2
    BY DEF RestOfRound
  <2>5. /\ pc'[q] = "try" => RestOfRound(q)' = 2 * m + 2
        /\ pc'[q] = "quota" => RestOfRound(q)' = 2 * m + 1
        /\ pc'[q] = "force" => RestOfRound(q)' = 2
        /\ pc'[q] \in {"forceQuota", "bind"} => RestOfRound(q)' = 1
    BY DEF RestOfRound
  <2>6. pc'[q] \in {"admit", "force", "forceQuota", "try", "quota", "bind"} => Admitting(q)'
    BY DEF Admitting
  <2> HIDE DEF n, m, all
  <2> USE <1>1 DEF TypeOK, GoTo, CallQuota
  <2>7. CASE FindBinding(q)
    <3>1. pc[q] = "admit" /\ pc'[q] = "force" /\ rounds' = rounds
      BY <2>7 DEF FindBinding
    <3> QED
      BY <2>3, <2>4, <2>5, <2>6, <3>1
  <2>8. CASE ForceSession(q)
    <3>1. pc[q] = "force" /\ pc'[q] = "forceQuota" /\ rounds' = rounds
      BY <2>8 DEF ForceSession
    <3> QED
      BY <2>4, <2>5, <2>6, <3>1
  <2>9. CASE ForceQuota(q) \/ Bind(q) \/ GiveUp(q) \/ Leave(q)
    BY <2>9 DEF ForceQuota, Bind, GiveUp, Leave, Admitted, End
  <2>10. CASE ListAccounts(q)
    <3>1. pc[q] = "admit" /\ pc'[q] = "try" /\ rounds' = rounds
      BY <2>10 DEF ListAccounts
    <3> QED
      BY <2>3, <2>4, <2>5, <2>6, <3>1
  <2>11. CASE TrySession(q)
    <3>1. pc[q] = "try" /\ pc'[q] = "quota" /\ rounds' = rounds /\ left' = left
      BY <2>11 DEF TrySession
    <3>2. m = n
      BY <3>1 DEF m, n
    <3> QED
      BY <2>3, <2>4, <2>5, <2>6, <3>1, <3>2
  <2>12. CASE SessionsFull(q)
    <3>1. PICK a \in left[q] : left' = [left EXCEPT ![q] = @ \ {a}]
      BY <2>12 DEF SessionsFull
    <3>2. pc[q] = "try" /\ pc'[q] = "try" /\ rounds' = rounds
      BY <2>12 DEF SessionsFull
    <3>3. m = n - 1
      <4>1. left'[q] = left[q] \ {a} /\ IsFiniteSet(left[q])
        BY <2>2, <3>1, AdmissionAssumption, FS_Subset DEF AdmissionAssumption
      <4>2. Cardinality(left[q] \ {a}) = Cardinality(left[q]) - 1
        BY <4>1, OneLess
      <4> QED
        BY <4>1, <4>2 DEF m, n
    <3> QED
      BY <2>3, <2>4, <2>5, <2>6, <3>2, <3>3
  <2>13. CASE TryQuota(q)
    <3>1. pc[q] = "quota" /\ pc'[q] = "bind" /\ rounds' = rounds
      BY <2>13 DEF TryQuota
    <3>2. 1 < 2 * n + 1
      <4>1. left[q] # {} /\ IsFiniteSet(left[q])
        BY <2>2, <3>1, AdmissionAssumption, FS_Subset DEF AdmissionAssumption, Listed
      <4>2. n # 0
        BY <4>1, FS_EmptySet DEF n
      <4> QED
        BY <2>3, <4>2
    <3> QED
      BY <2>3, <2>4, <2>5, <2>6, <3>1, <3>2
  <2>14. CASE QuotaFull(q)
    <3>1. pc[q] = "quota" /\ pc'[q] = "try" /\ rounds' = rounds
          /\ left'[q] = left[q] \ {chosen[q]}
      BY <2>14 DEF QuotaFull
    <3>2. m = n - 1
      <4>0. PICK a \in left[q] : a = chosen[q]
        BY <3>1 DEF Listed
      <4>1. left'[q] = left[q] \ {a} /\ IsFiniteSet(left[q])
        BY <2>2, <3>1, <4>0, AdmissionAssumption, FS_Subset DEF AdmissionAssumption
      <4>2. Cardinality(left[q] \ {a}) = Cardinality(left[q]) - 1
        BY <4>1, OneLess
      <4> QED
        BY <4>1, <4>2 DEF m, n
    <3> QED
      BY <2>3, <2>4, <2>5, <2>6, <3>1, <3>2
  <2>15. CASE NextRound(q)
    <3>1. rounds'[q] = rounds[q] + 1 /\ rounds[q] + 1 < MaxRounds
      BY <2>15 DEF NextRound
    <3> QED
      BY <2>2, <3>1
  <2>16. ~ Arrive(q) /\ ~ LoopStep(q)
    BY DEF Admitting, Arrive, LoopStep, SelectBound, SelectOther, Unbind, PickOther,
      PickNone, Failover
  <2> QED
    BY <2>1, <2>7, <2>8, <2>9, <2>10, <2>11, <2>12, <2>13, <2>14, <2>15, <2>16
    DEF RequestStep, AdmissionStep
<1>2. Init => Listed
  BY DEF Init, Listed
<1>3. ASSUME TypeOK, Listed, [Next]_vars PROVE Listed'
  BY <1>3, ListedStep
<1> HIDE DEF Fall
<1>4. Spec => [][Fall]_vars
  BY <1>1, <1>2, <1>3, TypeCorrect, PTL DEF Spec
<1>5. Spec => [][\A r \in Requests : Falls(r)]_vars
  BY <1>4 DEF Fall
<1> QED
  BY <1>5, PTL DEF AdmissionFalls
===============================================================================
