----------------------------- MODULE RedisAdmission -----------------------------
(***************************************************************************)
(* Admission of sessions and devices to one account with the Redis cache   *)
(* (RedisStore::session_admit, account_quota_admit in store/redis.rs).     *)
(* The same two operations of MemoryStore are one step each under a mutex  *)
(* (SessionAdmission); here each is a series of commands on a clone of the *)
(* connection: is the id a member, how many members are there, add it.     *)
(* Calls interleave between the commands, every command may fail, and a    *)
(* failed question counts as an answer that lets the id in.                *)
(***************************************************************************)
EXTENDS Integers, FiniteSets

CONSTANTS
  Calls,        \* calls of the two operations that may run at one time
  Sessions, Devices,
  NoId,         \* no device id in the request; no argument
  IdLimit,      \* the live sessions, devices and sessions of a day; 0 = any
  MaxTurns,     \* bound: sessions that idle and midnights
  MaxMisses     \* bound: commands that fail

(***************************************************************************)
(* The three sets of an account: "live" is the sorted set of session_admit,*)
(* "devices" and "sessions" are the sets of the day of account_quota_admit.*)
(***************************************************************************)
Kinds == {"live", "devices", "sessions"}
OfTheDay == {"devices", "sessions"}

Ids == Sessions \cup Devices

ASSUME RedisAdmissionAssumption ==
  /\ IsFiniteSet(Calls)
  /\ IsFiniteSet(Ids)
  /\ NoId \notin Ids
  /\ IdLimit \in [Kinds -> Nat]
  /\ MaxTurns \in Nat
  /\ MaxMisses \in Nat

VARIABLES
  members,     \* members[k]: the ids in the set k
  aged,        \* live sessions that have not been seen for SESSION_TTL
  call,        \* call[c]: the locals of a call
  turns, misses,   \* count idling sessions, midnights and failures, up to their bounds
  unchecked    \* history: unchecked[k]: members let in without a look at the limit

admissionVars == <<members, aged, call, turns, misses, unchecked>>

(***************************************************************************)
(* step: "trim" (drop the sessions of too long ago), "look" (is the id a   *)
(* member), "count" (how many there are), "add".  kind: the set it is      *)
(* about.  free: the sets that let the id in without a test (history).     *)
(***************************************************************************)
Resting == [step |-> "idle", kind |-> "live", session |-> NoId, device |-> NoId,
            force |-> FALSE, free |-> {}]

AdmissionInit ==
  /\ members = [k \in Kinds |-> {}]
  /\ aged = {}
  /\ call = [c \in Calls |-> Resting]
  /\ turns = 0
  /\ misses = 0
  /\ unchecked = [k \in Kinds |-> {}]

Turn == turns < MaxTurns /\ turns' = turns + 1
Miss == misses < MaxMisses /\ misses' = misses + 1

IdOf(c, k) == IF k = "devices" THEN call[c].device ELSE call[c].session

\* The test asks nothing: a bound session, no id, no limit.
Waived(c, k) == call[c].force \/ IdOf(c, k) = NoId \/ IdLimit[k] = 0

\* Where a call goes once set k has let its id in: the other set of the day, or "add".
Onward(c, k) ==
  IF k = "devices"
    THEN [call[c] EXCEPT !.step = "look", !.kind = "sessions"]
    ELSE [call[c] EXCEPT !.step = "add",
                         !.kind = IF k = "sessions" THEN "devices" ELSE k]

Pass(c, k) == call' = [call EXCEPT ![c] = Onward(c, k)]

PassFree(c, k) ==
  call' = [call EXCEPT ![c] = [Onward(c, k) EXCEPT !.free = @ \cup {k}]]

Done(c) == call' = [call EXCEPT ![c] = Resting]
-------------------------------------------------------------------------------
\* session_admit is called.
StartSession(c) ==
  /\ call[c].step = "idle"
  /\ \E s \in Sessions, f \in BOOLEAN :
       call' = [call EXCEPT ![c] = [Resting EXCEPT !.step = "trim",
                                                  !.session = s, !.force = f]]
  /\ UNCHANGED <<members, aged, turns, misses, unchecked>>

\* account_quota_admit is called.
StartQuota(c) ==
  /\ call[c].step = "idle"
  /\ \E s \in Sessions, d \in Devices \cup {NoId}, f \in BOOLEAN :
       call' = [call EXCEPT ![c] =
                  [Resting EXCEPT !.step = "look", !.kind = "devices",
                                  !.session = s, !.device = d, !.force = f]]
  /\ UNCHANGED <<members, aged, turns, misses, unchecked>>

\* ZREMRANGEBYSCORE.
Trim(c) ==
  /\ call[c].step = "trim"
  /\ members' = [members EXCEPT !["live"] = @ \ aged]
  /\ unchecked' = [unchecked EXCEPT !["live"] = @ \ aged]
  /\ aged' = {}
  /\ call' = [call EXCEPT ![c].step = "look"]
  /\ UNCHANGED <<turns, misses>>

TrimFails(c) ==
  /\ call[c].step = "trim"
  /\ Miss
  /\ call' = [call EXCEPT ![c].step = "look"]
  /\ UNCHANGED <<members, aged, turns, unchecked>>

Waive(c) ==
  /\ call[c].step = "look"
  /\ Waived(c, call[c].kind)
  /\ PassFree(c, call[c].kind)
  /\ UNCHANGED <<members, aged, turns, misses, unchecked>>

\* ZSCORE or SISMEMBER finds the id: it passes as whatever it is there.
Found(c) ==
  LET k == call[c].kind IN
  /\ call[c].step = "look"
  /\ ~ Waived(c, k)
  /\ IdOf(c, k) \in members[k]
  /\ IF IdOf(c, k) \in unchecked[k] THEN PassFree(c, k) ELSE Pass(c, k)
  /\ UNCHANGED <<members, aged, turns, misses, unchecked>>

NotFound(c) ==
  /\ call[c].step = "look"
  /\ ~ Waived(c, call[c].kind)
  /\ IdOf(c, call[c].kind) \notin members[call[c].kind]
  /\ call' = [call EXCEPT ![c].step = "count"]
  /\ UNCHANGED <<members, aged, turns, misses, unchecked>>

\* A question about membership that fails: not a member.
LookFails(c) ==
  /\ call[c].step = "look"
  /\ ~ Waived(c, call[c].kind)
  /\ Miss
  /\ call' = [call EXCEPT ![c].step = "count"]
  /\ UNCHANGED <<members, aged, turns, unchecked>>

\* Fault: off by one.
BelowLimit(k) == Cardinality(members[k]) <= IdLimit[k]

HasPlace(k) == Cardinality(members[k]) < IdLimit[k]

\* ZCARD or SCARD: a place is free ...
CountFree(c) ==
  /\ call[c].step = "count"
  /\ HasPlace(call[c].kind)
  /\ Pass(c, call[c].kind)
  /\ UNCHANGED <<members, aged, turns, misses, unchecked>>

\* ... or the set is full: false, and nothing is added (what a quota still asks
\* about the sessions makes no difference any more).
CountFull(c) ==
  /\ call[c].step = "count"
  /\ ~ HasPlace(call[c].kind)
  /\ Done(c)
  /\ UNCHANGED <<members, aged, turns, misses, unchecked>>

\* A count that fails is zero.
CountFails(c) ==
  /\ call[c].step = "count"
  /\ Miss
  /\ PassFree(c, call[c].kind)
  /\ UNCHANGED <<members, aged, turns, unchecked>>

\* After an "add": the sessions follow the devices, then true is returned.
AfterAdd(c) ==
  IF call[c].kind = "devices"
    THEN call' = [call EXCEPT ![c].kind = "sessions"]
    ELSE Done(c)

\* ZADD (which also makes the session new again) or SADD.
Add(c) ==
  LET k == call[c].kind
      new == {IdOf(c, k)} \ {NoId}
  IN
  /\ call[c].step = "add"
  /\ members' = [members EXCEPT ![k] = @ \cup new]
  /\ aged' = IF k = "live" THEN aged \ new ELSE aged
  /\ unchecked' = IF k \in call[c].free THEN [unchecked EXCEPT ![k] = @ \cup new]
                                        ELSE unchecked
  /\ AfterAdd(c)
  /\ UNCHANGED <<turns, misses>>

\* The error is dropped: admitted, but not counted.
AddFails(c) ==
  /\ call[c].step = "add"
  /\ Miss
  /\ AfterAdd(c)
  /\ UNCHANGED <<members, aged, turns, unchecked>>

\* The request is dropped at any of the awaits.
Dropped(c) ==
  /\ call[c].step # "idle"
  /\ Done(c)
  /\ UNCHANGED <<members, aged, turns, misses, unchecked>>

\* SESSION_TTL passes without a request of s.
SessionAges(s) ==
  /\ Turn
  /\ s \in members["live"] \ aged
  /\ aged' = aged \cup {s}
  /\ UNCHANGED <<members, call, misses, unchecked>>

\* Midnight in Beijing: other keys from now on.  A call that has begun computed its
\* keys before, so all that is left of it is about sets nobody reads again.
Midnight ==
  /\ Turn
  /\ members' = [k \in Kinds |-> IF k \in OfTheDay THEN {} ELSE members[k]]
  /\ unchecked' = [k \in Kinds |-> IF k \in OfTheDay THEN {} ELSE unchecked[k]]
  /\ call' = [c \in Calls |-> IF call[c].kind \in OfTheDay THEN Resting ELSE call[c]]
  /\ UNCHANGED <<aged, misses>>

CallStep(c) ==
  \/ StartSession(c) \/ StartQuota(c)
  \/ Trim(c) \/ TrimFails(c)
  \/ Waive(c) \/ Found(c) \/ NotFound(c) \/ LookFails(c)
  \/ CountFree(c) \/ CountFull(c) \/ CountFails(c)
  \/ Add(c) \/ AddFails(c) \/ Dropped(c)

AdmissionNext ==
  \/ \E c \in Calls : CallStep(c)
  \/ \E s \in Sessions : SessionAges(s)
  \/ Midnight

AdmissionSpec == AdmissionInit /\ [][AdmissionNext]_admissionVars
-------------------------------------------------------------------------------
CallType ==
  [step : {"idle", "trim", "look", "count", "add"}, kind : Kinds,
   session : Sessions \cup {NoId}, device : Devices \cup {NoId}, force : BOOLEAN,
   free : SUBSET Kinds]

AdmissionTypeOK ==
  /\ members \in [Kinds -> SUBSET Ids]
  /\ aged \in SUBSET members["live"]
  /\ call \in [Calls -> CallType]
  /\ turns \in 0 .. MaxTurns
  /\ misses \in 0 .. MaxMisses
  /\ unchecked \in [Kinds -> SUBSET Ids]

\* Ids that were admitted after a look at the limit.
Checked(k) == members[k] \ unchecked[k]

\* What the series of commands still guarantees: of the ids that were tested, a set
\* never holds more than its limit and one for each other call that can run at the
\* same time, however many requests come, commands fail or members age.
AdmissionsRaced ==
  \A k \in Kinds :
    IdLimit[k] > 0 => Cardinality(Checked(k)) < IdLimit[k] + Cardinality(Calls)
===============================================================================
