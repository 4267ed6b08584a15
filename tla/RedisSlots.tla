------------------------------- MODULE RedisSlots -------------------------------
(***************************************************************************)
(* One concurrency counter kept in Redis (RedisStore::acquire_slot,        *)
(* release_slot in store/redis.rs), as the gateway uses it.  MemoryStore   *)
(* takes a slot in one step (MemorySlots); here it is up to three commands *)
(* of a client that may be dropped, or lose its connection, between any    *)
(* two: INCR, EXPIRE if the count became 1, DECR if it went over the       *)
(* limit.  The key has a time to live of 300 s that nobody renews, so it   *)
(* may run out under the calls it counts; their DECRs then hit the next    *)
(* life of the key, or a key that is not there, which DECR creates at -1   *)
(* and without a time to live.                                             *)
(***************************************************************************)
EXTENDS Integers, FiniteSets

CONSTANTS
  Callers,       \* the requests that want a slot of this account or token
  SlotLimit,     \* its limit
  MaxExpiries,   \* bound: lives of the key that run out
  MaxFaults      \* bound: commands, answers and futures lost, restarts

ASSUME RedisSlotsAssumption ==
  /\ IsFiniteSet(Callers)
  /\ SlotLimit \in Nat
  /\ MaxExpiries \in Nat
  /\ MaxFaults \in Nat

VARIABLES
  key,        \* the key: is it there, its count, does it have a time to live
  at,         \* at[c]: what caller c is about to do
  owed,       \* spawned releases of increments the key counts (fresh) or not (stale)
  stale,      \* history: callers whose increment an expiry has forgotten
  lost,       \* history: increments in the count that nobody will take back
  extra,      \* history: decrements of this life of the key without an increment in it
  torn,       \* history: this life of the key missed its EXPIRE
  expiries, faults   \* count the expiries and faults, up to their bounds

slotVars == <<key, at, owed, stale, lost, extra, torn, expiries, faults>>

(***************************************************************************)
(* "expire"  INCR returned 1: the key is to get its time to live           *)
(* "decr"    INCR returned more than the limit: it is to be taken back     *)
(* "held"    acquire_slot returned true; a scope guard has the slot        *)
(***************************************************************************)
SlotPhases == {"idle", "expire", "decr", "held"}

NoKey == [there |-> FALSE, n |-> 0, ttl |-> FALSE]

SlotsInit ==
  /\ key = NoKey
  /\ at = [c \in Callers |-> "idle"]
  /\ owed = [fresh |-> 0, stale |-> 0]
  /\ stale = {}
  /\ lost = 0
  /\ extra = 0
  /\ torn = FALSE
  /\ expiries = 0
  /\ faults = 0

Fault == faults < MaxFaults /\ faults' = faults + 1

Counted(by) == key' = [key EXCEPT !.there = TRUE, !.n = @ + by]

Moves(c, place) == at' = [at EXCEPT ![c] = place]

\* Caller c has no increment any more.
Rests(c) == Moves(c, "idle") /\ stale' = stale \ {c}

\* Fault: the count before the increment is compared with the limit.
GrantedOverLimit(n) == IF n > SlotLimit + 1 THEN "decr" ELSE "held"

\* acquire_slot after its EXPIRE, on the count n that INCR returned.
Granted(n) == IF n > SlotLimit THEN "decr" ELSE "held"
-------------------------------------------------------------------------------
\* Fault: the time to live is given with the last slot instead of the first.
IncrExpiresLast(c) ==
  /\ at[c] = "idle"
  /\ Counted(1)
  /\ Moves(c, IF key.n + 1 = SlotLimit + 1 THEN "expire" ELSE Granted(key.n + 1))
  /\ UNCHANGED <<owed, stale, lost, extra, torn, expiries, faults>>

Incr(c) ==
  /\ at[c] = "idle"
  /\ Counted(1)
  /\ Moves(c, IF key.n + 1 = 1 THEN "expire" ELSE Granted(key.n + 1))
  /\ UNCHANGED <<owed, stale, lost, extra, torn, expiries, faults>>

\* Redis counts, but the answer, or the caller, is gone: an error or nobody to act
\* on it.  If it was the first, the key lives without end.
IncrLost(c) ==
  /\ at[c] = "idle"
  /\ Fault
  /\ Counted(1)
  /\ lost' = lost + 1
  /\ torn' = (torn \/ key.n + 1 = 1)
  /\ UNCHANGED <<at, owed, stale, extra, expiries>>

\* EXPIRE does nothing to a key that is not there.
Expire(c) ==
  /\ at[c] = "expire"
  /\ key' = [key EXCEPT !.ttl = key.there]
  /\ torn' = (torn /\ ~ key.there)
  /\ Moves(c, Granted(1))
  /\ UNCHANGED <<owed, stale, lost, extra, expiries, faults>>

\* The error of EXPIRE is ignored.
ExpireFails(c) ==
  /\ at[c] = "expire"
  /\ Fault
  /\ torn' = TRUE
  /\ Moves(c, Granted(1))
  /\ UNCHANGED <<key, owed, stale, lost, extra, expiries>>

\* Takes one off the count: an increment of this life of the key, or of another.
Uncount(fresh) ==
  /\ Counted(-1)
  /\ extra' = IF fresh THEN extra ELSE extra + 1

Decr(c) ==
  /\ at[c] = "decr"
  /\ Uncount(c \notin stale)
  /\ Rests(c)
  /\ UNCHANGED <<owed, lost, torn, expiries, faults>>

\* The caller is dropped before EXPIRE or DECR, or DECR fails.
Abandon(c) ==
  /\ at[c] \in {"expire", "decr"}
  /\ Fault
  /\ lost' = IF c \in stale THEN lost ELSE lost + 1
  /\ torn' = (torn \/ at[c] = "expire")
  /\ Rests(c)
  /\ UNCHANGED <<key, owed, extra, expiries>>

\* The guard drops and spawns the release, or the request awaits it itself.
Leave(c) ==
  /\ at[c] = "held"
  /\ owed' = IF c \in stale THEN [owed EXCEPT !.stale = @ + 1]
                            ELSE [owed EXCEPT !.fresh = @ + 1]
  /\ Rests(c)
  /\ UNCHANGED <<key, lost, extra, torn, expiries, faults>>

\* release_slot: one DECR, whatever the count.
ReleaseFresh ==
  /\ owed.fresh > 0
  /\ owed' = [owed EXCEPT !.fresh = @ - 1]
  /\ Uncount(TRUE)
  /\ UNCHANGED <<at, stale, lost, torn, expiries, faults>>

ReleaseStale ==
  /\ owed.stale > 0
  /\ owed' = [owed EXCEPT !.stale = @ - 1]
  /\ Uncount(FALSE)
  /\ UNCHANGED <<at, stale, lost, torn, expiries, faults>>

\* Its error is dropped.  Of a stale release nothing is lost.
ReleaseFails ==
  /\ owed.fresh > 0
  /\ Fault
  /\ owed' = [owed EXCEPT !.fresh = @ - 1]
  /\ lost' = lost + 1
  /\ UNCHANGED <<key, at, stale, extra, torn, expiries>>

\* 300 s after the count became 1: whatever it counted is forgotten.
KeyExpires ==
  /\ key.ttl
  /\ expiries < MaxExpiries
  /\ expiries' = expiries + 1
  /\ key' = NoKey
  /\ stale' = {c \in Callers : at[c] # "idle"}
  /\ owed' = [fresh |-> 0, stale |-> owed.stale + owed.fresh]
  /\ lost' = 0
  /\ extra' = 0
  /\ torn' = FALSE
  /\ UNCHANGED <<at, faults>>

\* The gateway stops and starts again; Redis keeps what it counted.
Restart ==
  /\ Fault
  /\ at' = [c \in Callers |-> "idle"]
  /\ stale' = {}
  /\ owed' = [fresh |-> 0, stale |-> 0]
  /\ lost' = lost + owed.fresh + Cardinality({c \in Callers : at[c] # "idle"} \ stale)
  /\ torn' = (torn \/ \E c \in Callers : at[c] = "expire")
  /\ UNCHANGED <<key, extra, expiries>>

SlotStep(c) ==
  \/ Incr(c) \/ IncrLost(c) \/ Expire(c) \/ ExpireFails(c)
  \/ Decr(c) \/ Abandon(c) \/ Leave(c)

SlotsNext ==
  \/ \E c \in Callers : SlotStep(c)
  \/ ReleaseFresh \/ ReleaseStale \/ ReleaseFails
  \/ KeyExpires \/ Restart

SlotsSpec == SlotsInit /\ [][SlotsNext]_slotVars
-------------------------------------------------------------------------------
SlotsTypeOK ==
  /\ key \in [there : BOOLEAN, n : Int, ttl : BOOLEAN]
  /\ at \in [Callers -> SlotPhases]
  /\ owed \in [fresh : Nat, stale : Nat]
  /\ stale \in SUBSET Callers
  /\ \A c \in stale : at[c] # "idle"
  /\ lost \in Nat
  /\ extra \in Nat
  /\ torn \in BOOLEAN
  /\ expiries \in 0 .. MaxExpiries
  /\ faults \in 0 .. MaxFaults

Holding == {c \in Callers : at[c] = "held"}

(***************************************************************************)
(* As long as no key expires and the gateway is not restarted, the counter *)
(* implements the abstract limit, as that of MemoryStore does: whatever    *)
(* commands are lost, a caller is told that it has the slot only while     *)
(* fewer than SlotLimit have it.                                           *)
(***************************************************************************)
SlotCalls == [k \in {"key"} |-> Holding]

RedisLimit == INSTANCE BoundedConcurrency
                WITH Requests <- Callers, Resources <- {"key"},
                     Max <- [k \in {"key"} |-> SlotLimit], inflight <- SlotCalls

SlotsImplemented == RedisLimit!Spec

\* The callers whose increment this life of the key counts.
Fresh == {c \in Callers : at[c] # "idle"} \ stale

\* The count is what its life owes: the callers, the releases on their way and the
\* increments lost, less the decrements that belonged to an earlier life.
CountExplained ==
  key.n = Cardinality(Fresh) + owed.fresh + lost - extra

\* The limit is exceeded only by what an expiry under running calls lets in: the
\* calls it forgot, and one more for each of their decrements that came after.
\* As long as no key expires under a call, acquire_slot keeps the limit, however its
\* commands interleave and whatever is lost on the way.
SlotsBounded ==
  Cardinality(Holding) <= SlotLimit + Cardinality(Holding \cap stale) + extra

\* A count above zero does not live for ever, and so neither do the slots that were
\* lost: the key has its time to live, or a caller is about to give it one, unless
\* an EXPIRE of acquire_slot was lost, which nothing repairs.
KeyMortal ==
  key.n > 0 /\ ~ key.ttl => torn \/ \E c \in Callers : at[c] = "expire"
===============================================================================
