-------------------------------- MODULE RpmWindow --------------------------------
(***************************************************************************)
(* The requests-per-minute limit of one account (reserve_rpm and rpm_key   *)
(* of the caches, and their use in handle_request_inner).  The key holds   *)
(* the minute, read before the lock is taken or the script is sent.  A     *)
(* place in the minute is reserved before the concurrency slot and the     *)
(* account's token are asked for, the client may leave at each of these    *)
(* awaits, and nobody gives the place back.                                *)
(***************************************************************************)
EXTENDS Naturals, FiniteSets

CONSTANTS
  Clients,        \* requests that have chosen this account
  RpmLimits,      \* the values its limit may be given, 0 = none
  LastMinute,     \* bound: minutes of the run
  MaxRequests,    \* bound: requests of the run
  MaxOutages      \* bound: calls of the cache that fail

\* The limits are of a bounded integer type: one of them is the highest.
ASSUME RpmAssumption ==
  /\ IsFiniteSet(Clients)
  /\ RpmLimits \subseteq Nat
  /\ \E n \in RpmLimits : \A k \in RpmLimits : k <= n
  /\ LastMinute \in Nat
  /\ MaxRequests \in Nat
  /\ MaxOutages \in Nat

VARIABLES
  minute,     \* the minute of the clock
  limit,      \* rpm_limit of the account, as the requests read it
  count,      \* count[m]: the counter of minute m
  client,     \* what a request is about to do, the minute it has read, its limit
  served,     \* history: served[m]: requests of key m that went upstream
  wasted,     \* history: wasted[m]: places of key m whose request never went upstream
  free,       \* history: has a limit of 0 been in force?
  requests, outages   \* count the requests and the outages, up to their bounds

rpmVars == <<minute, limit, count, client, served, wasted, free, requests, outages>>

Minutes == 0..LastMinute

Away == [step |-> "off", key |-> 0, limit |-> 0, counted |-> FALSE]

RpmInit ==
  /\ minute = 0
  /\ limit \in RpmLimits
  /\ count = [m \in Minutes |-> 0]
  /\ client = [c \in Clients |-> Away]
  /\ served = [m \in Minutes |-> 0]
  /\ wasted = [m \in Minutes |-> 0]
  /\ free = (limit = 0)
  /\ requests = 0
  /\ outages = 0

SetLimit ==
  /\ limit' \in RpmLimits \ {limit}
  /\ free' = (free \/ limit' = 0)
  /\ UNCHANGED <<minute, count, client, served, wasted, requests, outages>>

NextMinute ==
  /\ minute < LastMinute
  /\ minute' = minute + 1
  /\ UNCHANGED <<limit, count, client, served, wasted, free, requests, outages>>

\* The limit of the row that was selected, and rpm_key.
ReadKey(c) ==
  /\ client[c] = Away
  /\ requests < MaxRequests
  /\ requests' = requests + 1
  /\ client' = [client EXCEPT ![c] =
       [step |-> "reserve", key |-> minute, limit |-> limit, counted |-> FALSE]]
  /\ UNCHANGED <<minute, limit, count, served, wasted, free, outages>>

\* Fault: the count may reach the limit and one more.
HasRoomLate(n, lim) == lim = 0 \/ n <= lim

HasRoom(n, lim) == lim = 0 \/ n < lim

\* The minute gets one more of request c, if there is room.
CountIn(c) ==
  count' = [count EXCEPT ![client[c].key] =
    IF HasRoom(@, client[c].limit) THEN @ + 1 ELSE @]

\* Under the lock, or in one script.  Without a limit incr_rpm counts as well.
Reserve(c) ==
  LET ok == HasRoom(count[client[c].key], client[c].limit) IN
  /\ client[c].step = "reserve"
  /\ CountIn(c)
  /\ client' = [client EXCEPT ![c] =
       IF ok THEN [@ EXCEPT !.step = "slot", !.counted = TRUE] ELSE Away]
  /\ UNCHANGED <<minute, limit, served, wasted, free, requests, outages>>

\* The cache fails before the script has run, or after; the request is let through.
FailOpen(c) ==
  LET ok == HasRoom(count[client[c].key], client[c].limit) IN
  /\ client[c].step = "reserve"
  /\ outages < MaxOutages
  /\ outages' = outages + 1
  /\ \E ran \in BOOLEAN :
       /\ client' = [client EXCEPT ![c].step = "slot", ![c].counted = ran /\ ok]
       /\ IF ran THEN CountIn(c) ELSE UNCHANGED count
  /\ UNCHANGED <<minute, limit, served, wasted, free, requests>>

Tally(f, c) == [f EXCEPT ![client[c].key] = @ + (IF client[c].counted THEN 1 ELSE 0)]

TakeSlot(c) ==
  /\ client[c].step = "slot"
  /\ client' = [client EXCEPT ![c].step = "send"]
  /\ UNCHANGED <<minute, limit, count, served, wasted, free, requests, outages>>

\* resolve_upstream_token succeeds and the request goes upstream.
Forward(c) ==
  /\ client[c].step = "send"
  /\ served' = Tally(served, c)
  /\ client' = [client EXCEPT ![c] = Away]
  /\ UNCHANGED <<minute, limit, count, wasted, free, requests, outages>>

\* The request is over before that, and its place is used by nobody.
Waste(c) ==
  /\ wasted' = Tally(wasted, c)
  /\ client' = [client EXCEPT ![c] = Away]
  /\ UNCHANGED <<minute, limit, count, served, free, requests, outages>>

\* acquire_slot refuses, or fails.
RefuseSlot(c) == client[c].step = "slot" /\ Waste(c)

\* resolve_upstream_token fails.
TokenFails(c) == client[c].step = "send" /\ Waste(c)

\* The client leaves: the future is dropped at one of its awaits.
Vanish(c) == client[c].step \in {"slot", "send"} /\ Waste(c)

\* The same while it waits for the cache, which may run the script all the same.
VanishReserving(c) ==
  /\ client[c].step = "reserve"
  /\ \E ran \in BOOLEAN :
       IF ran /\ HasRoom(count[client[c].key], client[c].limit)
         THEN CountIn(c) /\ wasted' = [wasted EXCEPT ![client[c].key] = @ + 1]
         ELSE UNCHANGED <<count, wasted>>
  /\ client' = [client EXCEPT ![c] = Away]
  /\ UNCHANGED <<minute, limit, served, free, requests, outages>>

RpmNext ==
  \/ SetLimit
  \/ NextMinute
  \/ \E c \in Clients :
       \/ ReadKey(c) \/ Reserve(c) \/ FailOpen(c) \/ VanishReserving(c)
       \/ TakeSlot(c) \/ RefuseSlot(c) \/ TokenFails(c) \/ Vanish(c) \/ Forward(c)

RpmSpec == RpmInit /\ [][RpmNext]_rpmVars

---------------------------------------------------------------------------
(* Properties.                                                             *)

HighestLimit == CHOOSE n \in RpmLimits : \A k \in RpmLimits : k <= n

Underway(m) == {c \in Clients : client[c].counted /\ client[c].key = m}

(***************************************************************************)
(* A place of a minute belongs to a request that is under way, that went   *)
(* upstream, or that ended before it could (no slot, no token, no client), *)
(* to each one place at most, whatever minute it is when the answer of the *)
(* cache comes; and while there is a limit, no minute has more places than *)
(* the highest limit it was given.                                         *)
(***************************************************************************)
RpmExplained ==
  \A m \in Minutes :
    /\ count[m] = served[m] + wasted[m] + Cardinality(Underway(m))
    /\ free \/ count[m] <= HighestLimit
===============================================================================
