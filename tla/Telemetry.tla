------------------------------- MODULE Telemetry -------------------------------
(***************************************************************************)
(* The telemetry session of one account (service/telemetry.rs).  A request *)
(* for messages renews the session or opens one, and whoever opens it      *)
(* spawns the loop that sends events for it, until no request has renewed  *)
(* it for SESSION_TTL.  The map of sessions is under a lock that the loop  *)
(* gives up to send and to write the count of its sends to the database.   *)
(***************************************************************************)
EXTENDS Naturals, FiniteSets

CONSTANTS
  Visitors,       \* requests that activate the session
  Loops,          \* the futures that may run telemetry_loop
  MaxVisits,      \* bound: activations
  MaxSends,       \* bound: events and evaluations sent
  MaxLosses       \* bound: failed writes of the count, and restarts

ASSUME TelemetryAssumption ==
  IsFiniteSet(Loops) /\ MaxVisits \in Nat /\ MaxSends \in Nat /\ MaxLosses \in Nat

VARIABLES
  session,    \* is the account in the map, its send_count, is its time over
  visitor,    \* visitor[v]: idle, or holding the token it has resolved
  loop,       \* loop[l]: what loop l is about to do, and the count it will write
  stored,     \* telemetry_count of the account's row
  sent,       \* history: requests sent upstream
  own,        \* history: those of the session that is open
  closed,     \* history: those of the sessions that have expired
  missed,     \* history: counts that were never written
  visits, losses

telemetryVars == <<session, visitor, loop, stored, sent, own, closed, missed, visits, losses>>

NoSession == [there |-> FALSE, sends |-> 0, due |-> FALSE]

(***************************************************************************)
(* "tick"   sleeps, then takes the lock   "send"   has counted, now sends  *)
(* "count"  writes one more send          "close"  writes send_count       *)
(***************************************************************************)
LoopSteps == {"off", "tick", "send", "count", "close"}

Off == [step |-> "off", carry |-> 0]

Lose == losses < MaxLosses /\ losses' = losses + 1

TelemetryInit ==
  /\ session = NoSession
  /\ visitor = [v \in Visitors |-> "idle"]
  /\ loop = [l \in Loops |-> Off]
  /\ stored = 0
  /\ sent = 0
  /\ own = 0
  /\ closed = 0
  /\ missed = 0
  /\ visits = 0
  /\ losses = 0

SetLoop(l, step, carry) == loop' = [loop EXCEPT ![l] = [step |-> step, carry |-> carry]]

---------------------------------------------------------------------------
(* activate_session: the token is resolved before the lock is taken.       *)

ResolveToken(v) ==
  /\ visitor[v] = "idle"
  /\ visits < MaxVisits
  /\ visits' = visits + 1
  /\ visitor' = [visitor EXCEPT ![v] = "resolved"]
  /\ UNCHANGED <<session, loop, stored, sent, own, closed, missed, losses>>

Renew ==
  /\ session' = [session EXCEPT !.due = FALSE]
  /\ UNCHANGED loop

Open(l) ==
  /\ loop[l].step = "off"
  /\ session' = [NoSession EXCEPT !.there = TRUE]
  /\ SetLoop(l, "tick", 0)

\* Fault: the map is not looked at again once the token is there.
OpenAnyway(l) == Open(l)

OpenOrRenew(l) == IF session.there THEN Renew ELSE Open(l)

Activate(v) ==
  /\ visitor[v] = "resolved"
  /\ visitor' = [visitor EXCEPT ![v] = "idle"]
  /\ \E l \in Loops : OpenOrRenew(l)
  /\ UNCHANGED <<stored, sent, own, closed, missed, visits, losses>>

\* SESSION_TTL passes without an activation.
Due ==
  /\ session.there /\ ~session.due
  /\ session' = [session EXCEPT !.due = TRUE]
  /\ UNCHANGED <<visitor, loop, stored, sent, own, closed, missed, visits, losses>>

---------------------------------------------------------------------------
(* telemetry_loop: a tick finds the session gone or over, or a send due.   *)

Close(l) ==
  /\ loop[l].step = "tick"
  /\ session.there => session.due
  /\ session' = NoSession
  /\ own' = 0
  /\ closed' = closed + own
  /\ SetLoop(l, IF session.sends > 0 THEN "close" ELSE "off", session.sends)
  /\ UNCHANGED <<visitor, stored, sent, missed, visits, losses>>

\* Fault: the send is written to the database and forgotten in the session.
SendUncounted(l) ==
  /\ loop[l].step = "tick"
  /\ session.there /\ ~session.due
  /\ sent < MaxSends
  /\ SetLoop(l, "send", 0)
  /\ UNCHANGED <<session, visitor, stored, sent, own, closed, missed, visits, losses>>

\* An event batch or an evaluation: counted, then sent with the lock given up.
SendDue(l) ==
  /\ loop[l].step = "tick"
  /\ session.there /\ ~session.due
  /\ sent < MaxSends
  /\ session' = [session EXCEPT !.sends = @ + 1]
  /\ SetLoop(l, "send", 0)
  /\ UNCHANGED <<visitor, stored, sent, own, closed, missed, visits, losses>>

\* Whatever the answer, the send counts.
Deliver(l) ==
  /\ loop[l].step = "send"
  /\ sent' = sent + 1
  /\ own' = own + 1
  /\ SetLoop(l, "count", 1)
  /\ UNCHANGED <<session, visitor, stored, closed, missed, visits, losses>>

\* increment_telemetry_count: of one send, or at the end of the whole session.
Increment(l) ==
  /\ loop[l].step \in {"count", "close"}
  /\ SetLoop(l, IF loop[l].step = "count" THEN "tick" ELSE "off", 0)
  /\ \/ stored' = stored + loop[l].carry /\ UNCHANGED <<missed, losses>>
     \/ Lose /\ missed' = missed + loop[l].carry /\ UNCHANGED stored
  /\ UNCHANGED <<session, visitor, sent, own, closed, visits>>

\* What the loops have still to write: a pair of a loop and a number for each send.
OwedSends == {p \in Loops \X (1..MaxSends) : p[2] <= loop[p[1]].carry}

Owed == Cardinality(OwedSends)

\* That is lost with them.
Crash ==
  /\ Lose
  /\ session' = NoSession
  /\ visitor' = [v \in Visitors |-> "idle"]
  /\ loop' = [l \in Loops |-> Off]
  /\ missed' = missed + Owed
  /\ own' = 0
  /\ UNCHANGED <<stored, sent, closed, visits>>

TelemetryNext ==
  \/ \E v \in Visitors : ResolveToken(v) \/ Activate(v)
  \/ \E l \in Loops : Close(l) \/ SendDue(l) \/ Deliver(l) \/ Increment(l)
  \/ Due
  \/ Crash

TelemetrySpec == TelemetryInit /\ [][TelemetryNext]_telemetryVars

---------------------------------------------------------------------------
(* Properties.                                                             *)

Driving == {l \in Loops : loop[l].step \in {"tick", "send", "count"}}

(***************************************************************************)
(* A session in the map has exactly one loop that drives it, and a loop    *)
(* never survives its session, however the activations, the expiry and the *)
(* sends cross: only then is telemetry sent at the pace of one client.     *)
(***************************************************************************)
LoopAlone == Cardinality(Driving) = IF session.there THEN 1 ELSE 0

(***************************************************************************)
(* What the database counts, or was to count: each request once when it is *)
(* sent, and once more when its session expires; however sends, expiry,    *)
(* failed writes and restarts fall together.  (model/account.rs says       *)
(* "累计发送的遥测请求次数", the number of requests sent, of this column.)    *)
(***************************************************************************)
SendsCounted ==
  stored + missed + Owed = sent + closed
===============================================================================
