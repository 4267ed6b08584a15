---------------------------- MODULE SessionAdmission ----------------------------
(***************************************************************************)
(* Admission of Claude Code sessions with the in-memory cache              *)
(* (AccountService::admit_session and select_account in service/account.rs *)
(* over MemoryStore in store/memory.rs).                                   *)
(*                                                                         *)
(* A session is admitted once per request, before the retry loop: it goes  *)
(* to the account it is bound to, whatever the limits, or to an account    *)
(* that has room in its set of live sessions and in its daily quotas of    *)
(* devices and of sessions.  Which account then serves the request is up   *)
(* to select_account, which looks at the binding, not at the limits.       *)
(*                                                                         *)
(* Each operation of MemoryStore runs under its mutex and is one step; the *)
(* requests interleave between them.  Sessions fall out of the live set    *)
(* after a minute without an admission and bindings last a day: time may   *)
(* do this at any moment.  The quotas are of a day, and no task clears     *)
(* them at midnight: each call of account_quota_admit reads the clock,     *)
(* waits for the mutexes and drops every entry that is not of the day it   *)
(* has read, the new day's included when it has read the old one.          *)
(* Which accounts can take requests (AccountPool, cost caps, the accounts  *)
(* a token names, those that the retry loop of GatewayLoop has excluded)   *)
(* is left open wherever the code reads it; so is the ranking of accounts. *)
(***************************************************************************)
EXTENDS Naturals, FiniteSets

CONSTANTS
  Requests, Accounts, Sessions, Devices,
  NoAccount,      \* not bound; no account chosen
  NoSession,      \* no request
  DeviceOf,       \* DeviceOf[s]: the device that session s runs on
  MaxSessions,    \* MaxSessions[a]: live sessions (after the warm-up cap), 0 = any
  DeviceQuota,    \* DeviceQuota[a]: devices a day, 0 = any
  SessionQuota,   \* SessionQuota[a]: sessions a day, 0 = any
  MaxRounds,      \* SESSION_WAIT_ATTEMPTS
  MaxArrivals,    \* bound: requests in a behaviour
  MaxUpsets       \* bound: sessions, bindings and days that end in a behaviour

ASSUME AdmissionAssumption ==
  /\ IsFiniteSet(Accounts)
  /\ IsFiniteSet(Sessions)
  /\ IsFiniteSet(Devices)
  /\ NoAccount \notin Accounts
  /\ NoSession \notin Sessions
  /\ DeviceOf \in [Sessions -> Devices]
  /\ MaxSessions \in [Accounts -> Nat]
  /\ DeviceQuota \in [Accounts -> Nat]
  /\ SessionQuota \in [Accounts -> Nat]
  /\ MaxRounds \in Nat \ {0}
  /\ MaxArrivals \in Nat
  /\ MaxUpsets \in Nat

VARIABLES
  live,         \* acct_sessions: the live sessions of each account
  devices,      \* acct_quota_devices: the devices counted on each account
  sessions,     \* acct_quota_sessions: the sessions counted on each account
  day,          \* day[a]: the window that the entries of both carry
  sticky,       \* sticky[s]: the account that session s is bound to
  pc,           \* pc[r]: where request r is
  sess,         \* sess[r]: the session of request r
  chosen,       \* chosen[r]: the account request r is dealing with
  left,         \* left[r]: the candidates still to try in this round
  rounds,       \* rounds[r]: rounds of admission that found no room
  since,        \* since[r]: the day when request r called account_quota_admit
  today,        \* the day of the clock
  arrivals,     \* counts the requests, up to MaxArrivals
  upsets,       \* counts the ends of sessions, bindings and days, up to MaxUpsets
  forced,       \* history: forced[a]: sessions made live on a without room
  counted,      \* history: counted[a]: sessions let in for today on a
  forcedToday,  \* history: forcedToday[a]: those let in without room
  erased,       \* history: erased[a]: those whose entry a late call has dropped
  strays        \* history: strays[a]: sessions a may serve today uncounted

quotaVars == <<devices, sessions, day>>
cacheVars == <<live, quotaVars, sticky>>
requestVars == <<pc, sess, chosen, left, rounds, since>>
counters == <<arrivals, upsets, today>>
quotaHistory == <<counted, forcedToday, erased, strays>>
history == <<forced, quotaHistory>>
vars == <<cacheVars, requestVars, counters, history>>

(***************************************************************************)
(* Before "select" the request is in admit_session: "admit" reads the      *)
(* binding, "force" and "forceQuota" let a bound session in, "try",        *)
(* "quota" and "bind" look for room.  Then select_account: "select",       *)
(* "unbind", "pick"; and the account serves the request: "serving", from   *)
(* the checks of GatewayLoop to the end of the upstream's answer.          *)
(***************************************************************************)
Phases == {"idle", "admit", "force", "forceQuota", "try", "quota", "bind",
           "select", "unbind", "pick", "serving"}

Init ==
  /\ live = [a \in Accounts |-> {}]
  /\ devices = [a \in Accounts |-> {}]
  /\ sessions = [a \in Accounts |-> {}]
  /\ day = [a \in Accounts |-> 0]
  /\ sticky = [s \in Sessions |-> NoAccount]
  /\ pc = [r \in Requests |-> "idle"]
  /\ sess = [r \in Requests |-> NoSession]
  /\ chosen = [r \in Requests |-> NoAccount]
  /\ left = [r \in Requests |-> {}]
  /\ rounds = [r \in Requests |-> 0]
  /\ since = [r \in Requests |-> 0]
  /\ today = 0
  /\ arrivals = 0
  /\ upsets = 0
  /\ forced = [a \in Accounts |-> {}]
  /\ counted = [a \in Accounts |-> {}]
  /\ forcedToday = [a \in Accounts |-> {}]
  /\ erased = [a \in Accounts |-> {}]
  /\ strays = [a \in Accounts |-> {}]

\* The test of session_admit and of each dimension of account_quota_admit.
Room(set, x, max) == max = 0 \/ x \in set \/ Cardinality(set) < max

\* Fault: the limit is compared before the session is added.
RoomForOneMore(a, s) ==
  MaxSessions[a] = 0 \/ s \in live[a] \/ Cardinality(live[a]) <= MaxSessions[a]

SessionRoom(a, s) == Room(live[a], s, MaxSessions[a])

\* The entries of account a that a call with window w retains.
OfDay(f, a, w) == IF day[a] = w THEN f[a] ELSE {}

\* Fault: only the sessions are counted against a quota.
QuotaOfSessions(a, s, w) == Room(OfDay(sessions, a, w), s, SessionQuota[a])

QuotaRoom(a, s, w) ==
  /\ Room(OfDay(devices, a, w), DeviceOf[s], DeviceQuota[a])
  /\ Room(OfDay(sessions, a, w), s, SessionQuota[a])

Joins(f, a, x) == [f EXCEPT ![a] = @ \cup {x}]

GoTo(r, place) == pc' = [pc EXCEPT ![r] = place]

\* The request ends; its local variables are gone.
End(r) ==
  /\ GoTo(r, "idle")
  /\ sess' = [sess EXCEPT ![r] = NoSession]
  /\ chosen' = [chosen EXCEPT ![r] = NoAccount]
  /\ left' = [left EXCEPT ![r] = {}]
  /\ rounds' = [rounds EXCEPT ![r] = 0]
  /\ since' = [since EXCEPT ![r] = 0]

\* The request is admitted and enters the retry loop.
Admitted(r) ==
  /\ GoTo(r, "select")
  /\ chosen' = [chosen EXCEPT ![r] = NoAccount]
  /\ left' = [left EXCEPT ![r] = {}]
  /\ rounds' = [rounds EXCEPT ![r] = 0]
  /\ since' = [since EXCEPT ![r] = 0]

\* session_admit and account_quota_admit when they let session s in.
AdmitSession(a, s) ==
  /\ live' = Joins(live, a, s)
  /\ forced' = IF SessionRoom(a, s) THEN forced ELSE Joins(forced, a, s)

\* account_quota_admit has both mutexes: the entries of other windows than w go,
\* and the session and device that it lets in, if any, join.
Retain(a, w, joining) ==
  /\ devices' = [devices EXCEPT ![a] =
       OfDay(devices, a, w) \cup {DeviceOf[s] : s \in joining}]
  /\ sessions' = [sessions EXCEPT ![a] = OfDay(sessions, a, w) \cup joining]
  /\ day' = [day EXCEPT ![a] = w]
  /\ erased' = [erased EXCEPT ![a] =
       IF w = today THEN @ \ joining ELSE @ \cup OfDay(sessions, a, today)]

CountIn(a, s, w) ==
  /\ Retain(a, w, {s})
  /\ IF w = today
       THEN /\ counted' = Joins(counted, a, s)
            /\ forcedToday' = IF QuotaRoom(a, s, w) THEN forcedToday
                                                    ELSE Joins(forcedToday, a, s)
            /\ strays' = [strays EXCEPT ![a] = @ \ {s}]
       ELSE UNCHANGED <<counted, forcedToday, strays>>

\* account_quota_admit reads the clock after it is called, before it has the mutexes.
ClockOf(r) == since[r] .. today

CallQuota(r, place) ==
  /\ since' = [since EXCEPT ![r] = today]
  /\ GoTo(r, place)
-------------------------------------------------------------------------------
Arrive(r) ==
  /\ pc[r] = "idle"
  /\ arrivals < MaxArrivals
  /\ arrivals' = arrivals + 1
  /\ \E s \in Sessions : sess' = [sess EXCEPT ![r] = s]
  /\ GoTo(r, "admit")
  /\ UNCHANGED <<cacheVars, chosen, left, rounds, since, upsets, today, history>>

\* The session is bound to an account that can take requests: it will be let in.
FindBinding(r) ==
  /\ pc[r] = "admit"
  /\ sticky[sess[r]] # NoAccount
  /\ chosen' = [chosen EXCEPT ![r] = sticky[sess[r]]]
  /\ GoTo(r, "force")
  /\ UNCHANGED <<cacheVars, sess, left, rounds, since, counters, history>>

ForceSession(r) ==
  /\ pc[r] = "force"
  /\ AdmitSession(chosen[r], sess[r])
  /\ CallQuota(r, "forceQuota")
  /\ UNCHANGED <<quotaVars, sticky, sess, chosen, left, rounds, quotaHistory, counters>>

\* Fault: a bound session is let in but not counted.
ForceUncounted(r) ==
  /\ pc[r] = "forceQuota"
  /\ Admitted(r)
  /\ UNCHANGED <<cacheVars, sess, counters, history>>

ForceQuota(r) ==
  /\ pc[r] = "forceQuota"
  /\ \E w \in ClockOf(r) : CountIn(chosen[r], sess[r], w)
  /\ Admitted(r)
  /\ UNCHANGED <<live, sticky, sess, forced, counters>>

\* Not bound, or to an account that can take none: list those that can.
ListAccounts(r) ==
  /\ pc[r] = "admit"
  /\ \E open \in SUBSET Accounts : left' = [left EXCEPT ![r] = open]
  /\ GoTo(r, "try")
  /\ UNCHANGED <<cacheVars, sess, chosen, rounds, since, counters, history>>

\* session_admit of the next candidate: the live set takes the session in...
TrySession(r) ==
  /\ pc[r] = "try"
  /\ \E a \in left[r] :
       /\ SessionRoom(a, sess[r])
       /\ AdmitSession(a, sess[r])
       /\ chosen' = [chosen EXCEPT ![r] = a]
  /\ CallQuota(r, "quota")
  /\ UNCHANGED <<quotaVars, sticky, sess, left, rounds, quotaHistory, counters>>

\* ... or it is full.
SessionsFull(r) ==
  /\ pc[r] = "try"
  /\ \E a \in left[r] :
       /\ ~ SessionRoom(a, sess[r])
       /\ left' = [left EXCEPT ![r] = @ \ {a}]
  /\ UNCHANGED <<cacheVars, pc, sess, chosen, rounds, since, counters, history>>

\* account_quota_admit of the same candidate.
TryQuota(r) ==
  /\ pc[r] = "quota"
  /\ \E w \in ClockOf(r) :
       /\ QuotaRoom(chosen[r], sess[r], w)
       /\ CountIn(chosen[r], sess[r], w)
  /\ GoTo(r, "bind")
  /\ since' = [since EXCEPT ![r] = 0]
  /\ UNCHANGED <<live, sticky, sess, chosen, left, rounds, forced, counters>>

\* The quota is full: on to the next one; the live set keeps the session.
QuotaFull(r) ==
  /\ pc[r] = "quota"
  /\ \E w \in ClockOf(r) :
       /\ ~ QuotaRoom(chosen[r], sess[r], w)
       /\ Retain(chosen[r], w, {})
  /\ left' = [left EXCEPT ![r] = @ \ {chosen[r]}]
  /\ chosen' = [chosen EXCEPT ![r] = NoAccount]
  /\ GoTo(r, "try")
  /\ since' = [since EXCEPT ![r] = 0]
  /\ UNCHANGED <<live, sticky, sess, rounds, forced, counted, forcedToday, strays,
                 counters>>

Bind(r) ==
  /\ pc[r] = "bind"
  /\ sticky' = [sticky EXCEPT ![sess[r]] = chosen[r]]
  /\ Admitted(r)
  /\ UNCHANGED <<live, quotaVars, sess, counters, history>>

\* Fault: the attempts are not counted.
NextRoundUncounted(r) ==
  /\ pc[r] = "try"
  /\ left[r] = {}
  /\ GoTo(r, "admit")
  /\ UNCHANGED <<cacheVars, sess, chosen, left, rounds, since, counters, history>>

\* No candidate is left: sleep and start again...
NextRound(r) ==
  /\ pc[r] = "try"
  /\ left[r] = {}
  /\ rounds[r] + 1 < MaxRounds
  /\ rounds' = [rounds EXCEPT ![r] = @ + 1]
  /\ GoTo(r, "admit")
  /\ UNCHANGED <<cacheVars, sess, chosen, left, since, counters, history>>

\* ... or give up with a 429.
GiveUp(r) ==
  /\ pc[r] = "try"
  /\ left[r] = {}
  /\ rounds[r] + 1 >= MaxRounds
  /\ End(r)
  /\ UNCHANGED <<cacheVars, counters, history>>
-------------------------------------------------------------------------------
Choose(r, a) ==
  /\ chosen' = [chosen EXCEPT ![r] = a]
  /\ GoTo(r, "serving")

\* select_account returns the bound account.
SelectBound(r) ==
  /\ pc[r] = "select"
  /\ sticky[sess[r]] # NoAccount
  /\ Choose(r, sticky[sess[r]])
  /\ UNCHANGED <<cacheVars, sess, left, rounds, since, counters, history>>

\* The binding leads nowhere for this request...
SelectOther(r) ==
  /\ pc[r] = "select"
  /\ GoTo(r, IF sticky[sess[r]] = NoAccount THEN "pick" ELSE "unbind")
  /\ UNCHANGED <<cacheVars, sess, chosen, left, rounds, since, counters, history>>

\* ... and is deleted, whatever it is by now.
Unbind(r) ==
  /\ pc[r] = "unbind"
  /\ sticky' = [sticky EXCEPT ![sess[r]] = NoAccount]
  /\ GoTo(r, "pick")
  /\ UNCHANGED <<live, quotaVars, sess, chosen, left, rounds, since, counters, history>>

\* Another account takes the session over, with a new binding and no admission.
PickOther(r) ==
  /\ pc[r] = "pick"
  /\ \E a \in Accounts :
       /\ Choose(r, a)
       /\ sticky' = [sticky EXCEPT ![sess[r]] = a]
       /\ strays' = [strays EXCEPT ![a] = @ \cup ({sess[r]} \ OfDay(sessions, a, today))]
  /\ UNCHANGED <<live, quotaVars, sess, left, rounds, since,
                 forced, counted, forcedToday, erased, counters>>

\* No account: an error, or a pause for the requests-per-minute quotas.
PickNone(r) ==
  /\ pc[r] = "pick"
  /\ \/ End(r)
     \/ GoTo(r, "select") /\ UNCHANGED <<sess, chosen, left, rounds, since>>
  /\ UNCHANGED <<cacheVars, counters, history>>

\* The retry loop of GatewayLoop goes round: refused by a check, or by the answer.
Failover(r) ==
  /\ pc[r] = "serving"
  /\ chosen' = [chosen EXCEPT ![r] = NoAccount]
  /\ GoTo(r, "select")
  /\ UNCHANGED <<cacheVars, sess, left, rounds, since, counters, history>>

\* The request is answered, or its client disconnects.
Leave(r) ==
  /\ pc[r] # "idle"
  /\ End(r)
  /\ UNCHANGED <<cacheVars, counters, history>>
-------------------------------------------------------------------------------
Upset ==
  /\ upsets < MaxUpsets
  /\ upsets' = upsets + 1

\* SESSION_TTL passes without a new admission of s on a.
SessionIdles(a, s) ==
  /\ Upset
  /\ s \in live[a]
  /\ live' = [live EXCEPT ![a] = @ \ {s}]
  /\ forced' = [forced EXCEPT ![a] = @ \ {s}]
  /\ UNCHANGED <<quotaVars, sticky, requestVars, quotaHistory, arrivals, today>>

\* The sessions of the requests under way.
Underway == {sess[r] : r \in Requests} \ {NoSession}

\* Midnight in Beijing: nobody has been counted for the new day.  Requests under
\* way were admitted, or read their binding or their window, yesterday.
NewDay ==
  /\ Upset
  /\ today' = today + 1
  /\ counted' = [a \in Accounts |-> {}]
  /\ forcedToday' = [a \in Accounts |-> {}]
  /\ erased' = [a \in Accounts |-> {}]
  /\ strays' = [a \in Accounts |-> Underway]
  /\ UNCHANGED <<cacheVars, requestVars, forced, arrivals>>

\* STICKY_SESSION_TTL passes.
BindingExpires(s) ==
  /\ Upset
  /\ sticky[s] # NoAccount
  /\ sticky' = [sticky EXCEPT ![s] = NoAccount]
  /\ UNCHANGED <<live, quotaVars, requestVars, arrivals, today, history>>

AdmissionStep(r) ==
  \/ FindBinding(r) \/ ForceSession(r) \/ ForceQuota(r)
  \/ ListAccounts(r) \/ TrySession(r) \/ SessionsFull(r)
  \/ TryQuota(r) \/ QuotaFull(r) \/ Bind(r) \/ NextRound(r) \/ GiveUp(r)

LoopStep(r) ==
  \/ SelectBound(r) \/ SelectOther(r) \/ Unbind(r) \/ PickOther(r) \/ PickNone(r)
  \/ Failover(r)

TimeStep ==
  \/ \E a \in Accounts, s \in Sessions : SessionIdles(a, s)
  \/ \E s \in Sessions : BindingExpires(s)
  \/ NewDay

Next ==
  \/ \E r \in Requests : Arrive(r) \/ AdmissionStep(r) \/ LoopStep(r) \/ Leave(r)
  \/ TimeStep

Spec == Init /\ [][Next]_vars
-------------------------------------------------------------------------------
TypeOK ==
  /\ live \in [Accounts -> SUBSET Sessions]
  /\ devices \in [Accounts -> SUBSET Devices]
  /\ sessions \in [Accounts -> SUBSET Sessions]
  /\ day \in [Accounts -> 0 .. today]
  /\ sticky \in [Sessions -> Accounts \cup {NoAccount}]
  /\ pc \in [Requests -> Phases]
  /\ sess \in [Requests -> Sessions \cup {NoSession}]
  /\ \A r \in Requests : sess[r] = NoSession <=> pc[r] = "idle"
  /\ chosen \in [Requests -> Accounts \cup {NoAccount}]
  /\ \A r \in Requests : chosen[r] \in Accounts <=>
       pc[r] \in {"force", "forceQuota", "quota", "bind", "serving"}
  /\ left \in [Requests -> SUBSET Accounts]
  /\ rounds \in [Requests -> 0 .. MaxRounds - 1]
  /\ since \in [Requests -> 0 .. today]
  /\ today \in 0 .. upsets
  /\ arrivals \in 0 .. MaxArrivals
  /\ upsets \in 0 .. MaxUpsets
  /\ forced \in [Accounts -> SUBSET Sessions]
  /\ counted \in [Accounts -> SUBSET Sessions]
  /\ forcedToday \in [Accounts -> SUBSET Sessions]
  /\ erased \in [Accounts -> SUBSET Sessions]
  /\ strays \in [Accounts -> SUBSET Sessions]

Within(set, max, over) == max = 0 \/ Cardinality(set \ over) <= max

\* An account never has more live sessions than its limit, those aside that were
\* let in over it because they were bound to it (session_admit).
LiveBounded == \A a \in Accounts : Within(live[a], MaxSessions[a], forced[a])

\* The sessions that account_quota_admit lets in for a day, and their devices, never
\* exceed the quotas of the account, those aside that were let in over them because
\* they were bound to it, and those whose entry was dropped by a call that had read
\* the clock before midnight and got the mutexes after it: they have made room again.
DayBounded ==
  \A a \in Accounts :
    LET aside == forcedToday[a] \cup erased[a] IN
    /\ Within(counted[a], SessionQuota[a], aside)
    /\ Within({DeviceOf[s] : s \in counted[a]}, DeviceQuota[a],
              {DeviceOf[s] : s \in aside})

\* Whatever the requests of a session do between admit_session and the call of the
\* upstream, an account that serves the session has an entry of today for it, unless
\* select_account handed the session over without admission, midnight came while
\* one of its requests was under way, or a call from before midnight dropped it.
ServiceCounted ==
  \A r \in Requests :
    pc[r] = "serving" =>
      sess[r] \in OfDay(sessions, chosen[r], today) \cup strays[chosen[r]]
                   \cup erased[chosen[r]]

Admitting(r) == pc[r] \in {"admit", "force", "forceQuota", "try", "quota", "bind"}

\* What is left of a round of admission: two calls for a bound session, two for
\* each candidate that is left, and the binding.
RestOfRound(r) ==
  CASE pc[r] = "admit" -> 2 * Cardinality(Accounts) + 3
    [] pc[r] = "try"   -> 2 * Cardinality(left[r]) + 2
    [] pc[r] = "quota" -> 2 * Cardinality(left[r]) + 1
    [] pc[r] = "force" -> 2
    [] OTHER           -> 1

RequestState(r) == <<pc[r], sess[r], chosen[r], left[r], rounds[r], since[r]>>

\* Admission ends: every step of a request in admit_session ends it, shortens its
\* round or starts one of the few that are left, however other requests take the
\* places that get free and whatever expires in the meantime; nobody else's step
\* sends it back.
AdmissionFalls ==
  [][\A r \in Requests :
       Admitting(r) /\ RequestState(r)' # RequestState(r) =>
         \/ pc'[r] \in {"idle", "select"}
         \/ rounds'[r] \in rounds[r] + 1 .. MaxRounds - 1
         \/ Admitting(r)' /\ rounds'[r] = rounds[r] /\ RestOfRound(r)' < RestOfRound(r)
    ]_vars
===============================================================================
