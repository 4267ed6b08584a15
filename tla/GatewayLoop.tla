------------------------------ MODULE GatewayLoop ------------------------------
(***************************************************************************)
(* The retry loop of handle_request_inner (service/gateway.rs) over the    *)
(* shared AccountPool: which accounts a request tries, in which order it   *)
(* gives up, and what the client gets.                                     *)
(*                                                                         *)
(* A request walks: select an account; check that the account takes this   *)
(* type of client, its requests-per-minute quota and its concurrency slot; *)
(* forward; react to the answer.  A reaction either ends the request or    *)
(* goes back to "select", with the account excluded (a switch) or, after a *)
(* burst 429, not excluded (a retry).                                      *)
(*                                                                         *)
(* Sticky sessions and the ranking of candidates only choose among the     *)
(* candidates (any is possible here).  The answers of the quota and of the *)
(* slot are left open.                                                     *)
(***************************************************************************)
EXTENDS AccountPool, Sequences

CONSTANTS
  Policies,       \* what a request may bring: see PolicyType
  MaxSwitches,    \* MAX_ACCOUNT_SWITCHES
  MaxRetries,     \* MAX_SAME_ACCOUNT_RETRIES
  MaxWaits,       \* RPM_WAIT_MAX / RPM_WAIT_STEP
  WritesFail      \* TRUE if a write to an account row may fail

(***************************************************************************)
(* allowed, blocked: the accounts the API token names (an empty allowed    *)
(* names them all); accepts: the accounts that take this type of client.   *)
(***************************************************************************)
PolicyType ==
  [allowed : SUBSET Accounts, blocked : SUBSET Accounts, accepts : SUBSET Accounts]

ASSUME LoopAssumption ==
  /\ IsFiniteSet(Accounts)
  /\ Policies \subseteq PolicyType
  /\ MaxSwitches \in Nat
  /\ MaxRetries \in Nat
  /\ MaxWaits \in Nat
  /\ WritesFail \in BOOLEAN

VARIABLES
  pc,         \* pc[r]: where the loop is
  policy,     \* policy[r]: the token and the client of the request
  excluded,   \* exclude_ids
  rpmOut,     \* rpm_rejected
  typeOut,    \* type_rejected
  switches,   \* switch_count
  retries,    \* same_account_retries
  waits,      \* rpm_waited, in steps
  lastResp,   \* TRUE if last_resp holds an answer of the upstream
  outcome,    \* what the client got
  trail       \* history: the accounts the request was forwarded to

loopVars == <<pc, policy, excluded, rpmOut, typeOut, switches, retries, waits,
              lastResp, outcome, trail>>

vars == <<poolVars, loopVars>>

Phases == {"idle", "select", "check", "calling"}

(***************************************************************************)
(* "none"         still running, or the client is gone                     *)
(* "upstream"     an answer of the upstream, or of the telemetry stub      *)
(* "error"        an error of the gateway about one account: no token, no  *)
(*                connection, no free slot                                 *)
(* "forbidden"    no account takes this type of client                     *)
(* "unavailable"  no account at all                                        *)
(***************************************************************************)
Outcomes == {"none", "upstream", "error", "forbidden", "unavailable"}

NoPolicy == [allowed |-> {}, blocked |-> {}, accepts |-> {}]

LoopInit ==
  /\ Init
  /\ pc = [r \in Requests |-> "idle"]
  /\ policy = [r \in Requests |-> NoPolicy]
  /\ excluded = [r \in Requests |-> {}]
  /\ rpmOut = [r \in Requests |-> {}]
  /\ typeOut = [r \in Requests |-> {}]
  /\ switches = [r \in Requests |-> 0]
  /\ retries = [r \in Requests |-> [a \in Accounts |-> 0]]
  /\ waits = [r \in Requests |-> 0]
  /\ lastResp = [r \in Requests |-> FALSE]
  /\ outcome = [r \in Requests |-> "none"]
  /\ trail = [r \in Requests |-> <<>>]

\* The accounts that select_account chooses from.
Candidates(r) ==
  {a \in Accounts : /\ Schedulable(a)
                    /\ a \notin excluded[r]
                    /\ policy[r].allowed = {} \/ a \in policy[r].allowed}

GoTo(r, place) == pc' = [pc EXCEPT ![r] = place]

\* The client gets its answer; nothing else of the request is used again.
End(r, result) ==
  /\ GoTo(r, "idle")
  /\ outcome' = [outcome EXCEPT ![r] = result]
  /\ UNCHANGED <<policy, excluded, rpmOut, typeOut, switches, retries, waits,
                 lastResp, trail>>
-------------------------------------------------------------------------------
\* A request arrives: the loop starts with the blocked accounts excluded.
Begin(r) ==
  /\ pc[r] = "idle"
  /\ \E p \in Policies :
       /\ policy' = [policy EXCEPT ![r] = p]
       /\ excluded' = [excluded EXCEPT ![r] = p.blocked]
  /\ rpmOut' = [rpmOut EXCEPT ![r] = {}]
  /\ typeOut' = [typeOut EXCEPT ![r] = {}]
  /\ switches' = [switches EXCEPT ![r] = 0]
  /\ retries' = [retries EXCEPT ![r] = [a \in Accounts |-> 0]]
  /\ waits' = [waits EXCEPT ![r] = 0]
  /\ lastResp' = [lastResp EXCEPT ![r] = FALSE]
  /\ outcome' = [outcome EXCEPT ![r] = "none"]
  /\ trail' = [trail EXCEPT ![r] = <<>>]
  /\ GoTo(r, "select")
  /\ UNCHANGED poolVars

\* select_account finds an account.
Pick(r) ==
  /\ pc[r] = "select"
  /\ \E a \in Candidates(r) : Select(r, a)
  /\ GoTo(r, "check")
  /\ UNCHANGED <<policy, excluded, rpmOut, typeOut, switches, retries, waits,
                 lastResp, outcome, trail>>

Wait(r, count, stillExcluded, stillOut) ==
  /\ pc[r] = "select"
  /\ Candidates(r) = {}
  /\ rpmOut[r] # {}
  /\ waits[r] < MaxWaits
  /\ waits' = [waits EXCEPT ![r] = count]
  /\ excluded' = [excluded EXCEPT ![r] = stillExcluded]
  /\ rpmOut' = [rpmOut EXCEPT ![r] = stillOut]
  /\ UNCHANGED <<poolVars, pc, policy, typeOut, switches, retries, lastResp,
                 outcome, trail>>

\* Faults: every account let in; the list not cleared; the wait not counted.
WaitLetsAllIn(r) == Wait(r, waits[r] + 1, {}, {})
WaitKeepsList(r) == Wait(r, waits[r] + 1, excluded[r] \ rpmOut[r], rpmOut[r])
WaitUncounted(r) == Wait(r, waits[r], excluded[r] \ rpmOut[r], {})

(***************************************************************************)
(* select_account finds none.  If some account was only out of quota for   *)
(* this minute, wait a step and let those accounts in again...             *)
(***************************************************************************)
WaitForRpm(r) == Wait(r, waits[r] + 1, excluded[r] \ rpmOut[r], {})

\* ... or give up: the last answer if there is one, else 403, else 503.
GiveUp(r) ==
  /\ pc[r] = "select"
  /\ Candidates(r) = {}
  /\ rpmOut[r] = {} \/ waits[r] >= MaxWaits
  /\ End(r, IF lastResp[r] THEN "upstream"
            ELSE IF typeOut[r] # {} THEN "forbidden"
            ELSE "unavailable")
  /\ UNCHANGED poolVars

\* The account does not take this type of client.
RejectType(r) ==
  /\ pc[r] = "check"
  /\ acct[r] \notin policy[r].accepts
  /\ excluded' = [excluded EXCEPT ![r] = @ \cup {acct[r]}]
  /\ typeOut' = [typeOut EXCEPT ![r] = @ \cup {acct[r]}]
  /\ GoTo(r, "select")
  /\ Finish(r)
  /\ UNCHANGED <<policy, rpmOut, switches, retries, waits, lastResp, outcome,
                 trail>>

\* A telemetry path, on an account with auto_telemetry: answered on the spot.
Intercept(r) ==
  /\ pc[r] = "check"
  /\ acct[r] \in policy[r].accepts
  /\ End(r, "upstream")
  /\ Finish(r)

\* reserve_rpm refuses: the account is out for this round.
RpmFull(r) ==
  /\ pc[r] = "check"
  /\ acct[r] \in policy[r].accepts
  /\ excluded' = [excluded EXCEPT ![r] = @ \cup {acct[r]}]
  /\ rpmOut' = [rpmOut EXCEPT ![r] = @ \cup {acct[r]}]
  /\ GoTo(r, "select")
  /\ Finish(r)
  /\ UNCHANGED <<policy, typeOut, switches, retries, waits, lastResp, outcome,
                 trail>>

\* acquire_slot refuses: 429 at once, whatever other accounts there are.
SlotFull(r) ==
  /\ pc[r] = "check"
  /\ acct[r] \in policy[r].accepts
  /\ End(r, "error")
  /\ Finish(r)

\* Quota and slot are taken and the request is sent.
Forward(r) ==
  /\ pc[r] = "check"
  /\ acct[r] \in policy[r].accepts
  /\ trail' = [trail EXCEPT ![r] = Append(@, acct[r])]
  /\ GoTo(r, "calling")
  /\ UNCHANGED <<poolVars, policy, excluded, rpmOut, typeOut, switches, retries,
                 waits, lastResp, outcome>>
-------------------------------------------------------------------------------
\* The write to the row that follows an answer, or the same step with it lost
\* (its error is ignored or logged).
React(r, write) == write \/ (WritesFail /\ Finish(r))

Switch(r, kept) ==
  /\ excluded' = [excluded EXCEPT ![r] = @ \cup {acct[r]}]
  /\ switches' = [switches EXCEPT ![r] = @ + 1]
  /\ lastResp' = [lastResp EXCEPT ![r] = kept]
  /\ GoTo(r, "select")
  /\ UNCHANGED <<policy, rpmOut, typeOut, retries, waits, outcome, trail>>

\* Fault: the answer is not kept.
SwitchForgetful(r) == switches[r] < MaxSwitches /\ Switch(r, lastResp[r])

\* Exclude the account, count the switch, keep the answer and go around.
SwitchAccount(r) == switches[r] < MaxSwitches /\ Switch(r, TRUE)

SwitchOrEnd(r) ==
  \/ SwitchAccount(r)
  \/ switches[r] >= MaxSwitches /\ End(r, "upstream")

\* resolve_upstream_token or the connection fails.
CallFails(r) ==
  /\ pc[r] = "calling"
  /\ End(r, "error")
  /\ Finish(r)

\* Any answer the loop does not react to, a 429 without limit headers included.
Answer(r) ==
  /\ pc[r] = "calling"
  /\ End(r, "upstream")
  /\ Finish(r)

\* 401 or 403: the row was disabled in forward_request.
AuthRejected(r) ==
  /\ pc[r] = "calling"
  /\ SwitchOrEnd(r)
  /\ React(r, AuthFailure(r))

\* 400 "extra usage": quarantine, but only if the request may still switch.
BillingRejected(r) ==
  /\ pc[r] = "calling"
  /\ \/ SwitchAccount(r) /\ React(r, Quarantine(r, "billing"))
     \/ switches[r] >= MaxSwitches /\ End(r, "upstream") /\ Finish(r)

\* A 429 that classify_from_headers takes for a full window.
WindowFull(r) ==
  /\ pc[r] = "calling"
  /\ SwitchOrEnd(r)
  /\ \E k \in {"fiveHour", "sevenDay"} : React(r, Quarantine(r, k))

Retry(r, count) ==
  /\ pc[r] = "calling"
  /\ retries[r][acct[r]] < MaxRetries
  /\ retries' = [retries EXCEPT ![r][acct[r]] = count]
  /\ lastResp' = [lastResp EXCEPT ![r] = TRUE]
  /\ GoTo(r, "select")
  /\ React(r, Quarantine(r, "burst"))
  /\ UNCHANGED <<policy, excluded, rpmOut, typeOut, switches, waits, outcome, trail>>

\* Fault: the retry is not counted.
RetryUncounted(r) == Retry(r, retries[r][acct[r]])

(***************************************************************************)
(* Any other 429 with limit headers.  The row gets its short cooldown      *)
(* first; then, while the account has retries left, the loop goes around   *)
(* without excluding it and without counting a switch.                     *)
(***************************************************************************)
RetryBurst(r) == Retry(r, retries[r][acct[r]] + 1)

BurstExhausted(r) ==
  /\ pc[r] = "calling"
  /\ retries[r][acct[r]] >= MaxRetries
  /\ SwitchOrEnd(r)
  /\ React(r, Quarantine(r, "burst"))

\* The client disconnects and the future is dropped.
Disconnect(r) ==
  /\ pc[r] \in {"select", "check", "calling"}
  /\ End(r, "none")
  /\ IF acct[r] = NoAccount THEN UNCHANGED poolVars ELSE Finish(r)
-------------------------------------------------------------------------------
\* What the gateway itself does for a request that has arrived.
Progress(r) ==
  \/ Pick(r) \/ WaitForRpm(r) \/ GiveUp(r)
  \/ RejectType(r) \/ Intercept(r) \/ RpmFull(r) \/ SlotFull(r) \/ Forward(r)
  \/ CallFails(r) \/ Answer(r) \/ AuthRejected(r) \/ BillingRejected(r)
  \/ WindowFull(r) \/ RetryBurst(r) \/ BurstExhausted(r)

PoolStep == \E a \in Accounts : TimePasses(a) \/ AdminStep(a)

LoopNext ==
  \/ \E r \in Requests : Begin(r) \/ Progress(r) \/ Disconnect(r)
  \/ PoolStep /\ UNCHANGED loopVars

LoopSpec == LoopInit /\ [][LoopNext]_vars

(***************************************************************************)
(* The future of a request is polled until it ends: selection, waits and   *)
(* upstream calls are all bounded by timeouts.                             *)
(***************************************************************************)
FairLoopSpec == LoopSpec /\ \A r \in Requests : WF_vars(Progress(r))
-------------------------------------------------------------------------------
\* The retries that request r has used, numbered for each account.
Retried(r) == {p \in Accounts \X (1..MaxRetries) : p[2] <= retries[r][p[1]]}

Forwards(r, a) == Cardinality({i \in DOMAIN trail[r] : trail[r][i] = a})

LoopTypeOK ==
  /\ pc \in [Requests -> Phases]
  /\ policy \in [Requests -> Policies \cup {NoPolicy}]
  /\ excluded \in [Requests -> SUBSET Accounts]
  /\ rpmOut \in [Requests -> SUBSET Accounts]
  /\ typeOut \in [Requests -> SUBSET Accounts]
  /\ switches \in [Requests -> 0..MaxSwitches]
  /\ retries \in [Requests -> [Accounts -> 0..MaxRetries]]
  /\ waits \in [Requests -> 0..MaxWaits]
  /\ lastResp \in [Requests -> BOOLEAN]
  /\ outcome \in [Requests -> Outcomes]
  /\ trail \in [Requests -> Seq(Accounts)]
  /\ \A r \in Requests : pc[r] \in {"check", "calling"} <=> acct[r] # NoAccount

(***************************************************************************)
(* The loop keeps one list of excluded accounts and recomputes the number  *)
(* of attempts from its length and the lengths of three others: the result *)
(* is the number of switches, so the subtractions never saturate and an    *)
(* account that is out of quota is never counted as tried.                 *)
(***************************************************************************)
AttemptIsSwitches ==
  \A r \in Requests :
    Cardinality(excluded[r]) =
      Cardinality(policy[r].blocked) + Cardinality(rpmOut[r])
        + Cardinality(typeOut[r]) + switches[r]

(***************************************************************************)
(* Whatever is let in again after a wait, the token's lists and the        *)
(* account's client types hold for every account a request is sent to.     *)
(***************************************************************************)
PolicyRespected ==
  \A r \in Requests : \A i \in DOMAIN trail[r] :
    /\ trail[r][i] \notin policy[r].blocked
    /\ policy[r].allowed = {} \/ trail[r][i] \in policy[r].allowed
    /\ trail[r][i] \in policy[r].accepts

(***************************************************************************)
(* What bounds the work of one request: each account is tried at most once *)
(* more than it may be retried, and beyond the burst retries only the      *)
(* switches lead to another call.                                          *)
(***************************************************************************)
ForwardsBounded ==
  \A r \in Requests :
    /\ \A a \in Accounts : Forwards(r, a) <= MaxRetries + 1
    /\ Len(trail[r]) <= MaxSwitches + 1
         + Cardinality(Retried(r))

(***************************************************************************)
(* A client hears "no account" or "client type not allowed" only if no     *)
(* upstream ever answered it; and "not allowed" only if some account was   *)
(* refused for that and none was tried.                                    *)
(***************************************************************************)
LastAnswerKept ==
  \A r \in Requests :
    /\ outcome[r] \in {"forbidden", "unavailable"} => trail[r] = <<>>
    /\ outcome[r] = "forbidden" => typeOut[r] \ policy[r].accepts # {}

\* However the pool changes meanwhile, the loop ends: no request runs for ever.
RequestsEnd == \A r \in Requests : pc[r] # "idle" ~> pc[r] = "idle"

(***************************************************************************)
(* The work that is left to a request.  A round of the loop ends it, or    *)
(* uses up a switch, a retry, an account that refuses the client or one    *)
(* out of quota for this minute; a wait lets the last ones in again, all of*)
(* them at most, and is itself counted.  A round visits three places.      *)
(***************************************************************************)
Everyone == Cardinality(Accounts)

RetriesLeft(r) == Cardinality(Accounts \X (1..MaxRetries)) - Cardinality(Retried(r))

WaitsWorth(n) == (MaxWaits - n) * (Everyone + 1)

RoundsLeft(r) ==
  (MaxSwitches - switches[r]) + RetriesLeft(r)
    + (Everyone - Cardinality(typeOut[r])) + (Everyone - Cardinality(rpmOut[r]))
    + WaitsWorth(waits[r])

PlacesLeft(p) ==
  IF p = "select" THEN 3 ELSE IF p = "check" THEN 2 ELSE IF p = "calling" THEN 1 ELSE 0

WorkLeft(r) == 4 * RoundsLeft(r) + PlacesLeft(pc[r])

(***************************************************************************)
(* How fast it ends: whichever way round the loop goes, every step of a    *)
(* request takes work off what is left to it, and no other request, answer *)
(* or change of the accounts gives it more.                                *)
(***************************************************************************)
WorkFalls ==
  [][\A r \in Requests :
       /\ Progress(r) \/ Disconnect(r) => WorkLeft(r)' < WorkLeft(r)
       /\ pc[r] # "idle" => WorkLeft(r)' <= WorkLeft(r)]_vars
===============================================================================
