------------------------------ MODULE MemorySlots ------------------------------
(***************************************************************************)
(* The concurrency slots of MemoryStore (store/memory.rs) as the gateway   *)
(* uses them (service/gateway.rs, handle_request_inner): a request takes   *)
(* one slot of its API token for its whole life, and one slot of each      *)
(* account it is forwarded to.                                             *)
(*                                                                         *)
(* A slot is given back in two ways.  A scope guard that goes out of scope *)
(* (return, `?`, or a client that disconnects and drops the handler's      *)
(* future) spawns a task that decrements the counter later.  Before it     *)
(* switches accounts the request instead forgets the guard and awaits      *)
(* release_slot itself; a future dropped at that await gives nothing back. *)
(***************************************************************************)
EXTENDS Naturals, FiniteSets

CONSTANTS
  Requests,     \* identities of the requests being served
  Accounts,     \* upstream accounts
  Tokens,       \* API tokens with a concurrency limit
  NoToken,      \* the request's token has no limit (or there is none)
  NoAccount,    \* the request has no account at the moment
  Max           \* Max[k]: the limit of account or token k

Keys == Accounts \cup Tokens

ASSUME SlotsAssumption ==
  /\ IsFiniteSet(Requests)
  /\ Accounts \cap Tokens = {}
  /\ NoToken \notin Keys
  /\ NoAccount \notin Keys
  /\ Max \in [Keys -> Nat]

VARIABLES
  slots,     \* MemoryStore.slots: the counter behind every key
  spawned,   \* spawned[k]: release tasks spawned by a dropped guard, not run yet
  pc,        \* pc[r]: where request r is
  tok,       \* tok[r]: the limited token r was authenticated with
  acct,      \* acct[r]: the account r is being forwarded to
  leaked     \* history: slots whose holder vanished with no release to come

vars == <<slots, spawned, pc, tok, acct, leaked>>

(***************************************************************************)
(* "admitted"   holds its token slot, between two accounts                 *)
(* "calling"    holds an account slot behind a live guard                  *)
(* "forgot"     has forgotten that guard and awaits release_slot           *)
(* "streaming"  the handler has returned; the response body still flows    *)
(***************************************************************************)
Phases == {"idle", "admitted", "calling", "forgot", "streaming"}

Inside(r) == pc[r] \in {"admitted", "calling", "forgot"}

\* The keys in whose counter request r is included.
Holds(r) ==
  (IF Inside(r) THEN {tok[r]} \ {NoToken} ELSE {})
    \cup (IF pc[r] \in {"calling", "forgot"} THEN {acct[r]} ELSE {})

Holders(k) == {r \in Requests : k \in Holds(r)}

\* What the counter of k still includes for requests that no longer hold it.
Owed(k) == spawned[k] + leaked[k]

Init ==
  /\ slots = [k \in Keys |-> 0]
  /\ spawned = [k \in Keys |-> 0]
  /\ pc = [r \in Requests |-> "idle"]
  /\ tok = [r \in Requests |-> NoToken]
  /\ acct = [r \in Requests |-> NoAccount]
  /\ leaked = [k \in Keys |-> 0]
-------------------------------------------------------------------------------
(***************************************************************************)
(* MemoryStore.  Each operation runs under the mutex of the map and never  *)
(* awaits inside it, so it is one step.  acquire_slot increments and, if   *)
(* that went over the limit, takes the increment back.                     *)
(***************************************************************************)

\* Fault: the counter is compared before it is incremented.
HasRoomBefore(k) == slots[k] <= Max[k]

HasRoom(k) == slots[k] + 1 <= Max[k]

Acquired(s, k) == [s EXCEPT ![k] = @ + 1]

Released(s, k) == [s EXCEPT ![k] = IF @ > 0 THEN @ - 1 ELSE @]

\* Fault: the guard is disarmed when it drops.
DropGuardsIdle(S) == spawned

\* Dropping the guards of the keys in S spawns one release task for each.
DropGuards(S) == [k \in Keys |-> IF k \in S THEN spawned[k] + 1 ELSE spawned[k]]
-------------------------------------------------------------------------------
(***************************************************************************)
(* A request arrives and takes the slot of its token, if the token is      *)
(* limited.  When the token is full it is answered 429 and nothing changes.*)
(***************************************************************************)
Arrive(r) ==
  /\ pc[r] = "idle"
  /\ \E t \in Tokens \cup {NoToken} :
       /\ t # NoToken => HasRoom(t)
       /\ slots' = IF t = NoToken THEN slots ELSE Acquired(slots, t)
       /\ tok' = [tok EXCEPT ![r] = t]
  /\ pc' = [pc EXCEPT ![r] = "admitted"]
  /\ UNCHANGED <<spawned, acct, leaked>>

\* An account was selected and its slot acquired: the guard is armed.
AcquireAccount(r, a) ==
  /\ pc[r] = "admitted"
  /\ HasRoom(a)
  /\ slots' = Acquired(slots, a)
  /\ acct' = [acct EXCEPT ![r] = a]
  /\ pc' = [pc EXCEPT ![r] = "calling"]
  /\ UNCHANGED <<spawned, tok, leaked>>

\* "concurrency slot unavailable": the request returns 429, its token guard drops.
AccountFull(r, a) ==
  /\ pc[r] = "admitted"
  /\ ~ HasRoom(a)
  /\ spawned' = DropGuards(Holds(r))
  /\ pc' = [pc EXCEPT ![r] = "idle"]
  /\ tok' = [tok EXCEPT ![r] = NoToken]
  /\ UNCHANGED <<slots, acct, leaked>>

(***************************************************************************)
(* The upstream answered and the handler returns the response: both guards *)
(* drop while the body has still to be streamed to the client.             *)
(***************************************************************************)
ReturnResponse(r) ==
  /\ pc[r] = "calling"
  /\ spawned' = DropGuards(Holds(r))
  /\ pc' = [pc EXCEPT ![r] = "streaming"]
  /\ UNCHANGED <<slots, tok, acct, leaked>>

\* The body ends, or the client drops it.
EndBody(r) ==
  /\ pc[r] = "streaming"
  /\ pc' = [pc EXCEPT ![r] = "idle"]
  /\ tok' = [tok EXCEPT ![r] = NoToken]
  /\ acct' = [acct EXCEPT ![r] = NoAccount]
  /\ UNCHANGED <<slots, spawned, leaked>>

(***************************************************************************)
(* An error is returned, or the client disconnects and the future is       *)
(* dropped, while every slot held is behind a live guard.                  *)
(***************************************************************************)
Abort(r) ==
  /\ pc[r] \in {"admitted", "calling"}
  /\ spawned' = DropGuards(Holds(r))
  /\ pc' = [pc EXCEPT ![r] = "idle"]
  /\ tok' = [tok EXCEPT ![r] = NoToken]
  /\ acct' = [acct EXCEPT ![r] = NoAccount]
  /\ UNCHANGED <<slots, leaked>>

\* Fault: the guard is dropped instead of forgotten, and releases a second time.
DropsGuard(r) ==
  /\ pc[r] = "calling"
  /\ pc' = [pc EXCEPT ![r] = "forgot"]
  /\ spawned' = DropGuards({acct[r]})
  /\ UNCHANGED <<slots, tok, acct, leaked>>

\* 401/403, a billing refusal or a 429: forget the guard, then await release_slot.
ForgetGuard(r) ==
  /\ pc[r] = "calling"
  /\ pc' = [pc EXCEPT ![r] = "forgot"]
  /\ UNCHANGED <<slots, spawned, tok, acct, leaked>>

\* release_slot completes and the retry loop goes around.
ReleaseForgotten(r) ==
  /\ pc[r] = "forgot"
  /\ slots' = Released(slots, acct[r])
  /\ acct' = [acct EXCEPT ![r] = NoAccount]
  /\ pc' = [pc EXCEPT ![r] = "admitted"]
  /\ UNCHANGED <<spawned, tok, leaked>>

(***************************************************************************)
(* The client disconnects while release_slot waits for the mutex: the      *)
(* token guard still drops, but nobody is left to give the account slot    *)
(* back.                                                                   *)
(***************************************************************************)
DisconnectForgotten(r) ==
  /\ pc[r] = "forgot"
  /\ leaked' = [leaked EXCEPT ![acct[r]] = @ + 1]
  /\ spawned' = DropGuards(Holds(r) \ {acct[r]})
  /\ pc' = [pc EXCEPT ![r] = "idle"]
  /\ tok' = [tok EXCEPT ![r] = NoToken]
  /\ acct' = [acct EXCEPT ![r] = NoAccount]
  /\ UNCHANGED <<slots>>

\* A spawned release task runs.
RunSpawned(k) ==
  /\ spawned[k] > 0
  /\ spawned' = [spawned EXCEPT ![k] = @ - 1]
  /\ slots' = Released(slots, k)
  /\ UNCHANGED <<pc, tok, acct, leaked>>

RequestStep(r) ==
  \/ Arrive(r)
  \/ \E a \in Accounts : AcquireAccount(r, a) \/ AccountFull(r, a)
  \/ ReturnResponse(r)
  \/ EndBody(r)
  \/ Abort(r)
  \/ ForgetGuard(r)
  \/ ReleaseForgotten(r)
  \/ DisconnectForgotten(r)

Next == (\E r \in Requests : RequestStep(r)) \/ (\E k \in Keys : RunSpawned(k))

Spec == Init /\ [][Next]_vars

(***************************************************************************)
(* Fairness: the runtime polls every spawned task, and a request moves on  *)
(* because selection, upstream call and body are all bounded by timeouts;  *)
(* it is strongly fair to ReturnResponse because the switches of a request *)
(* are bounded (GatewayLoop).  Nothing obliges a client to disconnect, or  *)
(* a request to arrive.                                                    *)
(***************************************************************************)
Progress(r) ==
  \/ \E a \in Accounts : AcquireAccount(r, a) \/ AccountFull(r, a)
  \/ ReturnResponse(r)
  \/ ReleaseForgotten(r)
  \/ EndBody(r)

FairSpec ==
  /\ Spec
  /\ \A k \in Keys : WF_vars(RunSpawned(k))
  /\ \A r \in Requests : WF_vars(Progress(r)) /\ SF_vars(ReturnResponse(r))
-------------------------------------------------------------------------------
TypeOK ==
  /\ slots \in [Keys -> Nat]
  /\ spawned \in [Keys -> Nat]
  /\ pc \in [Requests -> Phases]
  /\ tok \in [Requests -> Tokens \cup {NoToken}]
  /\ acct \in [Requests -> Accounts \cup {NoAccount}]
  /\ leaked \in [Keys -> Nat]
  /\ \A r \in Requests : pc[r] \in {"calling", "forgot"} => acct[r] # NoAccount

(***************************************************************************)
(* Every counter is accounted for: whoever holds the slot, the releases    *)
(* still to run and the slots lost at the unguarded await add up to it.    *)
(* So no release is ever double (the clamp at zero of release_slot never   *)
(* hides one) and no path but the unguarded await loses one.               *)
(***************************************************************************)
Accounting ==
  \A k \in Keys : slots[k] = Cardinality(Holders(k)) + Owed(k)

(***************************************************************************)
(* The slots implement the abstract limit, for the accounts (calls between *)
(* acquire_slot and the response headers) and for the tokens (handlers     *)
(* that are running).                                                      *)
(***************************************************************************)
AccountCalls ==
  [a \in Accounts |-> {r \in Requests : pc[r] = "calling" /\ acct[r] = a}]

TokenCalls == [t \in Tokens |-> {r \in Requests : Inside(r) /\ tok[r] = t}]

AccountLimit == INSTANCE BoundedConcurrency
                  WITH Resources <- Accounts, inflight <- AccountCalls

TokenLimit == INSTANCE BoundedConcurrency
                WITH Resources <- Tokens, inflight <- TokenCalls

AccountsBounded == AccountLimit!Spec

TokensBounded == TokenLimit!Spec

LimitsImplemented == AccountsBounded /\ TokensBounded

(***************************************************************************)
(* Once requests stop arriving, all that is left in a counter is what the  *)
(* unguarded await has lost.                                               *)
(***************************************************************************)
RequestsKeepComing == []<><<\E r \in Requests : Arrive(r)>>_vars

SlotsDrain ==
  RequestsKeepComing \/ <>[](\A k \in Keys : slots[k] = leaked[k])

(***************************************************************************)
(* README, "concurrency control": a slot is given back automatically when  *)
(* the request ends.  Refuted by DisconnectForgotten.                      *)
(***************************************************************************)
SlotsReturned ==
  RequestsKeepComing \/ <>[](\A k \in Keys : slots[k] = 0)
===============================================================================
