------------------------------- MODULE OAuthLogin -------------------------------
(***************************************************************************)
(* The login flow of the admin console (service/oauth_flow.rs): an         *)
(* authorization URL is handed out together with a session id, and the     *)
(* code that the browser brings back is exchanged against the session's    *)
(* PKCE verifier.  The sessions are kept in memory for SESSION_TTL, and an *)
(* exchange takes its session before it asks the provider.                 *)
(***************************************************************************)
EXTENDS Naturals, FiniteSets

CONSTANTS
  Exchanges,    \* calls of exchange_code, of either kind
  Logins        \* session ids: one authorization URL each, with its own verifier

ASSUME LoginAssumption == "none" \notin Logins

VARIABLES
  pending,      \* the sessions in the store
  expired,      \* sessions, in the store or not, that are older than SESSION_TTL
  issued,       \* history: logins whose URL has been handed out
  codes,        \* the codes in the hands of users: of which login's challenge
  exchange,     \* exchange[x]: idle, or the code and the verifier under way
  granted       \* history: pairs of code and verifier the provider gave tokens for

loginVars == <<pending, expired, issued, codes, exchange, granted>>

Idle == [code |-> "none", verifier |-> "none"]

LoginInit ==
  /\ pending = {}
  /\ expired = {}
  /\ issued = {}
  /\ codes = {}
  /\ exchange = [x \in Exchanges |-> Idle]
  /\ granted = {}

\* build_auth_url: a new session, and the old ones in the store are cleaned away.
Generate(id) ==
  /\ id \notin issued
  /\ pending' = (pending \ expired) \cup {id}
  /\ issued' = issued \cup {id}
  /\ UNCHANGED <<expired, codes, exchange, granted>>

\* The user logs in, and the provider issues a code for the challenge (external).
Authorize(id) ==
  /\ id \in issued \ codes
  /\ codes' = codes \cup {id}
  /\ UNCHANGED <<pending, expired, issued, exchange, granted>>

Age(id) ==
  /\ id \in issued \ expired
  /\ expired' = expired \cup {id}
  /\ UNCHANGED <<pending, issued, codes, exchange, granted>>

\* Fault: the session is looked up and stays in the store.
Peek(id) == id \in pending /\ UNCHANGED pending

Take(id) == id \in pending /\ pending' = pending \ {id}

\* do_exchange with some code: the session is gone from here on, too old or not.
Begin(x, id, code) ==
  /\ exchange[x] = Idle
  /\ code \in codes
  /\ Take(id)
  /\ exchange' = IF id \in expired THEN exchange
                 ELSE [exchange EXCEPT ![x] = [code |-> code, verifier |-> id]]
  /\ UNCHANGED <<expired, issued, codes, granted>>

\* exchange_core: the provider (external) wants the verifier of the code's own
\* challenge, and redeems a code once.  A refusal, an error or a lost answer ends
\* the call, and the session is not put back.
Finish(x) ==
  LET e == exchange[x] IN
  /\ e # Idle
  /\ exchange' = [exchange EXCEPT ![x] = Idle]
  /\ \/ /\ e.code = e.verifier
        /\ granted' = granted \cup {e}
        /\ codes' = codes \ {e.code}
     \/ UNCHANGED <<granted, codes>>
  /\ UNCHANGED <<pending, expired, issued>>

LoginNext ==
  \/ \E id \in Logins : Generate(id) \/ Authorize(id) \/ Age(id)
  \/ \E x \in Exchanges : Finish(x) \/ \E id, code \in Logins : Begin(x, id, code)

LoginSpec == LoginInit /\ [][LoginNext]_loginVars

---------------------------------------------------------------------------
(* Properties.                                                             *)

(***************************************************************************)
(* A session serves one exchange: it is in the store or in one call, never *)
(* in two, so that of two clicks on the same form one gets the tokens; and *)
(* no login that has been exchanged can be exchanged again.                *)
(***************************************************************************)
LoginOnce ==
  \A id \in Logins :
    LET users == {x \in Exchanges : exchange[x].verifier = id} IN
    /\ Cardinality(users) <= 1
    /\ id \in pending => users = {} /\ [code |-> id, verifier |-> id] \notin granted
===============================================================================
