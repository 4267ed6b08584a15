----------------------------- MODULE OAuthRefresh -----------------------------
(***************************************************************************)
(* Refreshing the OAuth credentials of one account                         *)
(* (AccountService::resolve_oauth_access_token and                         *)
(* refresh_oauth_access_token in service/account.rs).                      *)
(*                                                                         *)
(* Whoever needs an access token (a request, the usage poller, telemetry,  *)
(* the admin page) reads the row.  If the token is about to expire, one of *)
(* them takes a lock and asks the authority for a new pair with the        *)
(* refresh token of the row; the others poll the row.  The lock has a time *)
(* to live of 30 s; the call may take 300 s, and the authority may replace *)
(* the refresh token with every call, so that the old one is refused from  *)
(* then on.                                                                *)
(*                                                                         *)
(* Tokens are numbered in the order in which they are issued.  An OAuth    *)
(* row always has a refresh token (normalize_account_auth refuses others); *)
(* the change of an account to a setup token is left out.                  *)
(***************************************************************************)
EXTENDS Naturals

CONSTANTS
  Callers,
  NoCaller,      \* nobody has the lock
  MaxPolls,      \* OAUTH_WAIT_ATTEMPTS
  MaxIssued,     \* bound: tokens issued in a behaviour
  MaxEdits       \* bound: edits of the row in a behaviour

ASSUME RefreshAssumption ==
  /\ NoCaller \notin Callers
  /\ MaxPolls \in Nat \ {0}
  /\ MaxIssued \in Nat \ {0}
  /\ MaxEdits \in Nat

Tokens == 1..MaxIssued
Empty == 0               \* no access token
NoAnswer == MaxIssued + 1
Error == MaxIssued + 2

\* A pair without tokens: a refused call; no edit.
Nothing == [access |-> Empty, refresh |-> Empty]

\* The row has not been re-read.
NoCopy == [access |-> Empty, refresh |-> Empty, usable |-> FALSE]

VARIABLES
  row,       \* access_token, refresh_token and auth_error of the account
  life,      \* life[t]: what is left of access token t (see Lives)
  lock,      \* the holder of the lock oauth:refresh:account:<id>
  pc,        \* pc[c]: where caller c is
  polls,     \* polls[c]: how often c has polled the row
  mine,      \* mine[c]: the row as c re-read it under the lock
  reply,     \* reply[c]: the pair on its way to c, or Nothing
  answer,    \* answer[c]: the token c returns, NoAnswer or Error
  edit,      \* the pair in the copy of an edit under way, or Nothing
  edits,     \* counts the edits, up to MaxEdits
  latest,    \* the refresh token that the authority accepts
  issued,    \* the last token issued
  overrun,   \* history: the callers inside whose lock ran out
  faults     \* history: what went wrong (see Faults)

rowVars == <<row, life>>
admin == <<edit, edits>>
authority == <<latest, issued>>
history == <<overrun, faults>>
vars == <<row, life, lock, pc, polls, mine, reply, answer, edit, edits, latest,
          issued, overrun, faults>>

\* "fresh": more than OAUTH_REFRESH_BUFFER_SECONDS to go; "closing": less.
Lives == {"fresh", "closing", "expired"}

\* "inside" the lock: about to re-read the row, to hear of the authority (the
\* call, its reply) or to release.
Inside == {"reread", "call", "reply", "release"}
Places == {"idle", "lock", "wait", "return"} \cup Inside

(***************************************************************************)
(* "lost"     the reply with a new pair did not reach the row              *)
(* "overrun"  the lock ran out under a caller inside                       *)
(* "edited"   an edit put an older pair back                               *)
(***************************************************************************)
Faults == {"lost", "overrun", "edited"}

Init ==
  /\ row \in [access : {Empty, 1}, refresh : {1}, error : {FALSE}]
  /\ life \in {[t \in 0..MaxIssued |-> IF t = 1 THEN x ELSE "expired"] : x \in Lives}
  /\ lock = NoCaller
  /\ pc = [c \in Callers |-> "idle"]
  /\ polls = [c \in Callers |-> 0]
  /\ mine = [c \in Callers |-> NoCopy]
  /\ reply = [c \in Callers |-> Nothing]
  /\ answer = [c \in Callers |-> NoAnswer]
  /\ edit = Nothing
  /\ edits = 0
  /\ latest = 1
  /\ issued = 1
  /\ overrun = {}
  /\ faults = {}

\* has_valid_oauth_access_token of the row.
RowValid == row.access # Empty /\ life[row.access] = "fresh"

GoTo(c, place) == pc' = [pc EXCEPT ![c] = place]
Say(c, a) == answer' = [answer EXCEPT ![c] = a]

\* The variables of a call end with it.
Forget(c) ==
  /\ polls' = [polls EXCEPT ![c] = 0]
  /\ mine' = [mine EXCEPT ![c] = NoCopy]
  /\ reply' = [reply EXCEPT ![c] = Nothing]
-------------------------------------------------------------------------------
\* A caller reads the row and uses its token if that is good for a while.
Start(c) ==
  /\ pc[c] = "idle"
  /\ \/ RowValid /\ Say(c, row.access) /\ GoTo(c, "return")
     \/ ~ RowValid /\ GoTo(c, "lock") /\ UNCHANGED answer
  /\ UNCHANGED <<rowVars, lock, polls, mine, reply, admin, authority, history>>

\* acquire_lock: SET NX with a time to live.
AcquireLock(c) ==
  /\ pc[c] = "lock"
  /\ \/ lock = NoCaller /\ lock' = c /\ GoTo(c, "reread")
     \/ lock # NoCaller /\ GoTo(c, "wait") /\ UNCHANGED lock
  /\ UNCHANGED <<rowVars, polls, mine, reply, answer, admin, authority, history>>

\* The cache or the database fails before the authority is asked.
StoreDown(c) ==
  /\ pc[c] \in {"lock", "wait", "reread"}
  /\ GoTo(c, IF pc[c] = "reread" THEN "release" ELSE "return")
  /\ Say(c, Error)
  /\ Forget(c)
  /\ UNCHANGED <<rowVars, lock, admin, authority, history>>

\* Fault: the token of the row is not looked at again.
RereadUnchecked(c) ==
  /\ pc[c] = "reread"
  /\ mine' = [mine EXCEPT ![c] =
                [access |-> row.access, refresh |-> row.refresh,
                 usable |-> row.access # Empty /\ life[row.access] # "expired"]]
  /\ GoTo(c, "call")
  /\ UNCHANGED <<rowVars, lock, polls, reply, answer, admin, authority, history>>

\* Under the lock the row is read again: somebody may have refreshed it.
Reread(c) ==
  /\ pc[c] = "reread"
  /\ \/ /\ RowValid
        /\ Say(c, row.access)
        /\ GoTo(c, "release")
        /\ UNCHANGED mine
     \/ /\ ~ RowValid
        /\ mine' = [mine EXCEPT ![c] =
                      [access |-> row.access, refresh |-> row.refresh,
                       usable |-> row.access # Empty /\ life[row.access] # "expired"]]
        /\ GoTo(c, "call")
        /\ UNCHANGED answer
  /\ UNCHANGED <<rowVars, lock, polls, reply, admin, authority, history>>
-------------------------------------------------------------------------------
(***************************************************************************)
(* The authority accepts the refresh token and issues a pair; it may       *)
(* replace the refresh token or send none (refresh_oauth_token then takes  *)
(* the one it used).                                                       *)
(***************************************************************************)
Grant(c) ==
  /\ pc[c] = "call"
  /\ mine[c].refresh = latest
  /\ issued < MaxIssued
  /\ issued' = issued + 1
  /\ \E r \in {latest, issued + 1} :
       /\ latest' = r
       /\ reply' = [reply EXCEPT ![c] =
                       [access |-> issued + 1,
                        refresh |-> IF r = latest THEN mine[c].refresh ELSE r]]
  /\ GoTo(c, "reply")
  /\ UNCHANGED <<rowVars, lock, polls, mine, answer, admin, history>>

\* The authority refuses the token, answers an error or is not reached.
Refuse(c) ==
  /\ pc[c] = "call"
  /\ reply' = [reply EXCEPT ![c] = Nothing]
  /\ GoTo(c, "reply")
  /\ UNCHANGED <<rowVars, lock, polls, mine, answer, admin, authority, history>>

\* The connection breaks, or times out, after the authority has acted.
LoseReply(c) ==
  /\ pc[c] = "reply"
  /\ reply[c] # Nothing
  /\ reply' = [reply EXCEPT ![c] = Nothing]
  /\ faults' = faults \cup {"lost"}
  /\ UNCHANGED <<rowVars, lock, pc, polls, mine, answer, admin, authority, overrun>>

StorePair(c, pair) ==
  /\ pc[c] = "reply"
  /\ reply[c] # Nothing
  /\ row' = [access |-> pair.access, refresh |-> pair.refresh, error |-> FALSE]
  /\ \E x \in Lives : life' = [life EXCEPT ![pair.access] = x]
  /\ Say(c, pair.access)
  /\ GoTo(c, "release")
  /\ Forget(c)
  /\ UNCHANGED <<lock, admin, authority, history>>

\* Fault: the new refresh token is not stored.
StoreAccess(c) == StorePair(c, [reply[c] EXCEPT !.refresh = mine[c].refresh])

\* update_oauth_tokens writes the pair and clears the error.  How long the access
\* token lives is up to the authority, and counts from its reply: the token is
\* stored and returned even if it is about to expire.
Store(c) == StorePair(c, reply[c])

\* update_oauth_tokens fails: the pair is gone.
StoreFails(c) ==
  /\ pc[c] = "reply"
  /\ reply[c] # Nothing
  /\ Say(c, Error)
  /\ GoTo(c, "release")
  /\ faults' = faults \cup {"lost"}
  /\ Forget(c)
  /\ UNCHANGED <<rowVars, lock, admin, authority, overrun>>

\* Fault: the access token of the row serves as it is.
FallBackBlindly(c) ==
  /\ pc[c] = "reply"
  /\ reply[c] = Nothing
  /\ row' = [row EXCEPT !.error = TRUE]
  /\ Say(c, IF mine[c].access # Empty THEN mine[c].access ELSE Error)
  /\ GoTo(c, "release")
  /\ Forget(c)
  /\ UNCHANGED <<life, lock, admin, authority, history>>

(***************************************************************************)
(* The refresh failed: the error is noted (or that fails too, which is     *)
(* ignored), and the access token of the row serves once more if it had    *)
(* not expired when the row was read.                                      *)
(***************************************************************************)
FallBack(c) ==
  /\ pc[c] = "reply"
  /\ reply[c] = Nothing
  /\ row' \in {row, [row EXCEPT !.error = TRUE]}
  /\ Say(c, IF mine[c].usable THEN mine[c].access ELSE Error)
  /\ GoTo(c, "release")
  /\ Forget(c)
  /\ UNCHANGED <<life, lock, admin, authority, history>>

Leave(c, still) ==
  /\ pc[c] = "release"
  /\ lock' = still
  /\ overrun' = overrun \ {c}
  /\ GoTo(c, "return")
  /\ UNCHANGED <<rowVars, polls, mine, reply, answer, admin, authority, faults>>

\* Fault: whatever lock there is is deleted.
ReleaseAny(c) == Leave(c, NoCaller)

\* release_lock deletes the lock only if this call still owns it.
Release(c) == Leave(c, IF lock = c THEN NoCaller ELSE lock)

Poll(c, count) ==
  /\ pc[c] = "wait"
  /\ \/ RowValid /\ Say(c, row.access) /\ GoTo(c, "return") /\ Forget(c)
     \/ ~ RowValid /\ count >= MaxPolls /\ Say(c, Error) /\ GoTo(c, "return") /\ Forget(c)
     \/ /\ ~ RowValid
        /\ count < MaxPolls
        /\ polls' = [polls EXCEPT ![c] = count]
        /\ UNCHANGED <<pc, mine, reply, answer>>
  /\ UNCHANGED <<rowVars, lock, admin, authority, history>>

\* Fault: the polls are not counted.
PollForEver(c) == Poll(c, polls[c])

\* Another caller has the lock: look at the row now and then, and give up.
PollRow(c) == Poll(c, polls[c] + 1)

\* The caller has its token, or its error.
Return(c) ==
  /\ pc[c] = "return"
  /\ Say(c, NoAnswer)
  /\ GoTo(c, "idle")
  /\ UNCHANGED <<rowVars, lock, polls, mine, reply, admin, authority, history>>
-------------------------------------------------------------------------------
(***************************************************************************)
(* The client of the caller disconnects and its future is dropped wherever *)
(* it is.  Nobody releases the lock, and nobody hears what the authority   *)
(* has answered.                                                           *)
(***************************************************************************)
Drop(c) ==
  /\ pc[c] # "idle"
  /\ GoTo(c, "idle")
  /\ Say(c, NoAnswer)
  /\ overrun' = overrun \ {c}
  /\ faults' = IF pc[c] = "reply" /\ reply[c] # Nothing
                 THEN faults \cup {"lost"} ELSE faults
  /\ Forget(c)
  /\ UNCHANGED <<rowVars, lock, admin, authority>>

\* OAUTH_LOCK_TTL is over, whether its owner is still inside or was dropped.
LockExpires ==
  /\ lock # NoCaller
  /\ lock' = NoCaller
  /\ IF pc[lock] \in Inside
       THEN overrun' = overrun \cup {lock} /\ faults' = faults \cup {"overrun"}
       ELSE UNCHANGED history
  /\ UNCHANGED <<rowVars, pc, polls, mine, reply, answer, admin, authority>>

\* An access token ages (one that neither the row nor a copy of it holds is of
\* no use any more).
Age(t) ==
  /\ t \in {row.access, edit.access}
  /\ life[t] # "expired"
  /\ life' = [life EXCEPT ![t] = IF @ = "fresh" THEN "closing" ELSE "expired"]
  /\ UNCHANGED <<row, lock, pc, polls, mine, reply, answer, admin, authority, history>>

\* update_account reads the row for an edit of another column...
EditRead ==
  /\ edit = Nothing
  /\ edits < MaxEdits
  /\ edits' = edits + 1
  /\ edit' = [access |-> row.access, refresh |-> row.refresh]
  /\ UNCHANGED <<rowVars, lock, pc, polls, mine, reply, answer, authority, history>>

\* ... and writes the whole copy back, without the error (normalize_account_auth).
EditWrite ==
  /\ edit # Nothing
  /\ row' = [access |-> edit.access, refresh |-> edit.refresh, error |-> FALSE]
  /\ edit' = Nothing
  /\ faults' = IF edit = [access |-> row.access, refresh |-> row.refresh]
                 THEN faults ELSE faults \cup {"edited"}
  /\ UNCHANGED <<life, lock, pc, polls, mine, reply, answer, edits, authority, overrun>>

\* What a call does once it has started.
Progress(c) ==
  \/ AcquireLock(c) \/ Reread(c) \/ Grant(c) \/ Refuse(c) \/ Store(c)
  \/ FallBack(c) \/ Release(c) \/ PollRow(c) \/ Return(c)

\* What may happen to it, and need not.
Mishap(c) == StoreDown(c) \/ LoseReply(c) \/ StoreFails(c) \/ Drop(c)

Next ==
  \/ \E c \in Callers : Start(c) \/ Progress(c) \/ Mishap(c)
  \/ LockExpires
  \/ \E t \in Tokens : Age(t)
  \/ EditRead
  \/ EditWrite

Spec == Init /\ [][Next]_vars

(***************************************************************************)
(* A future that is not dropped is polled, the call of the authority times *)
(* out after 300 s, and the time to live of a lock runs out.               *)
(***************************************************************************)
FairSpec ==
  /\ Spec
  /\ \A c \in Callers : WF_vars(Progress(c))
  /\ WF_vars(LockExpires)
-------------------------------------------------------------------------------
Pairs == [access : Tokens, refresh : Tokens] \cup {Nothing}
Copies == [access : 0..MaxIssued, refresh : Tokens, usable : BOOLEAN] \cup {NoCopy}

TypeOK ==
  /\ row \in [access : 0..MaxIssued, refresh : Tokens, error : BOOLEAN]
  /\ life \in [0..MaxIssued -> Lives]
  /\ lock \in Callers \cup {NoCaller}
  /\ pc \in [Callers -> Places]
  /\ polls \in [Callers -> 0..MaxPolls]
  /\ mine \in [Callers -> Copies]
  /\ \A c \in Callers : mine[c].usable => mine[c].access # Empty
  /\ reply \in [Callers -> Pairs]
  /\ answer \in [Callers -> Tokens \cup {NoAnswer, Error}]
  /\ edit \in [access : 0..MaxIssued, refresh : Tokens] \cup {Nothing}
  /\ edits \in 0..MaxEdits
  /\ latest \in Tokens
  /\ issued \in Tokens
  /\ overrun \in SUBSET Callers
  /\ faults \in SUBSET Faults

(***************************************************************************)
(* Two callers are inside at the same time only if the lock of one of them *)
(* ran out: a caller that was too slow, or that starts again after it was  *)
(* dropped, never frees the lock of another.                               *)
(***************************************************************************)
OneInside ==
  \A c, d \in Callers :
    pc[c] \in Inside /\ pc[d] \in Inside /\ c # d => c \in overrun \/ d \in overrun

(***************************************************************************)
(* The only ways for an account to lose its credentials.  The row holds    *)
(* the refresh token that the authority accepts, or that token is on its   *)
(* way to the one caller that will store it; unless a reply was lost (the  *)
(* client of the caller disconnects, the connection breaks, the write      *)
(* fails), a lock ran out, or an edit put an older pair back.              *)
(***************************************************************************)
CredentialsKept ==
  row.refresh # latest /\ faults = {} =>
    \E c \in Callers : pc[c] = "reply" /\ reply[c].refresh = latest

(***************************************************************************)
(* An account does not show an authentication error beside a token that    *)
(* was just refreshed: without a lock that ran out (or an old pair put     *)
(* back), nobody asks with a refresh token that another caller has spent.  *)
(***************************************************************************)
ErrorExplained ==
  row.error /\ RowValid => faults \cap {"overrun", "edited"} # {}

(***************************************************************************)
(* A caller never gets an expired token, nor one about to expire, but for  *)
(* two cases, both of the holder of the lock: it gets the token that the   *)
(* authority has just issued to it, however short its life, or, if its     *)
(* refresh failed, the token that had not expired when it re-read the row  *)
(* (it may have by now, as the call takes up to 300 s).  Those who waited  *)
(* for it get an error in both.                                            *)
(***************************************************************************)
AnswersFresh ==
  [][\A c \in Callers :
       answer'[c] # answer[c] /\ answer'[c] \in Tokens =>
         \/ life'[answer'[c]] = "fresh"
         \/ pc[c] = "reply" /\ answer'[c] = reply[c].access
         \/ pc[c] = "reply" /\ mine[c].usable /\ answer'[c] = mine[c].access]_vars

(***************************************************************************)
(* Nobody waits for ever, and a lock that nobody will release becomes free *)
(* again.                                                                  *)
(***************************************************************************)
CallsEnd ==
  /\ \A c \in Callers : pc[c] # "idle" ~> pc[c] = "idle"
  /\ lock # NoCaller ~> lock = NoCaller

===============================================================================
