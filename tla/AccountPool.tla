------------------------------ MODULE AccountPool ------------------------------
(***************************************************************************)
(* The scheduling state of the account rows (store/account_store.rs) and   *)
(* everybody who writes it: the requests that were sent to an account and  *)
(* react to its answer (service/gateway.rs, service/account.rs), and the   *)
(* administrator (handler/router.rs).                                      *)
(*                                                                         *)
(* A row is in rotation while its status is active and its cooldown has    *)
(* run out.  A request selects a row, keeps the copy it read for the whole *)
(* upstream call, and writes status and cooldown together when the answer  *)
(* is a 401/403, a billing refusal or a 429: nobody compares the row it    *)
(* writes with the row it read.                                            *)
(*                                                                         *)
(* Time: rate_limit_reset_at is abstracted to the kind of cooldown that    *)
(* set it and to whether half of it has passed; either half may pass at    *)
(* any moment, and a write of the column starts again with the first.      *)
(***************************************************************************)
EXTENDS Naturals, FiniteSets

CONSTANTS
  Requests,    \* the requests being served
  Accounts,    \* the ids of the table; an id is never used again
  NoAccount,   \* the request is not on an account
  Kinds,       \* the cooldowns that answers of the upstream may ask for
  AdminMay     \* what the administrator does besides enabling: "disable" rows;
               \* "edit", create and delete them

\* 60 s, 120 s, and the reset time of the five-hour or the seven-day window.
Cooldowns == {"none", "burst", "billing", "fiveHour", "sevenDay"}

\* Of a row; "new" and "gone" are ids without a row, before and after it.
Statuses == {"active", "error", "disabled", "new", "gone"}

NoEdit == "noEdit"

ASSUME PoolAssumption ==
  /\ NoAccount \notin Accounts
  /\ Kinds \subseteq Cooldowns \ {"none"}
  /\ AdminMay \subseteq {"disable", "edit"}

VARIABLES
  status,   \* accounts.status
  cool,     \* accounts.rate_limit_reset_at: the cooldown that is running
  half,     \* half[a]: TRUE if half of that cooldown has passed
  acct,     \* acct[r]: the account request r has selected
  snap,     \* snap[r]: the cooldown in the copy of the row that r selected
  edit      \* edit[a]: the status an edit of row a will write back

poolVars == <<status, cool, half, acct, snap, edit>>

Init ==
  /\ status \in [Accounts -> IF "edit" \in AdminMay THEN {"active", "new"} ELSE {"active"}]
  /\ cool = [a \in Accounts |-> "none"]
  /\ half = [a \in Accounts |-> FALSE]
  /\ acct = [r \in Requests |-> NoAccount]
  /\ snap = [r \in Requests |-> "none"]
  /\ edit = [a \in Accounts |-> NoEdit]

\* Faults: the cooldown or the status is not looked at.
IgnoresCooldown(a) == status[a] = "active"
IgnoresStatus(a) == cool[a] = "none"

\* Account::is_schedulable and the WHERE clause of list_schedulable.
Schedulable(a) == status[a] = "active" /\ cool[a] = "none"

HasRow(a) == status[a] \notin {"new", "gone"}

\* AccountStore::disable_account writes both columns, whatever the row holds; a row
\* that is gone is not put back.
DisableAccount(a, st, c) ==
  IF HasRow(a)
    THEN /\ status' = [status EXCEPT ![a] = st]
         /\ cool' = [cool EXCEPT ![a] = c]
         /\ half' = [half EXCEPT ![a] = FALSE]
    ELSE UNCHANGED <<status, cool, half>>

Leave(r) ==
  /\ acct' = [acct EXCEPT ![r] = NoAccount]
  /\ snap' = [snap EXCEPT ![r] = "none"]
-------------------------------------------------------------------------------
\* select_account returns a copy of a row in rotation.
Select(r, a) ==
  /\ acct[r] = NoAccount
  /\ Schedulable(a)
  /\ acct' = [acct EXCEPT ![r] = a]
  /\ snap' = [snap EXCEPT ![r] = cool[a]]
  /\ UNCHANGED <<status, cool, half, edit>>

(***************************************************************************)
(* The request leaves the account without touching its row: any other      *)
(* answer, an error, a client that disconnects, or one of the writes below *)
(* that fails (every caller of disable_account only logs that).            *)
(***************************************************************************)
Finish(r) ==
  /\ acct[r] # NoAccount
  /\ Leave(r)
  /\ UNCHANGED <<status, cool, half, edit>>

(***************************************************************************)
(* The upstream answered 401 or 403: forward_request disables the account  *)
(* for good unless the copy it selected was cooling down.                  *)
(***************************************************************************)
AuthFailure(r) ==
  /\ acct[r] # NoAccount
  /\ IF snap[r] # "none"
       THEN UNCHANGED <<status, cool, half>>
       ELSE DisableAccount(acct[r], "disabled", "none")
  /\ Leave(r)
  /\ UNCHANGED edit

(***************************************************************************)
(* The upstream answered 429 (handle_rate_limit) or refused the billing    *)
(* (handle_request_inner): the row becomes active with a cooldown.         *)
(***************************************************************************)
Quarantine(r, k) ==
  /\ acct[r] # NoAccount
  /\ k \in Kinds
  /\ DisableAccount(acct[r], "active", k)
  /\ Leave(r)
  /\ UNCHANGED edit

\* The first half of a cooldown passes...
PassHalf(a) ==
  /\ cool[a] # "none"
  /\ ~ half[a]
  /\ half' = [half EXCEPT ![a] = TRUE]
  /\ UNCHANGED <<status, cool, acct, snap, edit>>

\* ... and the second, unless a new cooldown has replaced it: the row is free.
Expire(a) ==
  /\ cool[a] # "none"
  /\ half[a]
  /\ cool' = [cool EXCEPT ![a] = "none"]
  /\ half' = [half EXCEPT ![a] = FALSE]
  /\ UNCHANGED <<status, acct, snap, edit>>

TimePasses(a) == PassHalf(a) \/ Expire(a)
-------------------------------------------------------------------------------
\* update_account with status "active".
Enable(a) ==
  /\ HasRow(a)
  /\ DisableAccount(a, "active", "none")
  /\ UNCHANGED <<acct, snap, edit>>

\* update_account with status "disabled".
ManualDisable(a) ==
  /\ "disable" \in AdminMay
  /\ HasRow(a)
  /\ DisableAccount(a, "disabled", "none")
  /\ UNCHANGED <<acct, snap, edit>>

(***************************************************************************)
(* update_account with any other body reads the row.  Without a status it  *)
(* keeps the one it read; "error" is taken as it is; any other word becomes*)
(* active (From<String> for AccountStatus), its cooldown untouched...      *)
(***************************************************************************)
EditRead(a) ==
  /\ "edit" \in AdminMay
  /\ HasRow(a)
  /\ edit[a] = NoEdit
  /\ \E st \in {status[a], "error", "active"} : edit' = [edit EXCEPT ![a] = st]
  /\ UNCHANGED <<status, cool, half, acct, snap>>

\* ... and writes every column of its copy back, except the cooldown.
EditWrite(a) ==
  /\ edit[a] # NoEdit
  /\ status' = [status EXCEPT ![a] = IF HasRow(a) THEN edit[a] ELSE @]
  /\ edit' = [edit EXCEPT ![a] = NoEdit]
  /\ UNCHANGED <<cool, half, acct, snap>>

\* create_account: the row is in rotation at once.
Create(a) ==
  /\ status[a] = "new"
  /\ status' = [status EXCEPT ![a] = "active"]
  /\ UNCHANGED <<cool, half, acct, snap, edit>>

\* delete_account looks neither at the requests on the account nor at edits of it.
Delete(a) ==
  /\ "edit" \in AdminMay
  /\ HasRow(a)
  /\ status' = [status EXCEPT ![a] = "gone"]
  /\ cool' = [cool EXCEPT ![a] = "none"]
  /\ half' = [half EXCEPT ![a] = FALSE]
  /\ UNCHANGED <<acct, snap, edit>>

AdminStep(a) ==
  \/ Enable(a) \/ ManualDisable(a) \/ EditRead(a) \/ EditWrite(a)
  \/ Create(a) \/ Delete(a)

Next ==
  \/ \E r \in Requests :
       \/ \E a \in Accounts : Select(r, a)
       \/ Finish(r)
       \/ AuthFailure(r)
       \/ \E k \in Kinds : Quarantine(r, k)
  \/ \E a \in Accounts : TimePasses(a) \/ AdminStep(a)

Spec == Init /\ [][Next]_poolVars

\* Time passes; nothing obliges an answer, a request or the administrator.
FairSpec == Spec /\ \A a \in Accounts : WF_poolVars(TimePasses(a))
-------------------------------------------------------------------------------
TypeOK ==
  /\ status \in [Accounts -> Statuses]
  /\ cool \in [Accounts -> Cooldowns]
  /\ half \in [Accounts -> BOOLEAN]
  /\ acct \in [Requests -> Accounts \cup {NoAccount}]
  /\ snap \in [Requests -> Cooldowns]
  /\ edit \in [Accounts -> {"active", "error", "disabled", NoEdit}]

(***************************************************************************)
(* The copy of the row that a request carries never shows a cooldown, as   *)
(* select_account returns only rows whose cooldown is over.  So the test   *)
(* "already rate limited" of forward_request looks at the wrong copy: it   *)
(* is false whenever it is evaluated, and every 401/403 disables.          *)
(***************************************************************************)
SnapshotNeverLimited == \A r \in Requests : snap[r] = "none"

Quiet(a) ==
  /\ status[a] = "disabled"
  /\ edit[a] = NoEdit
  /\ \A r \in Requests : acct[r] # a

(***************************************************************************)
(* What remains of "disabled until enabled by hand": once nobody is left   *)
(* on a disabled account and no edit of it is pending, no request or edit  *)
(* can bring it back; only update_account with a status can.  An account   *)
(* that was deleted is not even put back by late answers and late edits.   *)
(***************************************************************************)
QuietStaysDisabled ==
  [][\A a \in Accounts :
       /\ Quiet(a) /\ ~ Quiet(a)' => Enable(a) \/ EditRead(a) \/ Delete(a)
       /\ status[a] = "gone" => status'[a] = "gone"]_poolVars

(***************************************************************************)
(* A quarantine is never for ever: every late answer renews it in full, but*)
(* only requests that were on the account before can send one, since none  *)
(* is given an account that is cooling down.                               *)
(***************************************************************************)
QuarantineEnds == \A a \in Accounts : cool[a] # "none" ~> cool[a] = "none"

(***************************************************************************)
(* README, cooldown tables: an account disabled by a 401/403 is enabled by *)
(* hand only.  To be checked where only a 401/403 disables (AdminMay = {}):*)
(* refuted by the late 429 of a request that was already on the account    *)
(* when the 403 of another one disabled it.                                *)
(***************************************************************************)
DisabledUntilEnabled ==
  [][\A a \in Accounts :
       status[a] = "disabled" /\ status'[a] # "disabled" =>
         Enable(a) \/ Delete(a)]_poolVars

(***************************************************************************)
(* README: a 403 received while the account is rate limited does not       *)
(* disable it for good.  Refuted: the cooldown that another request wrote  *)
(* after this one selected the account is not seen.                        *)
(***************************************************************************)
NoEscalation ==
  [][\A a \in Accounts :
       cool[a] # "none" /\ status[a] = "active" /\ status'[a] = "disabled"
         => ManualDisable(a)]_poolVars
===============================================================================
