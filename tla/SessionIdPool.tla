------------------------------ MODULE SessionIdPool ------------------------------
(***************************************************************************)
(* The pool of session ids that the accounts in normalize mode show        *)
(* upstream (GatewayService::map_session_id): the session id of a request  *)
(* is hashed to a slot of its account, and goes out as the id that the     *)
(* slot took up last.  The slots of all accounts are behind one            *)
(* std::sync::Mutex, which a panic under the lock leaves poisoned.         *)
(***************************************************************************)
EXTENDS Naturals, Sequences

CONSTANTS
  PoolAccounts,
  RealIds,        \* the session ids of the clients
  HashOf,         \* HashOf[s]: fnv1a of the id
  PoolWidth,      \* PoolWidth[a]: slots of account a in pool mode, 3 or 4
  PoolCallers     \* requests

ASSUME PoolAssumption ==
  /\ HashOf \in [RealIds -> Nat]
  /\ PoolWidth \in [PoolAccounts -> {3, 4}]

VARIABLES
  mode,       \* session_mode of the account's row
  slots,      \* the slots of the account, <<>> before its first request
  asking,     \* the request's account, id and pool size, once they are read
  poisoned,   \* has a thread panicked with the lock?
  saving,     \* saving[a]: spawned writes of the ids of a, the current or older ones
  shown       \* captured_session of the account's row, likewise

poolVars == <<mode, slots, asking, poisoned, saving, shown>>

Empty == [id |-> "none", over |-> TRUE]

NotAsking == [acct |-> "none", id |-> "none", size |-> 0]

PoolInit ==
  /\ mode \in [PoolAccounts -> {"single", "pool"}]
  /\ slots = [a \in PoolAccounts |-> <<>>]
  /\ asking = [c \in PoolCallers |-> NotAsking]
  /\ poisoned = FALSE
  /\ saving = [a \in PoolAccounts |-> {}]
  /\ shown = [a \in PoolAccounts |-> "none"]

\* session_pool_size; "off" maps no ids.
PoolSize(a) == IF mode[a] = "pool" THEN PoolWidth[a] ELSE 1

\* The administrator changes the mode of an account.
SetMode(a) ==
  /\ \E m \in {"single", "pool", "off"} : mode' = [mode EXCEPT ![a] = m]
  /\ UNCHANGED <<slots, asking, poisoned, saving, shown>>

\* A request has read the row of the account it was given.
Ask(c, a, id) ==
  /\ asking[c] = NotAsking
  /\ mode[a] # "off"
  /\ asking' = [asking EXCEPT ![c] = [acct |-> a, id |-> id, size |-> PoolSize(a)]]
  /\ UNCHANGED <<mode, slots, poisoned, saving, shown>>

\* Fault: the remainder is taken of a size that is one too large.
SlotTooFar(id, n) == 1 + (HashOf[id] % (n + 1))

SlotOf(id, n) == 1 + (HashOf[id] % n)

\* The window of 15 to 20 minutes of a slot passes.
Rotate(a, i) ==
  /\ slots' = [slots EXCEPT ![a][i].over = TRUE]
  /\ UNCHANGED <<mode, asking, poisoned, saving, shown>>

TakenUp(entry) == entry.over

\* The ids of a have changed and are to be saved: what was current is older.
Save(a) ==
  /\ saving' = [saving EXCEPT ![a] =
       {"current"} \cup (IF @ = {} THEN {} ELSE {"older"})]
  /\ shown' = [shown EXCEPT ![a] = IF @ = "none" THEN @ ELSE "older"]

\* lock, entry, or_insert_with, slots[slot]: an account keeps the number of slots
\* of its first request, and an index beyond it panics.
MapId(c) ==
  LET q == asking[c]
      a == q.acct
      n == q.size
      has == IF slots[a] = <<>> THEN [i \in 1..n |-> Empty] ELSE slots[a]
      i == SlotOf(q.id, n)
      new == [has EXCEPT ![i] = [id |-> q.id, over |-> FALSE]]
  IN
  /\ q # NotAsking
  /\ ~poisoned
  /\ asking' = [asking EXCEPT ![c] = NotAsking]
  /\ poisoned' = (i > Len(has))
  /\ IF i <= Len(has) /\ TakenUp(has[i])
       THEN /\ slots' = [slots EXCEPT ![a] = new]
            /\ Save(a)
       ELSE /\ slots' = [slots EXCEPT ![a] = has]
            /\ UNCHANGED <<saving, shown>>
  /\ UNCHANGED mode

\* The lock is poisoned: unwrap panics, and the request ends without an answer.
PanicAgain(c) ==
  /\ asking[c] # NotAsking
  /\ poisoned
  /\ asking' = [asking EXCEPT ![c] = NotAsking]
  /\ UNCHANGED <<mode, slots, poisoned, saving, shown>>

\* persist_captured_session: the spawned writes come in any order.
Persist(a, w) ==
  /\ w \in saving[a]
  /\ saving' = [saving EXCEPT ![a] = @ \ {w}]
  /\ shown' = [shown EXCEPT ![a] = w]
  /\ UNCHANGED <<mode, slots, asking, poisoned>>

PoolNext ==
  \/ \E a \in PoolAccounts :
       \/ SetMode(a)
       \/ \E w \in saving[a] : Persist(a, w)
       \/ \E i \in 1..Len(slots[a]) : Rotate(a, i)
       \/ \E c \in PoolCallers, id \in RealIds : Ask(c, a, id)
  \/ \E c \in PoolCallers : MapId(c) \/ PanicAgain(c)

PoolSpec == PoolInit /\ [][PoolNext]_poolVars

---------------------------------------------------------------------------
(* Properties.                                                             *)

(***************************************************************************)
(* The lock is poisoned only by an account that began with fewer slots     *)
(* than it was asked for later, when its mode went from single to pool.    *)
(* Nothing else takes the session ids of all accounts down.                *)
(***************************************************************************)
PanicExplained ==
  poisoned =>
    \E a \in PoolAccounts : Len(slots[a]) \in 1..(PoolWidth[a] - 1)
===============================================================================
