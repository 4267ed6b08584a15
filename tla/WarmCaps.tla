--------------------------------- MODULE WarmCaps ---------------------------------
(***************************************************************************)
(* How many sessions an account may have at its age (WarmupConfig and      *)
(* warm_effective_max in service/account.rs): a schedule of ages and caps, *)
(* combined with the account's own limit.  Zero means any number, of       *)
(* either.  SessionAdmission takes the result as its constant MaxSessions. *)
(* Administrators set the schedule (update_settings in handler/router.rs): *)
(* an update copies the running configuration, saves the fields it was     *)
(* given one after the other, and puts its copy in the place of the        *)
(* running configuration.  A restart loads what was saved.                 *)
(***************************************************************************)
EXTENDS Integers, FiniteSets, SequencesExt

CONSTANTS
  Admins,       \* updates that may be under way at once
  Schedules,    \* bound: the schedules they set, sequences of [h, max]
  MaxHours      \* bound: ages and limits of accounts the property looks at

ASSUME CapsAssumption ==
  /\ Schedules \subseteq Seq([h : Int, max : Int])
  /\ MaxHours \in Nat

VARIABLES
  saved,      \* the settings in the database; <<>> is no schedule, or an empty one
  running,    \* the configuration the selection of accounts reads
  update,     \* update[u]: the copy of update u and the fields it has still to save
  mixed       \* history: since the start two updates overlapped, or one broke off

capVars == <<saved, running, update, mixed>>

NoUpdate == [at |-> "idle", copy |-> [enabled |-> TRUE, tiers |-> <<>>], todo |-> {}]

\* default_tiers, on a scale of hours of its own.
DefaultTiers == <<[h |-> 1, max |-> 1], [h |-> 2, max |-> 2]>>

\* Fault: the tiers stay in the order they were written in.
Unsorted(s) == s

\* Where a stable sort by age puts tier i of s.
Rank(s, i) ==
  Cardinality({j \in DOMAIN s : s[j].h < s[i].h \/ (s[j].h = s[i].h /\ j <= i)})

\* parse
Parsed(s) == [r \in DOMAIN s |-> s[CHOOSE i \in DOMAIN s : Rank(s, i) = r]]

\* load: a schedule without tiers gives way to the default.
Loaded(s) ==
  [enabled |-> s.enabled,
   tiers |-> IF s.tiers = <<>> THEN DefaultTiers ELSE Parsed(s.tiers)]

CapsInit ==
  /\ saved = [enabled |-> TRUE, tiers |-> <<>>]
  /\ running = Loaded(saved)
  /\ update = [u \in Admins |-> NoUpdate]
  /\ mixed = FALSE

UnderWay == {u \in Admins : update[u].at # "idle"}

\* The copy takes the fields of the request, the schedule as it parses.
BeginUpdate(u, fields, on, schedule) ==
  /\ u \notin UnderWay
  /\ update' = [update EXCEPT ![u] =
       [at |-> "saving", todo |-> fields,
        copy |-> [enabled |-> IF "enabled" \in fields THEN on ELSE running.enabled,
                  tiers |-> IF "tiers" \in fields THEN Parsed(schedule) ELSE running.tiers]]]
  /\ mixed' = (mixed \/ UnderWay # {})
  /\ UNCHANGED <<saved, running>>

NextField(u) == IF "enabled" \in update[u].todo THEN "enabled" ELSE "tiers"

SaveField(u) ==
  /\ update[u].todo # {}
  /\ saved' = [saved EXCEPT ![NextField(u)] = update[u].copy[NextField(u)]]
  /\ update' = [update EXCEPT ![u].todo = @ \ {NextField(u)}]
  /\ UNCHANGED <<running, mixed>>

\* set_warmup
SetRunning(u) ==
  /\ u \in UnderWay /\ update[u].todo = {}
  /\ running' = update[u].copy
  /\ update' = [update EXCEPT ![u] = NoUpdate]
  /\ UNCHANGED <<saved, mixed>>

\* The database refuses a save, or the administrator's connection is gone.
BreakOff(u) ==
  /\ u \in UnderWay
  /\ update' = [update EXCEPT ![u] = NoUpdate]
  /\ mixed' = TRUE
  /\ UNCHANGED <<saved, running>>

Reload ==
  /\ running' = Loaded(saved)
  /\ update' = [u \in Admins |-> NoUpdate]
  /\ mixed' = FALSE
  /\ UNCHANGED saved

CapsNext ==
  \/ \E u \in Admins :
       \/ \E fields \in SUBSET {"enabled", "tiers"} \ {{}}, on \in BOOLEAN, s \in Schedules :
            BeginUpdate(u, fields, on, s)
       \/ SaveField(u)
       \/ SetRunning(u)
       \/ BreakOff(u)
  \/ Reload

CapForAge(config, age) ==
  LET within == {i \in DOMAIN config.tiers : age < config.tiers[i].h} IN
  IF ~config.enabled \/ within = {} THEN 0
  ELSE config.tiers[CHOOSE i \in within : \A j \in within : i <= j].max

WarmEffectiveMax(own, cap) ==
  CASE own = 0 -> cap
    [] cap = 0 -> own
    [] OTHER -> IF own < cap THEN own ELSE cap

CapsSpec == CapsInit /\ [][CapsNext]_capVars

---------------------------------------------------------------------------
(* Properties.                                                             *)

\* n sessions are no more than limit m allows.
Within(n, m) == m = 0 \/ (n # 0 /\ n <= m)

\* Of the tiers an age is below, those that end first.
TiersOf(tiers, age) ==
  LET above == {t \in ToSet(tiers) : age < t.h}
  IN  {t \in above : \A o \in above : t.h <= o.h}

(***************************************************************************)
(* The administrators see the schedule they saved obeyed: between updates, *)
(* an account has no more sessions than its own limit and than one of the  *)
(* first-ending tiers of the saved schedule that its age is below, in      *)
(* whatever order the tiers were written, and a restart changes nothing.   *)
(* Three things break it, and only these: two updates that overlapped      *)
(* (the second to finish takes back what the first changed, but not in the *)
(* database), an update that broke off (saved in part and not running),    *)
(* and an empty schedule, which limits nobody until a restart and is then  *)
(* the default one.  A tier with a cap of zero limits nobody.              *)
(***************************************************************************)
CapsTight ==
  \/ mixed \/ UnderWay # {}
  \/ /\ saved.tiers = <<>> /\ running.tiers \in {<<>>, DefaultTiers}
     /\ running.enabled = saved.enabled
  \/ /\ \A age, own \in 0..MaxHours :
          LET n == WarmEffectiveMax(own, CapForAge(running, age))
              first == TiersOf(saved.tiers, age)
          IN  /\ Within(n, own)
              /\ saved.enabled /\ first # {} => \E t \in first : Within(n, t.max)
              /\ (~saved.enabled \/ first = {}) => n = own
     /\ running = Loaded(saved)
===============================================================================
