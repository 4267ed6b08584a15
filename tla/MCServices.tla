------------------------------- MODULE MCServices -------------------------------
(***************************************************************************)
(* The small services, and the two operations of the Redis cache, in one   *)
(* run.  No two subjects share any state: a behaviour exercises one of     *)
(* them, and the others rest in one of their initial states.               *)
(***************************************************************************)
EXTENDS Telemetry, OAuthLogin, SessionIdPool, ThinkingRepair, RpmWindow,
        RateLimitHeaders, WarmCaps, RedisSlots, RedisAdmission, TLC

CONSTANTS s1, s2, s3, a1, e1, e2, e3, d1, d2

VARIABLE subject

Subjects ==
  {"telemetry", "login", "pool", "repair", "rpm", "headers", "caps",
   "slots", "live", "quota"}

\* Two ids that share a slot of three, and one of its own beyond the first.
Hashes == (s1 :> 0) @@ (s2 :> 3) @@ (s3 :> 2)

Widths == (a1 :> 3)

\* No tier, one, two in disorder, and two that end together.
WarmSchedules ==
  {<<>>, <<[h |-> 2, max |-> 3]>>,
   <<[h |-> 3, max |-> 2], [h |-> 1, max |-> 1]>>,
   <<[h |-> 2, max |-> 0], [h |-> 2, max |-> 1]>>}

OneOfEach == [k \in Kinds |-> 1]

QuietWindow == [surpassed |-> "none", utilization |-> "none", reset |-> Nothing]

Quiet == [h5 |-> QuietWindow, d7 |-> QuietWindow, unified |-> Nothing, retry |-> "none"]

MCInit ==
  /\ subject \in Subjects
  /\ TelemetryInit /\ LoginInit
  /\ PoolInit /\ (subject # "pool" => mode = [a \in PoolAccounts |-> "pool"])
  /\ RepairInit
  /\ (subject # "repair" =>
        sends = <<[thinking |-> FALSE, strategy |-> FALSE, content |-> <<>>]>>)
  /\ RpmInit /\ (subject # "rpm" => limit = 0)
  /\ HeadersInit /\ (subject # "headers" => answered = Quiet)
  /\ CapsInit
  /\ SlotsInit /\ AdmissionInit

\* The devices that may send a session: some requests name none.
SentFrom == (e1 :> {d1}) @@ (e2 :> {d2}) @@ (e3 :> {d2, NoId})

\* The two admissions share no key: each is a subject of its own.
InScope(c) ==
  \/ c.step = "idle"
  \/ subject = "live" /\ c.kind = "live"
  \/ subject = "quota" /\ c.kind # "live" /\ c.device \in SentFrom[c.session]

MCNext ==
  /\ UNCHANGED subject
  /\ IF subject = "telemetry" THEN TelemetryNext ELSE UNCHANGED telemetryVars
  /\ IF subject = "login" THEN LoginNext ELSE UNCHANGED loginVars
  /\ IF subject = "pool" THEN PoolNext ELSE UNCHANGED poolVars
  /\ IF subject = "repair" THEN RepairNext ELSE UNCHANGED repairVars
  /\ IF subject = "rpm" THEN RpmNext ELSE UNCHANGED rpmVars
  /\ IF subject = "headers" THEN HeadersNext ELSE UNCHANGED headerVars
  /\ IF subject = "caps" THEN CapsNext ELSE UNCHANGED capVars
  /\ IF subject = "slots" THEN SlotsNext ELSE UNCHANGED slotVars
  /\ IF subject \in {"live", "quota"}
       THEN AdmissionNext /\ \A c \in Calls : InScope(call'[c])
       ELSE UNCHANGED admissionVars

\* The clients of the minute and the calls of the admissions are alike.
Alike == Permutations(Clients) \cup Permutations(Calls)
===============================================================================
