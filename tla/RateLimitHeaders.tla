----------------------------- MODULE RateLimitHeaders -----------------------------
(***************************************************************************)
(* What a 429 answer means (classify_from_headers in service/account.rs)   *)
(* and how long it takes the account out of rotation (handle_rate_limit):  *)
(* until the reset of a usage window that is full, for a minute, or not at *)
(* all.  Headers are abstracted to what the code distinguishes in them,    *)
(* moments to whether they have come, will come soon, or will come later.  *)
(***************************************************************************)
EXTENDS Naturals

VARIABLES
  answered,    \* the headers of the answer
  verdict     \* the class of the answer and the end of the cooldown

headerVars == <<answered, verdict>>

\* A moment: one that has come, is near, or is far.  Cooldowns of a minute are near.
Past == 0
Near == 1
Far == 2
Moments == {Past, Near, Far}

\* A header that is missing, or does not parse.
Nothing == 3

(***************************************************************************)
(* Per window: the surpassed-threshold header, the utilization, the reset. *)
(* "full" is a utilization of one or more, up to rounding.                 *)
(***************************************************************************)
WindowHeaders ==
  [surpassed : {"true", "false", "none"},
   utilization : {"full", "part", "none"},
   reset : Moments \cup {Nothing}]

\* The aggregate reset, and a retry-after of zero, of more, or none.
HeaderSets ==
  [h5 : WindowHeaders, d7 : WindowHeaders,
   unified : Moments \cup {Nothing},
   retry : {"zero", "some", "none"}]

Unclassified == [class |-> "none", until |-> Nothing]

HeadersInit == answered \in HeaderSets /\ verdict = Unclassified

IsWindowExceeded(w) == w.surpassed = "true" \/ w.utilization = "full"

\* Fault: the reset of a window is taken whenever it was.
AnyReset(w) == w.reset

\* A reset that has come says nothing.
ParseResetHeader(w) == IF w.reset = Past THEN Nothing ELSE w.reset

Or(a, b) == IF a # Nothing THEN a ELSE b

ClassifyFromHeaders(h) ==
  LET h5 == ParseResetHeader(h.h5)
      d7 == ParseResetHeader(h.d7)
      anyReset == Or(Or(h5, d7), h.unified)
  IN
  CASE IsWindowExceeded(h.d7) /\ anyReset # Nothing ->
         [class |-> "seven_day", until |-> Or(Or(d7, h5), h.unified)]
    [] IsWindowExceeded(h.h5) /\ ~IsWindowExceeded(h.d7) /\ anyReset # Nothing ->
         [class |-> "five_hour", until |-> anyReset]
    [] OTHER ->
         IF anyReset # Nothing \/ h.retry = "some"
           THEN [class |-> "burst", until |-> Near]
           ELSE [class |-> "unreal", until |-> Nothing]

Classify ==
  /\ verdict = Unclassified
  /\ verdict' = ClassifyFromHeaders(answered)
  /\ UNCHANGED answered

HeadersNext == Classify

HeadersSpec == HeadersInit /\ [][HeadersNext]_headerVars

---------------------------------------------------------------------------
(* Properties.                                                             *)

(***************************************************************************)
(* A limited account is out of rotation until a moment that is to come,    *)
(* except when all it is told is an aggregate reset that has come; and as  *)
(* long as its full window says, except that a full week is not kept from  *)
(* ending before the five hours do.  Any header of a limit counts as one,  *)
(* but a window that is full without saying until when does not.           *)
(***************************************************************************)
ClassifiedRight ==
  LET v == verdict  h5 == answered.h5  d7 == answered.d7
      told == {h5.reset, d7.reset} \cap {Near, Far}
  IN
  /\ v.class \in {"five_hour", "seven_day"} =>
       \/ v.until \in told
       \/ told = {} /\ v.until = answered.unified
  /\ v.class = "five_hour" /\ h5.reset \in told => v.until = h5.reset
  /\ v.class = "seven_day" /\ d7.reset \in told => v.until = d7.reset
  /\ v.class = "burst" =>
       /\ v.until = Near
       /\ told \cup ({answered.unified} \cap Moments) # {} =>
            ~(IsWindowExceeded(h5) \/ IsWindowExceeded(d7))
  /\ v.class = "unreal" =>
       told = {} /\ answered.unified = Nothing /\ answered.retry # "some"
===============================================================================
