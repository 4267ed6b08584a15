------------------------------ MODULE ThinkingRepair ------------------------------
(***************************************************************************)
(* The repair of a request that upstream refuses for its thinking blocks   *)
(* (service/thinking_repair.rs and the cascade of forward_request that     *)
(* uses it): a first body without thinking, and, if upstream then objects  *)
(* to tool blocks, a second one with these written out as text.  A body is *)
(* abstracted to one message, a sequence of kinds of content blocks, and   *)
(* an answer to what the code looks for in it.                             *)
(***************************************************************************)
EXTENDS Naturals, SequencesExt, FiniteSets

CONSTANT MaxBlocks   \* bound: content blocks of the message

ASSUME RepairAssumption == MaxBlocks \in Nat

VARIABLES
  sends,      \* the bodies sent so far
  answers,    \* what upstream answered to each
  headers,    \* the send that the answer's headers are of, 0 before the first
  source,     \* the send that the answer's body is of
  code,       \* the status code of the answer
  billing,    \* billing_reject
  stage       \* the send under way, or done, or failed

repairVars == <<sends, answers, headers, source, code, billing, stage>>

(***************************************************************************)
(* Kinds of blocks.  A "thinking" block has something in it, an "untyped"  *)
(* one too, but no type; "blank" is either of them with nothing in it;     *)
(* "hollow" is a tool result with empty text nested in it; "other" stands  *)
(* for what is never touched (images).                                     *)
(***************************************************************************)
Blocks ==
  {"text", "empty", "thinking", "blank", "redacted", "untyped",
   "use", "result", "hollow", "other"}

Tools == {"use", "result", "hollow"}

\* thinking: the field at the top; strategy: a context strategy that needs it.
Bodies ==
  [thinking : BOOLEAN, strategy : BOOLEAN, content : BoundedSeq(Blocks, MaxBlocks)]

\* "ok" is any status but 400; the rest is a 400 with such a message, and
\* "both" is one that speaks of a signature and of a tool block.
Answers == {"ok", "billing", "thinking", "tool", "both", "other"}

---------------------------------------------------------------------------
(* transform_message, as the blocks that take the place of one block.      *)

Instead(b, tools) ==
  CASE b \in {"thinking", "untyped"} -> <<"text">>
    [] b \in {"empty", "blank", "redacted"} -> <<>>
    [] b \in Tools /\ tools -> <<"text">>
    [] b = "hollow" /\ ~tools -> <<"result">>
    [] OTHER -> <<b>>

\* Fault: a message that loses all its blocks is sent without any.
NoPlaceholder(content) == content

\* A message is not left empty: a placeholder takes the place of its content.
Filled(content) == IF content = <<>> THEN <<"text">> ELSE content

TransformMessage(content, tools) ==
  LET new == FlattenSeq([i \in DOMAIN content |-> Instead(content[i], tools)])
  IN IF new = content THEN content ELSE Filled(new)

TransformForRetry(body, tools) ==
  [thinking |-> FALSE,
   strategy |-> body.strategy /\ ~body.thinking,
   content |-> TransformMessage(body.content, tools)]

---------------------------------------------------------------------------
(* The cascade.                                                            *)

RepairInit ==
  /\ sends \in {<<b>> : b \in Bodies}
  /\ answers = <<>>
  /\ headers = 0
  /\ source = 0
  /\ code = "none"
  /\ billing = FALSE
  /\ stage = "first"

StatusOf(answer) == IF answer = "ok" THEN "ok" ELSE "400"

\* The answer is that of send n, headers, body and status.
Adopt(n, answer) == headers' = n /\ source' = n /\ code' = StatusOf(answer)

\* Fault: the headers of the answer before are kept.
AdoptBody(n, answer) == UNCHANGED headers /\ source' = n /\ code' = StatusOf(answer)

\* The answer of a resend: the status is that of the first when it is 400 again.
AdoptResend(n, answer) == Adopt(n, answer)

\* Every repair is made of the body the client sent.
Resend(tools) ==
  /\ sends' = Append(sends, TransformForRetry(sends[1], tools))
  /\ stage' = IF tools THEN "third" ELSE "second"

Stop == stage' = "done" /\ UNCHANGED sends

\* The first answer; the switch of the repair is read when it has come.
First(answer) ==
  /\ stage = "first"
  /\ answers' = <<answer>>
  /\ Adopt(1, answer)
  /\ billing' = (answer = "billing")
  /\ \/ answer \in {"thinking", "both"} /\ Resend(FALSE)
     \/ Stop

Second(answer) ==
  /\ stage = "second"
  /\ answers' = Append(answers, answer)
  /\ AdoptResend(2, answer)
  /\ IF answer \in {"tool", "both"} THEN Resend(TRUE) ELSE Stop
  /\ UNCHANGED billing

Third(answer) ==
  /\ stage = "third"
  /\ answers' = Append(answers, answer)
  /\ AdoptResend(3, answer)
  /\ Stop
  /\ UNCHANGED billing

\* A send fails: the call does at the first, and a later one leaves what there is.
Lost ==
  /\ stage \in {"first", "second", "third"}
  /\ stage' = IF stage = "first" THEN "failed" ELSE "done"
  /\ UNCHANGED <<sends, answers, headers, source, code, billing>>

RepairNext == Lost \/ \E answer \in Answers : First(answer) \/ Second(answer) \/ Third(answer)

RepairSpec == RepairInit /\ [][RepairNext]_repairVars

---------------------------------------------------------------------------
(* Properties.                                                             *)

Count(content, kinds) == Cardinality({i \in DOMAIN content : content[i] \in kinds})

Signed == {"thinking", "blank", "redacted", "untyped"}

(***************************************************************************)
(* What is sent again can be accepted: it has no thinking left, no empty   *)
(* text and, unless the message came without any, some content; the tool   *)
(* and other blocks are all there in the first repair; the second has no   *)
(* tool block, and both are left as they are by a further repair.          *)
(***************************************************************************)
RepairClean ==
  \A n \in 2..Len(sends) :
    LET old == sends[1].content  new == sends[n].content IN
    /\ ~sends[n].thinking
    /\ sends[n].strategy => sends[1].strategy /\ ~sends[1].thinking
    /\ Count(new, Signed \cup {"empty", "hollow"}) = 0
    /\ new = <<>> => old = <<>>
    /\ Count(new, {"other"}) = Count(old, {"other"})
    /\ Count(new, Tools) = IF n = 2 THEN Count(old, Tools) ELSE 0
    /\ TransformForRetry(sends[n], n = 3) = sends[n]

(***************************************************************************)
(* However the cascade ends, by an answer, a refusal of either repair or a *)
(* send that fails, the client gets headers, body and status of one and    *)
(* the same answer, the last that came; after at most three sends, the     *)
(* repairs of which were made of the body the client sent.                 *)
(***************************************************************************)
AnswerWhole ==
  stage = "done" =>
    /\ Len(sends) <= 3
    /\ headers = Len(answers)
    /\ source = Len(answers)
    /\ code = StatusOf(Last(answers))
===============================================================================
