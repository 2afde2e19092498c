------------------------------- MODULE Answer -------------------------------
(***************************************************************************)
(* What becomes of one question: ai/runtime.handle_message with the rules  *)
(* of ai/decision.py and the guard of ai/guard.py.                         *)
(*                                                                         *)
(* The words of a text are what the rules tell apart: the set of lists of  *)
(* decision.py that it hits (its marks), beside the tokens in which the    *)
(* guard looks for money.  Sources, the model's reply and the account of   *)
(* the day are the environment's; the last decision and the number of      *)
(* calls that were paid are kept.                                          *)
(***************************************************************************)
EXTENDS Guard, Budget

CONSTANTS Marked,       \* sets of marks that texts may have
          Answers,      \* token sequences that the model may answer with
          Contents,     \* token sequences of which a source may consist
          Threshold,    \* CONFIDENCE_THRESHOLD, in tenths
          AnswerFromImages

ASSUME AnswerAssumption ==
  Answers \subseteq Seq(Tokens) /\ Contents \subseteq Seq(Tokens)

VARIABLES spent,        \* micro-dollars of this day, in units of one call
          last          \* the AiRun of the message handled last
answerVars == <<spent, last>>

Triggers == <<"identity_question", "explicit_human_request", "money", "complaint", "account">>

(* The lists of RULES, and the pairs that count only together *)
Fires(trigger, marks) ==
  \/ trigger \in marks
  \/ trigger = "money" /\ {"price", "academy"} \subseteq marks
  \/ trigger = "identity_question"
       /\ ({"bot", "address"} \subseteq marks \/ "direct" \in marks)

(* deterministic_trigger: the first of the fixed order, or none *)
Fired(marks) == {k \in 1..Len(Triggers) : Fires(Triggers[k], marks)}
Trigger(marks) == Triggers[Min(Fired(marks))]

(* A message: its text or caption, its file if there is one, and what was  *)
(* read from that file when it came in                                     *)
NotRead == {"nothing"}
Kinds   == {"voice", "image", "statement", "plan"}
Messages ==
  [text : Marked, kind : {"none"}, read : {NotRead}]
    \union [text : Marked, kind : Kinds, read : Marked \union {NotRead}]

(* The text of the question that is searched and shown to the model *)
Question(m) ==
  CASE m.kind = "none"  -> m.text
    [] m.kind = "voice" -> m.read
    [] m.kind = "image" -> m.text \union m.read

(* _handle_media: what a file leaves to be decided *)
IsStatement(m) == m.kind = "statement" /\ m.read # NotRead
GoesOn(m) ==
  \/ m.kind = "none"
  \/ m.kind = "voice" /\ m.read # NotRead
  \/ m.kind = "image" /\ m.read # NotRead /\ AnswerFromImages

(* silence_reason_for: the first that holds is the one that is recorded *)
Objections(reply, hits) ==
  << <<"model_flagged", reply.needsHuman>>,
     <<"empty_answer", reply.answer = <<>> >>,
     <<"low_confidence", reply.confidence < Threshold>>,
     <<"ungrounded_money", Ungrounded(reply.answer, hits, <<>>)>> >>

Objected(reply, hits) == {k \in 1..4 : Objections(reply, hits)[k][2]}
Objection(reply, hits) == Objections(reply, hits)[Min(Objected(reply, hits))][1]

Hits == [class : {"official", "mentor"}, content : Contents]
Replies == [needsHuman : BOOLEAN, confidence : {Threshold - 1, Threshold}, answer : Answers]

(* _record: one AiRun, and an escalation exactly when nothing is said *)
Record(m, outcome, reason, called, hits, said) ==
  last' = [message |-> m, outcome |-> outcome, reason |-> reason, called |-> called,
              hits |-> hits, said |-> said, escalated |-> outcome = "silence"]

AnswerInit ==
  /\ spent = 0
  /\ last = [outcome |-> "none", called |-> FALSE]

Silent(m, reason, hits) ==
  Record(m, "silence", reason, FALSE, hits, <<>>) /\ UNCHANGED spent

ObeyRule(m) ==
  /\ Fired(m.text) # {}
  /\ Silent(m, Trigger(m.text), {})

ReviewStatement(m) ==
  /\ Fired(m.text) = {}
  /\ IsStatement(m)
  /\ Record(m, "answer", "statement_review", FALSE, {}, <<>>)
  /\ UNCHANGED spent

LeaveMedia(m) ==
  /\ Fired(m.text) = {}
  /\ ~IsStatement(m) /\ ~GoesOn(m)
  /\ Silent(m, "unsupported_media", {})

Asked(m) == Fired(m.text) = {} /\ ~IsStatement(m) /\ GoesOn(m)

LackSources(m) == Asked(m) /\ Silent(m, "no_sources", {})

RespectCap(m, hits) ==
  /\ Asked(m) /\ hits # {}
  /\ ~MayCall(spent, spent)
  /\ Silent(m, "budget_exhausted", hits)

(* The call is recorded whatever came of it *)
CallInVain(m, hits) ==
  /\ Asked(m) /\ hits # {} /\ MayCall(spent, spent)
  /\ \E cost \in 0..1 : spent' = spent + cost
  /\ Record(m, "silence", "model_error", TRUE, hits, <<>>)

Judge(m, hits, reply) ==
  /\ Asked(m) /\ hits # {} /\ MayCall(spent, spent)
  /\ spent' = spent + 1
  /\ IF Objected(reply, hits) # {}
     THEN Record(m, "silence", Objection(reply, hits), TRUE, hits, reply.answer)
     ELSE Record(m, "answer", "answered", TRUE, hits, reply.answer)

(* The worker's other jobs, the mentor's instructions, described pictures *)
OthersSpend ==
  /\ spent <= DayCap
  /\ spent' = spent + 1
  /\ UNCHANGED last

Handle(m) ==
  \/ ObeyRule(m)
  \/ ReviewStatement(m)
  \/ LeaveMedia(m)
  \/ LackSources(m)
  \/ \E hits \in SUBSET Hits :
       \/ RespectCap(m, hits)
       \/ CallInVain(m, hits)
       \/ \E reply \in Replies : Judge(m, hits, reply)

(* One message is followed to its end *)
AnswerNext ==
  /\ last.outcome = "none"
  /\ OthersSpend \/ \E m \in Messages : Handle(m)

AnswerSpec == AnswerInit /\ [][AnswerNext]_answerVars

------------------------------------------------------------------------------
(* The price guard, in a reader's terms: if an answer states sums of one   *)
(* term only, each of them is stated as such by an official source         *)
(* (guard.py:131, "the exact sum of the source, not the model's opinion"). *)
OnlyOfficialSums ==
  last.outcome = "answer" /\ last.called /\ Plain(last.said)
    /\ (\A h \in last.hits : Plain(h.content))
    => Said(last.said) \subseteq
         UNION {Said(h.content) : h \in {g \in last.hits : g.class = "official"}}

(* What a person is to hear goes to a person, in whatever form it was said *)
(* (docs/MEDIA.md:54 and ADR-023, docs/ARCHITECTURE_DECISIONS.md:645: what *)
(* is read from a file takes the path of typed text, the fixed rules       *)
(* first): the model is never asked what a rule would have caught.         *)
RulesHearTheVoice ==
  last.called => Fired(Question(last.message)) = {}

(* No word of money or complaint in the text of a message, its caption     *)
(* included, costs a call or is answered; and a question that was paid for *)
(* was within the cap before it, had a source, and was put in words.       *)
PaidForAReason ==
  last'.called =>
    /\ Fired(last'.message.text) = {}
    /\ last'.hits # {} /\ spent < DayCap /\ spent < MonthCap
    /\ (last'.message.kind # "none" => last'.message.read # NotRead)

(* Both of every step *)
AnswerIsGrounded == [][OnlyOfficialSums' /\ PaidForAReason]_answerVars

=============================================================================
