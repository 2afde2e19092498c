-------------------------------- MODULE Trial --------------------------------
(***************************************************************************)
(* The blind comparison of models, model_compare.py: the same questions    *)
(* and sources go to every candidate, a mentor marks the answers without   *)
(* knowing whose they are, and the report joins the sheet with the key.    *)
(*                                                                         *)
(* A result carries what the model said of itself and whether its sums     *)
(* were official; the gate that judges it is the one of the runtime.       *)
(***************************************************************************)
EXTENDS Integers, SequencesExt

CONSTANTS Entrants,    \* sequences of candidates: [id, provider, priced, effort]
          SheetRows,   \* rows of the file of questions: [id, key, fate]
          MaxRowCount, \* rows in a file
          Replies,     \* [human, text, grounded, confidence, cost]; "" is no text
          Threshold,   \* the confidence in tenths below which the system is silent
          Thresholds,  \* those the report tries
          MaxGraded,   \* rows of a sheet that is marked, a bound of the model
          MinKept,     \* answers that a piece of advice rests on: 10
          MaxCost,     \* --max-cost-usd
          Marks        \* what a mentor writes: [score, invented], -1 is a wrong cell

ASSUME TrialAssumption ==
  /\ Threshold \in Nat /\ Thresholds \subseteq Nat
  /\ MaxGraded \in Nat /\ MinKept \in Nat /\ MaxRowCount \in Nat /\ MaxCost \in Nat
  /\ \A list \in Entrants : Len(list) \in Nat /\ DOMAIN list = 1..Len(list)
  /\ \A r \in Replies : r.cost \in Nat /\ r.confidence \in Nat
  /\ \E dearest \in Replies : \A r \in Replies : dearest.cost >= r.cost

VARIABLES stage,       \* of the comparison
          entrants,    \* the candidates of this run
          questions,   \* the cases that are left
          asked,       \* how many cases were loaded
          cases,       \* CaseRun: what the key will hold
          spent,
          sheet        \* the blind sheet: rows of cells, marked or not
trialVars == <<stage, entrants, questions, asked, cases, spent, sheet>>

------------------------------------------------------------------------------
(* parse_candidates and default_client_factory: nothing is asked before    *)
(* every candidate is known to be usable and its price to be known         *)
Admitted(list) ==
  /\ Len(list) >= 2
  /\ IsInjective([k \in DOMAIN list |-> <<list[k].provider, list[k].id, list[k].effort>>])
  /\ \A k \in DOMAIN list :
       /\ list[k].provider \in {"anthropic", "openai"}
       /\ list[k].priced
       /\ list[k].effort # "unknown"

(* load_cases: a question that was there before, or is empty, is dropped;  *)
(* the id is not compared                                                  *)
Loaded(rows) ==
  SelectSeq([k \in DOMAIN rows |-> [row |-> rows[k], at |-> k]],
            LAMBDA r : /\ r.row.key # ""
                       /\ \A j \in 1..(r.at - 1) : rows[j].key # r.row.key)

(* runtime.silence_reason_for *)
Verdict(reply, threshold) ==
  IF reply.human THEN "model_flagged"
  ELSE IF reply.text = "" THEN "empty_answer"
  ELSE IF reply.confidence < threshold THEN "low_confidence"
  ELSE IF ~reply.grounded THEN "ungrounded_money"
  ELSE "sent"

Orders(n) == {p \in [1..n -> 1..n] : IsInjective(p)}

------------------------------------------------------------------------------
TrialInit ==
  /\ stage = "setup" /\ entrants = <<>> /\ questions = <<>> /\ asked = 0
  /\ cases = <<>> /\ spent = 0 /\ sheet = <<>>

Begin ==
  /\ stage = "setup"
  /\ \E list \in Entrants, n \in 1..MaxRowCount : \E rows \in [1..n -> SheetRows] :
       /\ Admitted(list)
       /\ entrants' = list
       /\ questions' = [k \in DOMAIN Loaded(rows) |-> Loaded(rows)[k].row]
       /\ asked' = Len(Loaded(rows))
  /\ stage' = "running"
  /\ UNCHANGED <<cases, spent, sheet>>

(* A question that a rule answers, or that finds no source, is counted and *)
(* never put to a model                                                    *)
Exclude ==
  /\ stage = "running" /\ questions # <<>>
  /\ Head(questions).fate # "asked"
  /\ questions' = Tail(questions)
  /\ UNCHANGED <<stage, entrants, asked, cases, spent, sheet>>

(* What the answers to one question cost together *)
SumOf(results) ==
  LET sum[k \in 0..Len(entrants)] == IF k = 0 THEN 0 ELSE sum[k - 1] + results[k].cost
  IN  sum[Len(entrants)]

\* Fault: the limit is compared before the bill of the question is added.
AskRowLate ==
  /\ stage = "running" /\ questions # <<>>
  /\ Head(questions).fate = "asked"
  /\ \E results \in [DOMAIN entrants -> Replies], order \in Orders(Len(entrants)) :
       /\ cases' = Append(cases, [id |-> Head(questions).id, order |-> order,
                                  results |-> results])
       /\ spent' = spent + SumOf(results)
       /\ stage' = IF spent > MaxCost THEN "written" ELSE "running"
  /\ questions' = Tail(questions)
  /\ UNCHANGED <<entrants, asked, sheet>>

(* run_comparison: one question to every candidate.  The order of the      *)
(* answers is drawn from the seed and the id alone.  The first question    *)
(* tells what all of them would cost; a run that is refused there writes   *)
(* nothing.                                                                *)
AskRow ==
  /\ stage = "running" /\ questions # <<>>
  /\ Head(questions).fate = "asked"
  /\ \E results \in [DOMAIN entrants -> Replies], order \in Orders(Len(entrants)) :
       /\ \A i \in DOMAIN cases : cases[i].id = Head(questions).id => order = cases[i].order
       /\ LET bill == spent + SumOf(results)
          IN
          /\ cases' = Append(cases, [id |-> Head(questions).id, order |-> order,
                                     results |-> results])
          /\ spent' = bill
          /\ stage' = IF cases = <<>> /\ bill * asked > MaxCost THEN "refused"
                      ELSE IF bill > MaxCost THEN "written"
                      ELSE "running"
  /\ questions' = Tail(questions)
  /\ UNCHANGED <<entrants, asked, sheet>>

Finish ==
  /\ stage = "running" /\ questions = <<>>
  /\ stage' = "written"
  /\ UNCHANGED <<entrants, questions, asked, cases, spent, sheet>>

(* build_sheet: a row per case, the answers in the case's own order; the   *)
(* author of an answer is nowhere in the file                              *)
BlindRow(case) ==
  [id    |-> case.id,
   cells |-> [k \in DOMAIN case.order |->
                [author |-> case.order[k], text |-> case.results[case.order[k]].text]]]

(* The mentor marks what has a text, and may sort or lose rows *)
Grade ==
  /\ stage = "written" /\ Len(cases) \in 1..MaxGraded
  /\ \E backwards \in BOOLEAN, lost \in 0..Len(cases) :
     \E marks \in [1..Len(cases) -> [DOMAIN entrants -> Marks]] :
       LET filled == [i \in DOMAIN cases |->
                        [row |-> BlindRow(cases[i]), marks |-> marks[i]]]
           kept   == IF lost = 0 THEN filled ELSE RemoveAt(filled, lost)
       IN  sheet' = IF backwards THEN Reverse(kept) ELSE kept
  /\ stage' = "graded"
  /\ UNCHANGED <<entrants, questions, asked, cases, spent>>

TrialNext == Begin \/ Exclude \/ AskRow \/ Finish \/ Grade

TrialSpec == TrialInit /\ [][TrialNext]_trialVars

------------------------------------------------------------------------------
(* load_grades: by id and place, the last row wins, a wrong cell is no     *)
(* score.  analyse_and_render takes the author of a place from the key.    *)
NoScore == -1
GradeAt(id, k) ==
  LET rows == {i \in DOMAIN sheet : sheet[i].row.id = id}
  IN  IF rows = {} THEN [score |-> NoScore, invented |-> FALSE] ELSE sheet[Max(rows)].marks[k]

Ids == {case.id : case \in Range(cases)}

(* The marks of a candidate with the results they belong to, by id: of two *)
(* cases with one id the last is kept                                      *)
Scored(c) ==
  [id \in Ids |->
     LET case  == cases[Max({i \in DOMAIN cases : cases[i].id = id})]
         place == CHOOSE k \in DOMAIN case.order : case.order[k] = c
     IN  [mark |-> GradeAt(id, place), result |-> case.results[c]]]

Rated(c) ==
  {id \in Ids : Scored(c)[id].mark.score # NoScore /\ Scored(c)[id].result.text # ""}

(* What the run would have sent, or kept back for its confidence alone *)
Eligible(result) == Verdict(result, Threshold) \in {"sent", "low_confidence"}

Bad(mark) == mark.score = 0 \/ mark.invented

Advice(c) ==
  {t \in Thresholds :
     LET passing == {id \in Rated(c) :
                       LET result == Scored(c)[id].result
                       IN  Eligible(result) /\ result.confidence >= t}
     IN  /\ Cardinality(passing) >= MinKept
         /\ \A id \in passing : ~Bad(Scored(c)[id].mark)}

------------------------------------------------------------------------------
(* model_compare.py:483-488: a run spends no more than the limit and the   *)
(* one question that went over it.                                         *)
DearestReply == CHOOSE c \in {r.cost : r \in Replies} : \A r \in Replies : c >= r.cost
RunIsAffordable == spent <= MaxCost + Len(entrants) * DearestReply

(* The mark a candidate is credited with is one that the mentor wrote      *)
(* beside that candidate's own answer to a question of that id, in         *)
(* whatever order the sheet came back.                                     *)
MarksReachTheirAuthor ==
  stage = "graded" =>
    \A c \in DOMAIN entrants : \A id \in Rated(c) :
      \E r \in Range(sheet) : \E k \in DOMAIN r.row.cells :
        /\ r.row.id = id /\ r.row.cells[k].author = c
        /\ r.marks[k] = Scored(c)[id].mark

(* The report advises a threshold only if, with it, no answer of this      *)
(* sample that the mentor called wrong or invented would have been sent.   *)
(* Questions that share an id share their marks: the file must not.        *)
IdsDiffer == Cardinality(Ids) = Len(cases)
AdviceIsSafe ==
  stage = "graded" /\ IdsDiffer =>
    \A c \in DOMAIN entrants : \A t \in Advice(c) :
      \A r \in Range(sheet) : \A k \in DOMAIN r.row.cells : \A i \in DOMAIN cases :
        /\ r.row.cells[k].author = c /\ cases[i].id = r.row.id
        /\ Verdict(cases[i].results[c], t) = "sent"
        /\ r.marks[k].score # NoScore
        => ~Bad(r.marks[k])

TrialIsFair == RunIsAffordable /\ MarksReachTheirAuthor /\ AdviceIsSafe

=============================================================================
