------------------------------ MODULE MCDecisions ------------------------------
(***************************************************************************)
(* How an answer comes about and what it leaves: a question and its rules  *)
(* (Answer), the money it may cost (Spending), what is remembered (Memory),*)
(* the draft in the control bot (Drafts) and in the chat (ChatDrafts).     *)
(* They share no variable; a behaviour is about one, its subject.          *)
(***************************************************************************)
EXTENDS MCDrafts, MCAnswer, Spending, Memory, ChatDrafts

VARIABLE subject

SingleOnes == {"course"}
Findings ==
  LET first == CHOOSE k \in Keys : TRUE IN
  {<<Candidate("course", k, {})>> : k \in Keys}
    \union {<<Candidate("goal", first, {}), Candidate("course", k, {})>> : k \in Keys}
    \union {<<Candidate("course", first, {"low_confidence", "contains_pii"})>>}

DecisionsInit ==
  /\ subject \in {"question", "money", "memory", "draft", "draft in the chat"}
  /\ AnswerInit /\ SpendingInit /\ MemoryInit /\ Init /\ ChatInit
  /\ subject # "draft" => connected

DecisionsNext ==
  \/ /\ subject = "question" /\ AnswerNext
     /\ UNCHANGED <<subject, spendingVars, memoryVars, vars, chatVars>>
  \/ /\ subject = "money" /\ SpendingNext
     /\ UNCHANGED <<subject, answerVars, memoryVars, vars, chatVars>>
  \/ /\ subject = "memory" /\ MemoryNext
     /\ UNCHANGED <<subject, answerVars, spendingVars, vars, chatVars>>
  \/ /\ subject = "draft" /\ Next
     /\ UNCHANGED <<subject, answerVars, spendingVars, memoryVars, chatVars>>
  \/ /\ subject = "draft in the chat" /\ ChatNext
     /\ UNCHANGED <<subject, answerVars, spendingVars, memoryVars, vars>>

DecisionsSpec ==
  DecisionsInit
    /\ [][DecisionsNext]_<<subject, answerVars, spendingVars, memoryVars, vars, chatVars>>
================================================================================
