-------------------------------- MODULE MCParts --------------------------------
(***************************************************************************)
(* The parts of the project around the path of a message, each on an       *)
(* instance of its own: the account's gate (Gate), the reading of files    *)
(* (Media), the knowledge base and its search (Knowledge), the panel       *)
(* (Panel), the migrations (Schema), the comparison of models (Trial) and  *)
(* the tools that write the knowledge base (Publishing, Content).  They    *)
(* share no variable; a behaviour is about one, its subject.               *)
(***************************************************************************)
EXTENDS Gate, Media, Knowledge, MCPanel, MCSchema, Trial, Content

VARIABLE subject

(* Media: up to three rows of a statement, whose falls and factors lie at  *)
(* 10%, 30% and 1.5, a little below, and half-way between two digits       *)
Row(type, profit, extra) == [type |-> type, profit |-> profit, extra |-> extra]
StatementRows ==
  {Row("trade", p, x) : p \in {-5999, -1999, 3000}, x \in {0, -1}}
    \union {Row("balance", p, 0) : p \in {20000, -5}} \union {Row("other", NoNumber, 0)}
Statements3 == UNION {[1..n -> StatementRows] : n \in 0..3}
FooterRows == {Row("other", 5, -1), Row("blank", 7, 0)}
Summary(factor, profit, loss, share) ==
  [factor |-> factor, profit |-> profit, loss |-> loss, worst |-> NoNumber, share |-> share,
   trades |-> 2, wins |-> 1, losses |-> 1]
PrintedSummaries ==
  {Summary(NoNumber, 3000, NoNumber, 3000), Summary(NoNumber, 2999, -2000, NoNumber),
   Summary(<<14995, 10000>>, NoNumber, NoNumber, 999), Summary(<<1, 2>>, 0, 0, 3000)}
SheetCells == {<<>>, <<<<0, "a">>, <<2, "b">>, <<5, "c">>>>, <<<<1, "a">>, <<2, "b">>>>, <<<<3, "d">>>>}

(* Knowledge: one key with several answers, one of them missing, two others *)
CsvRow(class, category, question, answer, until) ==
  [class |-> class, category |-> category, question |-> question, answer |-> answer, until |-> until]
CsvRows ==
  {CsvRow("official", "price", "q1", a, 1) : a \in {"x", "y", ""}}
    \union {CsvRow("mentor", c, "q2", "x", 0) : c \in {"rules", "other"}}

(* Trial: lists of candidates, rows of the file, replies and marks *)
Candidate(id, priced) == [id |-> id, provider |-> "openai", priced |-> priced, effort |-> "low"]
CandidateLists ==
  {<<Candidate("x", TRUE), Candidate("y", TRUE)>>, <<Candidate("x", TRUE), Candidate("x", TRUE)>>,
   <<Candidate("x", FALSE), Candidate("y", TRUE)>>}
QuestionRow(id, key, fate) == [id |-> id, key |-> key, fate |-> fate]
QuestionRows ==
  {QuestionRow("a", "k1", "asked"), QuestionRow("a", "k2", "asked"),
   QuestionRow("b", "k3", "asked"), QuestionRow("c", "k4", "rule")}
Reply(text, confidence, cost) ==
  [human |-> FALSE, text |-> text, grounded |-> TRUE, confidence |-> confidence, cost |-> cost]
SomeReplies == {Reply("t", 9, 1), Reply("t", 5, 2), Reply("", 9, 0)}
SomeMarks == {[score |-> s, invented |-> FALSE] : s \in {-1, 0, 3}}

(* Publishing: a lesson and a draft that ask the same, and what the seed   *)
(* files may be changed to write; and the base as it is, where no step is  *)
(* taken (subject "base")                                                  *)
AskSpread == <<0, 1>>
AskCost == <<0, 2>>
AskPip == <<0, 3>>
Spread == <<Phrase(AskSpread), Phrase(AskCost)>>
OneLesson == Lesson(Id("ACA-INT", 1), "DEFINITION", 90, Spread)
Glossary(asks) == Drafted(Id("GEN-DEF", 1), "general_trading", "GLOSSARY", 85, asks)
SeveralBases ==
  LET draft == Glossary(<<Arabic(AskSpread), Phrase(AskPip)>>) IN
  {<<OneLesson, draft>>, <<OneLesson, Policy(Id("ACA-RULE", 1), "RULE", <<Phrase(AskCost)>>), draft>>,
   SeededBase}
NewRecords ==
  {Approved(Glossary(<<Arabic(AskSpread)>>)),
   [Glossary(<<Phrase(AskSpread)>>) EXCEPT !.approval = "REVIEW_REQUIRED"],
   Lesson(Id("ACA-INT", 1), "DEFINITION", 65, Spread),
   Document(Id("ACA-SUP", 2), "RULE", 100, <<Phrase(AskCost)>>, TRUE),
   Policy(Id("ACA-RULE", 1), "RULE", <<Phrase(AskCost), Phrase(AskSpread)>>),
   Platform(Id("MT-CMP", 1), "COMPARISON", 80, <<Phrase(AskSpread)>>, "seen"),
   MentorAnswer(Id("MQA", 1), 75, <<Phrase(AskPip), Phrase(AskSpread)>>)}

PartsInit ==
  /\ subject \in {"gate", "media", "knowledge", "panel", "schema", "trial", "tools", "base"}
  /\ GateInit /\ MediaInit /\ KnowledgeInit /\ PanelInit /\ SchemaInit /\ TrialInit
  /\ PublishingInit
  /\ subject # "schema" => installed
  /\ subject = "base" <=> collected = SeededBase
  /\ subject \notin {"tools", "base"} => Len(collected) = 2

PartsNext ==
  \/ /\ subject = "gate" /\ GateNext
     /\ UNCHANGED <<subject, mediaVars, knowledgeVars, panelVars, schemaVars, trialVars,
                    publishingVars>>
  \/ /\ subject = "media" /\ MediaNext
     /\ UNCHANGED <<subject, gateVars, knowledgeVars, panelVars, schemaVars, trialVars,
                    publishingVars>>
  \/ /\ subject = "knowledge" /\ KnowledgeNext
     /\ UNCHANGED <<subject, gateVars, mediaVars, panelVars, schemaVars, trialVars,
                    publishingVars>>
  \/ /\ subject = "panel" /\ PanelNext
     /\ UNCHANGED <<subject, gateVars, mediaVars, knowledgeVars, schemaVars, trialVars,
                    publishingVars>>
  \/ /\ subject = "schema" /\ SchemaNext
     /\ UNCHANGED <<subject, gateVars, mediaVars, knowledgeVars, panelVars, trialVars,
                    publishingVars>>
  \/ /\ subject = "trial" /\ TrialNext
     /\ UNCHANGED <<subject, gateVars, mediaVars, knowledgeVars, panelVars, schemaVars,
                    publishingVars>>
  \/ /\ subject = "tools" /\ PublishingNext
     /\ UNCHANGED <<subject, gateVars, mediaVars, knowledgeVars, panelVars, schemaVars,
                    trialVars>>

PartsSymmetry == Permutations(Pushers) \union Permutations(RowIds) \union Permutations(Tokens)

PartsSpec ==
  PartsInit
    /\ [][PartsNext]_<<subject, gateVars, mediaVars, knowledgeVars, panelVars, schemaVars,
                       trialVars, publishingVars>>
================================================================================
