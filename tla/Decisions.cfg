CONSTANTS
  toman = toman
  thousand = thousand
  million = million
  Units <- OneUnit
  Scales <- TwoScales
  Factor <- Factors
  Contents <- SourceTexts
  Answers <- AnswerTexts
  Marked <- MarkedTexts
  Threshold = 7
  AnswerFromImages = TRUE
  Models = {model}
  InputPrice <- OnePrice
  OutputPrice <- OnePrice
  DayCap = 2
  MonthCap = 4
  Alert <- FourFifths
  Hours = 24
  Offset = 3
  Workers = {worker}
  Mentors = {mentor}
  Dearest = 1
  LastDay = 1
  MonthLength = 2
  MaxRows = 7
  Extractors = {e1, e2}
  Keys = {k1, k2}
  Single <- SingleOnes
  Multiple = {"goal"}
  Batches <- Findings
  MaxFacts = 3
  AllDrafts = {draft}
  NoDraft = NoDraft
  NoText = NoText
  Own = Own
  Handlers = {h1, h2, h3}
  MaxRevision = 2
  MaxDrafts = 3
  MaxInFlight = 2
  OurRecent = 2
SPECIFICATION DecisionsSpec
SYMMETRY Symmetry
CHECK_DEADLOCK FALSE
INVARIANTS OnlySeenTextIsSent UndecidedIsNotSent OneOpenDraft CapIsNearlyKept
PROPERTIES DecisionStands ProposalKeepsAssistant AnswerIsGrounded MemoryIsKept
