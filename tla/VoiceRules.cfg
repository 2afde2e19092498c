CONSTANTS
  toman = toman
  thousand = thousand
  million = million
  Units <- OneUnit
  Scales <- TwoScales
  Factor <- Factors
  Contents <- SourceTexts
  Answers <- AnswerTexts
  Marked <- MarkedTexts
  Threshold = 7
  AnswerFromImages = TRUE
  Models = {model}
  InputPrice <- OnePrice
  OutputPrice <- OnePrice
  DayCap = 2
  MonthCap = 4
  Alert <- FourFifths
  Hours = 24
  Offset = 3
SPECIFICATION AnswerSpec
INVARIANT RulesHearTheVoice
CHECK_DEADLOCK FALSE
