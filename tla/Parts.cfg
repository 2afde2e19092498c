CONSTANTS
  Pushers = {p1, p2}
  Burst = 1
  Interval = 2
  Margin = 1
  Waits = {1, 3}
  MaxParts = 2
  DayTicks = 8
  Ahead = 5
  QuietStart = 7
  QuietEnd = 1
  LastTick = 5
  Tables <- Statements3
  Footers <- FooterRows
  Summaries <- PrintedSummaries
  CellRows <- SheetCells
  MaxColumns = 4
  NoNumber = NoNumber
  Cents = {5, 99, 1250, 123456, 123456789}
  KbRows <- CsvRows
  MaxKbRows = 2
  MaxImports = 2
  Classes = {"official", "mentor"}
  Limit = 2
  RrfK = 60
  LastKbDay = 2
  admin = admin
  mentor = mentor
  hers = hers
  his = his
  herAccount = herAccount
  hisAccount = hisAccount
  Browsers = {b1}
  Viewers = {admin, mentor}
  Chats = {hers, his}
  AccountOf <- Accounts
  AccountOfChat <- ChatAccounts
  NoAccount = NoAccount
  Tokens = {t1, t2}
  Nobody = Nobody
  Lifetime = 1
  LastHour = 1
  MaxReads = 2
  RowIds = {r1, r2}
  NoRow = NoRow
  RowValues <- CheckedValues
  Entrants <- CandidateLists
  SheetRows <- QuestionRows
  MaxRowCount = 3
  MaxGraded = 2
  Replies <- SomeReplies
  Threshold = 7
  Thresholds = {5, 7, 9}
  MinKept = 1
  MaxCost = 2
  Marks <- SomeMarks
  FirstBases <- SeveralBases
  Reseeds <- NewRecords
  MaxChanges = 1
  MaxRuns = 2
  NoTool = NoTool
  Absent = Absent
  Torn = Torn
SPECIFICATION PartsSpec
SYMMETRY PartsSymmetry
CHECK_DEADLOCK FALSE
INVARIANTS GateIsKept ReadingIsSound SearchIsSound TrialIsFair PublishingIsSound SeededBaseIsSound SchemaIsKept
PROPERTY PanelIsGuarded
