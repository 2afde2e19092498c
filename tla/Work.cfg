CONSTANTS
  NoJob = NoJob
  Jobs = {job1}
  Workers = {w1, w2}
  MaxAttempts = 3
  MaxFaults = 2
  MaxRetries = 2
  LibraryRetries = 2
  MaxBackoff = 4
  Cost = 1
  long = long
  NoDelivery = NoDelivery
  Executors = {worker, bot}
  Worker = worker
SPECIFICATION WorkSpec
INVARIANTS AttemptsAreAccounted 
PROPERTIES JobKeepsPromise ClosedIsLeftAlone EveryJobRests EverySettles CallEnds
CHECK_DEADLOCK FALSE
