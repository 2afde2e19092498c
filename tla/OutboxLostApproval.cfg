SPECIFICATION FairSpec
CONSTANTS
  long = long
  short = short
  NoDelivery = NoDelivery
  Deliveries <- OneAnswer
  Parts <- OneParts
  Executors = {worker, bot}
  Worker = worker
  MaxAttempts = 2
PROPERTY
  ApprovedLeavesARow
