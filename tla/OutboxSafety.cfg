SPECIFICATION Spec
CONSTANTS
  long = long
  short = short
  NoDelivery = NoDelivery
  Deliveries <- TwoAnswers
  Parts <- TwoParts
  Executors = {worker, bot}
  Worker = worker
  MaxAttempts = 2
INVARIANTS
  OnceInOrder
  OneHolder
  ResumesWhereItStopped
  SentMeansSent
PROPERTIES
  SettledIsFinal
  PauseHolds
  KeepsPromise
