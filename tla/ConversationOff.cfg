CONSTANTS
  Questions = {q1, q2}
  Workers = {w1}
  Operators = {o1}
  NoQuestion = NoQuestion
SPECIFICATION ConversationSpec
INVARIANT OffMeansSilent
