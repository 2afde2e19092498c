CONSTANTS
  chat = chat
  elsewhere = elsewhere
  picture = picture
  question = question
  reply = reply
  hello = hello
  answer = answer
  Chats = {chat}
  Mentor = Mentor
  Nobody = Nobody
  Messages = {picture, question, reply}
  NoMessage = NoMessage
  ChatOf <- WhereSent
  Outgoing <- ByMentor
  Pictures <- Pictured
  Tasks = {t1, t2, t3}
  MaxDeliveries = 2
  ExtractEvery = 2
  Questions = {q1, q2, q3}
  Workers = {w1, w2}
  Operators = {o1}
  NoQuestion = NoQuestion
SPECIFICATION PathSpec
SYMMETRY PathSymmetry
CHECK_DEADLOCK FALSE
INVARIANTS OneAnswerJob DuplicatesAreCounted SpendIsCounted ListedUntilSeen
PROPERTIES OpenedOnce FrozenUntilMentorReplies ConversationKeepsPromise
