CONSTANTS
  chat = chat
  elsewhere = elsewhere
  picture = picture
  question = question
  reply = reply
  hello = hello
  answer = answer
  Chats = {chat, elsewhere}
  Mentor = Mentor
  Nobody = Nobody
  Messages = {hello, answer, reply}
  NoMessage = NoMessage
  ChatOf <- WhereSent
  Outgoing <- ByMentor
  Pictures <- Pictured
  Tasks = {t1}
  MaxDeliveries = 1
  ExtractEvery = 1
SPECIFICATION Spec
CHECK_DEADLOCK FALSE
INVARIANT MemoryIsOfTheStudent
