------------------------------ MODULE MCInbound ------------------------------
EXTENDS Inbound, TLC

CONSTANTS chat, elsewhere,            \* two chats
          picture, question, reply,   \* messages of the first one
          hello, answer               \* messages of the other

\* A picture and a question of the student, replies of the mentor.
WhereSent == [m \in Messages |-> IF m \in {hello, answer} THEN elsewhere ELSE chat]
ByMentor  == {reply, hello} \intersect Messages
Pictured  == {picture} \intersect Messages

Symmetry == Permutations(Tasks)
==============================================================================
