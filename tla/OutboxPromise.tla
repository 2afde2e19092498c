---------------------------- MODULE OutboxPromise ----------------------------
(***************************************************************************)
(* What the outbox promises a student, with no database, worker or crash:  *)
(* the parts of an answer reach the chat one at a time, in order, none of  *)
(* them twice, and an answer is called sent only when all of it is there.  *)
(* An answer may be left unfinished for ever; it may not be sent again.    *)
(***************************************************************************)
EXTENDS Naturals, Sequences

CONSTANTS Deliveries,    \* the answers
          Parts          \* how many Telegram messages each answer is split into

VARIABLES inbox,         \* the part numbers that reached the chat, per answer
          answered       \* the answers recorded as sent

vars == <<inbox, answered>>

Init ==
  /\ inbox = [d \in Deliveries |-> << >>]
  /\ answered = [d \in Deliveries |-> FALSE]

\* The next missing part reaches the student.
Reach(d) ==
  /\ ~ answered[d]
  /\ Len(inbox[d]) < Parts[d]
  /\ inbox' = [inbox EXCEPT ![d] = Append(@, Len(@) + 1)]
  /\ UNCHANGED answered

\* A whole answer is recorded as sent.
Finish(d) ==
  /\ ~ answered[d]
  /\ Parts[d] > 0
  /\ Len(inbox[d]) = Parts[d]
  /\ answered' = [answered EXCEPT ![d] = TRUE]
  /\ UNCHANGED inbox

Next == \E d \in Deliveries : Reach(d) \/ Finish(d)

Spec == Init /\ [][Next]_vars
==============================================================================
