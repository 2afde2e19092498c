------------------------ MODULE ConversationPromise ------------------------
(***************************************************************************)
(* What a conversation promises the student and the mentor, with no        *)
(* transaction, worker or job: every question has one fate.  It is open    *)
(* until it is answered, listed for the mentor, or left to him, who reads  *)
(* it in Telegram; an answered one is never listed, a listed one is never  *)
(* answered, and it leaves the list only when a person looks at all of it. *)
(* The assistant may take back the word only after the mentor has written; *)
(* while it is the mentor's, only the answers that were being made when he *)
(* got it still go out.                                                    *)
(***************************************************************************)
EXTENDS Naturals

CONSTANTS Questions,
          MaxLate        \* answers that may be being made at a time

VARIABLES fate,          \* of each question
          speaker,       \* whose word it is, as conversations.status has it
          spoken,        \* has the mentor ever written
          looked,        \* has a person looked since the word was the mentor's
          late           \* answers made since then

vars == <<fate, speaker, spoken, looked, late>>

Init ==
  /\ fate = [q \in Questions |-> "unasked"]
  /\ speaker = "active"
  /\ spoken = FALSE
  /\ looked = FALSE
  /\ late = 0

-----------------------------------------------------------------------------
Meets(q, end) ==
  /\ fate[q] = "open"
  /\ fate' = [fate EXCEPT ![q] = end]

\* A person looks: nothing is on the list any more.
Look ==
  /\ fate' = [q \in Questions |-> IF fate[q] = "listed" THEN "seen" ELSE fate[q]]
  /\ looked' = TRUE

\* The word goes to s; where it was not the mentor's already, none is late.
Pass(s) ==
  /\ speaker' = s
  /\ late' = IF s = speaker THEN late ELSE 0

-----------------------------------------------------------------------------
\* A question comes in, for the assistant or, as it looked when it came, for the
\* mentor.
Ask(q) ==
  /\ fate[q] = "unasked"
  /\ \E first \in {"open", "left"} : fate' = [fate EXCEPT ![q] = first]
  /\ UNCHANGED <<speaker, spoken, looked, late>>

\* An answer, or one for which there is no channel.
Answer(q) ==
  /\ \E end \in {"answered", "left"} : Meets(q, end)
  /\ \/ speaker = "active" /\ UNCHANGED late
     \/ speaker = "awaiting_mentor" /\ late < MaxLate /\ late' = late + 1
  /\ UNCHANGED <<speaker, spoken, looked>>

\* The assistant keeps silent about it and leaves it to the mentor, or lists it.
KeepSilent(q) ==
  /\ \E end \in {"left", "listed"} : Meets(q, end)
  /\ UNCHANGED <<speaker, spoken, looked, late>>

\* The assistant hands the conversation over, and says why.
HandOver(q) ==
  /\ Meets(q, "listed")
  /\ Pass("awaiting_mentor")
  /\ looked' = FALSE
  /\ UNCHANGED spoken

\* The assistant returns for a question, after a word of the mentor.
TakeBack(q) ==
  /\ spoken
  /\ \E end \in {"answered", "left", "listed"} : Meets(q, end)
  /\ Pass("active")
  /\ UNCHANGED <<spoken, looked>>

\* The mentor takes over, or sends what the assistant proposed to him.
MentorWrites ==
  /\ spoken' = TRUE
  /\ \/ Look /\ Pass("awaiting_mentor")
     \/ Look /\ UNCHANGED <<speaker, late>>
     \/ UNCHANGED <<fate, looked, speaker, late>>

\* An operator looks at the list, gives the word to the assistant, or both.
Operate ==
  /\ UNCHANGED <<fate, looked>> \/ Look
  /\ UNCHANGED <<speaker, late>> \/ Pass("active")
  /\ UNCHANGED spoken

Next ==
  \/ Operate
  \/ MentorWrites
  \/ \E q \in Questions : Ask(q) \/ Answer(q) \/ KeepSilent(q) \/ HandOver(q) \/ TakeBack(q)

Spec == Init /\ [][Next]_vars
=============================================================================
