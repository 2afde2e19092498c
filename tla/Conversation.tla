---------------------------- MODULE Conversation ----------------------------
(***************************************************************************)
(* Who speaks in one conversation: conversation.py, escalation.py, the     *)
(* first half of worker.process_message, gateway.persist, and the hands of *)
(* the operators (/resume of the control bot, the panel's forms).          *)
(*                                                                         *)
(* Every one of them reads the conversation in a transaction of its own    *)
(* (READ COMMITTED), works on what it read, and writes `status` only where *)
(* its own copy changed.  The worker's transaction lasts as long as the    *)
(* call of the model.  maybe_resume changes the row before that call, so   *)
(* its worker holds the row and other writers of it wait.                  *)
(*                                                                         *)
(* Nothing in the code closes a conversation, so there are two statuses.   *)
(***************************************************************************)
EXTENDS Naturals, FiniteSets

CONSTANTS Questions,     \* messages of the student
          Workers,
          Operators,     \* requests of the panel and commands of the bot
          NoQuestion     \* what an idle worker is about

ASSUME ConversationAssumption ==
  /\ NoQuestion \notin Questions
  /\ IsFiniteSet(Workers)

VARIABLES
  (* table conversations *)
  status, enabled,
  (* tables messages, jobs, escalations, drafts and deliveries *)
  arrival,         \* "welcome", "unwelcome": what gateway.persist read
  job,
  escalation,
  answered,        \* a draft or a delivery was made for the question
  mentorWord,      \* age of the mentor's last message, 12 hours make it "old"
  (* open transactions: what each read *)
  stage, about,    \* workers
  sawEnabled,
  mentorSaw,       \* persist, for a message of the mentor
  command, operatorSaw,
  (* ghosts *)
  seen,            \* a person has looked since the conversation was handed over
  late             \* answers made since the conversation is handed over

conversation == <<status, enabled>>
conversationTables == <<arrival, job, escalation, answered, mentorWord>>
worker    == <<stage, about, sawEnabled>>
operator  == <<command, operatorSaw>>
conversationGhosts == <<seen, late>>
conversationVars == <<conversation, conversationTables, worker, mentorSaw, operator, conversationGhosts>>

Statuses == {"active", "awaiting_mentor"}

ConversationTypeOK ==
  /\ status \in Statuses
  /\ enabled \in BOOLEAN
  /\ arrival \in [Questions -> {"absent", "welcome", "unwelcome", "stored"}]
  /\ job \in [Questions -> {"none", "queued", "claimed", "done"}]
  /\ escalation \in [Questions -> {"none", "open", "resolved"}]
  /\ answered \in [Questions -> BOOLEAN]
  /\ mentorWord \in {"never", "fresh", "old"}
  /\ stage \in [Workers -> {"idle", "claimed", "answering", "waiting", "returning"}]
  /\ about \in [Workers -> Questions \union {NoQuestion}]
  /\ sawEnabled \in [Workers -> BOOLEAN]
  /\ mentorSaw \in Statuses \union {"none"}
  /\ command \in [Operators -> {"none", "resume", "resolve"}]
  /\ operatorSaw \in [Operators -> Statuses]
  /\ seen \in BOOLEAN
  /\ late \in Nat

ConversationInit ==
  /\ status = "active"
  /\ enabled = TRUE
  /\ arrival = [q \in Questions |-> "absent"]
  /\ job = [q \in Questions |-> "none"]
  /\ escalation = [q \in Questions |-> "none"]
  /\ answered = [q \in Questions |-> FALSE]
  /\ mentorWord = "never"
  /\ stage = [w \in Workers |-> "idle"]
  /\ about = [w \in Workers |-> NoQuestion]
  /\ sawEnabled = [w \in Workers |-> TRUE]
  /\ mentorSaw = "none"
  /\ command = [o \in Operators |-> "none"]
  /\ operatorSaw = [o \in Operators |-> "active"]
  /\ seen = FALSE
  /\ late = 0

-----------------------------------------------------------------------------
(* Helpers.                                                                *)

\* assistant_may_answer.
AssistantMayAnswer == enabled /\ status = "active"

\* A worker has changed the row and not committed: other updates wait.
RowIsHeld == \E w \in Workers : stage[w] = "returning"

\* The committed status; nothing counts as late once the assistant is back.
Become(s) ==
  /\ status' = s
  /\ late' = IF s = status THEN late ELSE 0

\* resolve_open.
ResolveOpen ==
  escalation' = [q \in Questions |->
                   IF escalation[q] = "open" THEN "resolved" ELSE escalation[q]]

\* The worker is done with its question.
Finish(w, end) ==
  /\ job' = [job EXCEPT ![about[w]] = end]
  /\ stage' = [stage EXCEPT ![w] = "idle"]
  /\ about' = [about EXCEPT ![w] = NoQuestion]
  /\ UNCHANGED sawEnabled

-----------------------------------------------------------------------------
(* gateway.persist, for a message of the student and one of the mentor.    *)

Receive(q) ==
  /\ arrival[q] = "absent"
  /\ arrival' = [arrival EXCEPT ![q] = IF AssistantMayAnswer THEN "welcome" ELSE "unwelcome"]
  /\ UNCHANGED <<conversation, job, escalation, answered, mentorWord, worker, mentorSaw, operator, conversationGhosts>>

Persist(q) ==
  /\ arrival[q] \in {"welcome", "unwelcome"}
  /\ arrival' = [arrival EXCEPT ![q] = "stored"]
  /\ job' = [job EXCEPT ![q] = IF arrival[q] = "welcome" THEN "queued" ELSE "none"]
  /\ UNCHANGED <<conversation, escalation, answered, mentorWord, worker, mentorSaw, operator, conversationGhosts>>

MentorWrites ==
  /\ mentorSaw = "none"
  /\ mentorSaw' = status
  /\ UNCHANGED <<conversation, conversationTables, worker, operator, conversationGhosts>>

\* on_mentor_message: the mentor takes over.
TakeOver ==
  /\ mentorSaw # "none"
  /\ ResolveOpen
  /\ \/ /\ mentorSaw = "active"
        /\ ~ RowIsHeld
        /\ Become("awaiting_mentor")
     \/ /\ mentorSaw # "active"
        /\ UNCHANGED <<status, late>>
  /\ mentorWord' = "fresh"
  /\ mentorSaw' = "none"
  /\ seen' = TRUE
  /\ UNCHANGED <<enabled, arrival, job, answered, worker, operator>>

\* The mentor's message is the draft of his input box (resolve_from_chat): the
\* conversation stays with whom it is.
AcceptDraft ==
  /\ mentorSaw # "none"
  /\ \E q \in Questions : answered[q]
  /\ mentorWord' = "fresh"
  /\ mentorSaw' = "none"
  /\ UNCHANGED <<conversation, arrival, job, escalation, answered, worker, operator, conversationGhosts>>

\* DEFAULT_RESUME_AFTER passes.
MentorWordAges ==
  /\ mentorWord = "fresh"
  /\ mentorWord' = "old"
  /\ UNCHANGED <<conversation, arrival, job, escalation, answered, worker, mentorSaw, operator, conversationGhosts>>

-----------------------------------------------------------------------------
(* worker.process_message.                                                 *)

Claim(w, q) ==
  /\ stage[w] = "idle"
  /\ job[q] = "queued"
  /\ job' = [job EXCEPT ![q] = "claimed"]
  /\ stage' = [stage EXCEPT ![w] = "claimed"]
  /\ about' = [about EXCEPT ![w] = q]
  /\ UNCHANGED <<conversation, arrival, escalation, answered, mentorWord, sawEnabled, mentorSaw, operator, conversationGhosts>>

\* Fault: a mentor who never spoke has been silent for long enough.
MayReturnUnspoken == status = "awaiting_mentor" /\ mentorWord # "fresh"

\* The conditions of maybe_resume.
MayReturn == status = "awaiting_mentor" /\ mentorWord = "old"

\* Fault: what was true when the job was made is not asked again.
BeginUnasked(w) ==
  /\ stage[w] = "claimed"
  /\ stage' = [stage EXCEPT ![w] = "answering"]
  /\ sawEnabled' = [sawEnabled EXCEPT ![w] = enabled]
  /\ UNCHANGED <<conversation, conversationTables, about, mentorSaw, operator, conversationGhosts>>

\* The conversation is the assistant's.
Begin(w) ==
  /\ stage[w] = "claimed"
  /\ AssistantMayAnswer
  /\ stage' = [stage EXCEPT ![w] = "answering"]
  /\ sawEnabled' = [sawEnabled EXCEPT ![w] = enabled]
  /\ UNCHANGED <<conversation, conversationTables, about, mentorSaw, operator, conversationGhosts>>

\* It is not, and maybe_resume takes it back ...
Return(w) ==
  /\ stage[w] = "claimed"
  /\ ~ AssistantMayAnswer
  /\ MayReturn
  /\ stage' = [stage EXCEPT ![w] = "waiting"]
  /\ sawEnabled' = [sawEnabled EXCEPT ![w] = enabled]
  /\ UNCHANGED <<conversation, conversationTables, about, mentorSaw, operator, conversationGhosts>>

\* ... and the changed row is flushed by the next query of the session.
Hold(w) ==
  /\ stage[w] = "waiting"
  /\ ~ RowIsHeld
  /\ stage' = [stage EXCEPT ![w] = "returning"]
  /\ UNCHANGED <<conversation, conversationTables, about, sawEnabled, mentorSaw, operator, conversationGhosts>>

\* It is not, and stays so: the question is left to the mentor.
SkipJob(w) ==
  /\ stage[w] = "claimed"
  /\ ~ AssistantMayAnswer
  /\ ~ MayReturn
  /\ Finish(w, "done")
  /\ UNCHANGED <<conversation, arrival, escalation, answered, mentorWord, mentorSaw, operator, conversationGhosts>>

\* What the worker's copy of the row does to the row at its commit.
Commit(w) == IF stage[w] = "returning" THEN Become("active") ELSE UNCHANGED <<status, late>>

\* An answer: a draft, a delivery, or neither where the account has no channel.
Answer(w) ==
  /\ stage[w] \in {"answering", "returning"}
  /\ \/ answered' = [answered EXCEPT ![about[w]] = TRUE]
     \/ UNCHANGED answered
  /\ status' = IF stage[w] = "returning" THEN "active" ELSE status
  /\ late' = IF stage[w] = "answering" /\ status = "awaiting_mentor" THEN late + 1 ELSE 0
  /\ Finish(w, "done")
  /\ UNCHANGED <<enabled, arrival, escalation, mentorWord, mentorSaw, operator, seen>>

\* Silence about this one question.
StaySilent(w) ==
  /\ stage[w] \in {"answering", "returning"}
  /\ escalation' = [escalation EXCEPT ![about[w]] = "open"]
  /\ Commit(w)
  /\ Finish(w, "done")
  /\ UNCHANGED <<enabled, arrival, answered, mentorWord, mentorSaw, operator, seen>>

\* Fault: a question that hands the conversation over opens no escalation.
HandOffUnlisted(w) ==
  /\ stage[w] \in {"answering", "returning"}
  /\ ~ RowIsHeld \/ stage[w] = "returning"
  /\ Become("awaiting_mentor")
  /\ Finish(w, "done")
  /\ seen' = FALSE
  /\ UNCHANGED <<enabled, arrival, escalation, answered, mentorWord, mentorSaw, operator>>

\* A question for the mentor alone: hand_off.
HandOff(w) ==
  /\ stage[w] \in {"answering", "returning"}
  /\ escalation' = [escalation EXCEPT ![about[w]] = "open"]
  /\ ~ RowIsHeld \/ stage[w] = "returning"
  /\ Become("awaiting_mentor")
  /\ Finish(w, "done")
  /\ seen' = FALSE
  /\ UNCHANGED <<enabled, arrival, answered, mentorWord, mentorSaw, operator>>

\* The transaction rolls back and the job is tried again.
Rollback(w) ==
  /\ stage[w] # "idle"
  /\ Finish(w, "queued")
  /\ UNCHANGED <<conversation, arrival, escalation, answered, mentorWord, mentorSaw, operator, conversationGhosts>>

-----------------------------------------------------------------------------
(* The operators.                                                          *)

\* /resume of the bot and `resolve` of the panel read the conversation ...
Order(o, what) ==
  /\ command[o] = "none"
  /\ command' = [command EXCEPT ![o] = what]
  /\ operatorSaw' = [operatorSaw EXCEPT ![o] = status]
  /\ UNCHANGED <<conversation, conversationTables, worker, mentorSaw, conversationGhosts>>

\* ... and resume_now acts on it; the panel resolves the open escalations too.
Resume(o) ==
  /\ command[o] # "none"
  /\ \/ /\ operatorSaw[o] = "awaiting_mentor"
        /\ ~ RowIsHeld
        /\ Become("active")
     \/ /\ operatorSaw[o] = "active"
        /\ UNCHANGED <<status, late>>
  /\ IF command[o] = "resolve"
       THEN ResolveOpen /\ seen' = TRUE
       ELSE UNCHANGED <<escalation, seen>>
  /\ command' = [command EXCEPT ![o] = "none"]
  /\ operatorSaw' = [operatorSaw EXCEPT ![o] = "active"]
  /\ UNCHANGED <<enabled, arrival, job, answered, mentorWord, worker, mentorSaw>>

\* The switch of the panel: one column, whatever the status.
Toggle ==
  /\ ~ RowIsHeld
  /\ enabled' = ~ enabled
  /\ UNCHANGED <<status, conversationTables, worker, mentorSaw, operator, conversationGhosts>>

-----------------------------------------------------------------------------
Work(w) ==
  \/ \E q \in Questions : Claim(w, q)
  \/ Begin(w) \/ Return(w) \/ Hold(w) \/ SkipJob(w)
  \/ Answer(w) \/ StaySilent(w) \/ HandOff(w) \/ Rollback(w)

ConversationNext ==
  \/ \E q \in Questions : Receive(q) \/ Persist(q)
  \/ MentorWrites \/ TakeOver \/ AcceptDraft \/ MentorWordAges
  \/ \E w \in Workers : Work(w)
  \/ \E o \in Operators : Resume(o) \/ \E what \in {"resume", "resolve"} : Order(o, what)
  \/ Toggle

ConversationSpec == ConversationInit /\ [][ConversationNext]_conversationVars

-----------------------------------------------------------------------------
(* Properties.                                                             *)

\* A conversation handed over stays so until the mentor has written in it or an
\* operator has given it back, whatever other workers were in the middle of
\* (escalation.py 138-142, test_escalation.py 293-312).
FrozenUntilMentorReplies ==
  [][status = "awaiting_mentor" /\ mentorWord = "never" /\ status' = "active"
       => \E o \in Operators : Resume(o)]_conversationVars

\* A conversation that was handed over is in the list of open escalations until
\* a person has looked: the mentor wrote in it or the panel resolved it
\* (escalation.py 175-176).
ListedUntilSeen ==
  status = "awaiting_mentor" =>
    seen \/ \E q \in Questions : escalation[q] = "open"

\* Once the conversation is the mentor's, at most the answers that workers had
\* begun are still made, one each, until somebody gives it back; the status
\* that a worker goes by is its own, not the one of the time the job was queued
\* (worker.py 130-138).
LastWords ==
  status = "awaiting_mentor" => late <= Cardinality(Workers)

\* "Three conditions, and all three must hold": a worker that finds the
\* assistant switched off for the conversation does not answer
\* (conversation.py 42-45).
OffMeansSilent ==
  \A w \in Workers : stage[w] \in {"answering", "returning"} => sawEnabled[w]

\* The panel's resolve closes the open escalations of a conversation and gives
\* the assistant back, as its docstring says: whoever takes the questions off the
\* list has left the assistant with the word.  A worker may hand the conversation
\* over between the read of it and the two writes (web/app.py 336-346).
ResolveGivesBack ==
  [][\A o \in Operators :
       command[o] = "resolve" /\ Resume(o) /\ escalation' # escalation
         => status' = "active"]_conversationVars

\* What no, an open and a resolved escalation make of a question without answer.
Listing == [none |-> "left", open |-> "listed", resolved |-> "seen"]

\* What has become of a question.
Fate(q) ==
  CASE job[q] = "none"                  -> IF arrival[q] = "stored" THEN "left" ELSE "unasked"
    [] job[q] \in {"queued", "claimed"} -> "open"
    [] job[q] = "done"                  -> IF answered[q] THEN "answered" ELSE Listing[escalation[q]]

Promise == INSTANCE ConversationPromise WITH
             MaxLate <- Cardinality(Workers), fate <- [q \in Questions |-> Fate(q)],
             speaker <- status, spoken <- mentorWord # "never", looked <- seen

\* The conversation implements the promise: each question has one fate, the list
\* loses nothing that no person saw, the word passes as it should, and while it
\* is the mentor's no worker begins an answer (worker.py 130-149, escalation.py
\* 54-169).
ConversationKeepsPromise == Promise!Spec
=============================================================================
