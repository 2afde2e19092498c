------------------------------- MODULE Inbound -------------------------------
(***************************************************************************)
(* Messages on their way in: telegram/gateway.py, telegram/store.py and    *)
(* memory/job.py, for one mentor account.                                  *)
(*                                                                         *)
(* Telegram hands each message to a task of its own, sometimes more than   *)
(* once.  The task reads the attachment outside any transaction, then      *)
(* stores everything in one (READ COMMITTED): who wrote, in which          *)
(* conversation, the message, and the jobs it gives rise to.  Transactions *)
(* of several tasks interleave at each statement.  An insert waits for an  *)
(* uncommitted insert of the same key; then it fails, or, for the message  *)
(* itself, finds a duplicate.                                              *)
(*                                                                         *)
(* In a private chat the id of the chat is that of the other side.  Whether*)
(* the assistant may answer is the business of Conversation; here it may   *)
(* or may not.                                                             *)
(***************************************************************************)
EXTENDS Integers, FiniteSets

CONSTANTS Chats,         \* private chats, and the students behind them
          Mentor,        \* the account's own user
          Nobody,
          Messages,
          NoMessage,     \* what an idle task is about
          ChatOf,        \* the chat of a message
          Outgoing,      \* messages that the mentor wrote
          Pictures,      \* messages whose attachment a model describes
          Tasks,         \* event handlers that may run at the same time
          MaxDeliveries, \* bound: how often Telegram delivers a message
          ExtractEvery   \* EXTRACT_EVERY

ASSUME ConstantsAssumption ==
  /\ Mentor \notin Chats
  /\ Nobody \notin Chats \union {Mentor}
  /\ NoMessage \notin Messages
  /\ ChatOf \in [Messages -> Chats]
  /\ Outgoing \subseteq Messages
  /\ Pictures \subseteq Messages
  /\ IsFiniteSet(Tasks)
  /\ IsFiniteSet(Messages)
  /\ MaxDeliveries \in Nat
  /\ ExtractEvery \in Nat \ {0}

People == Chats \union {Mentor}

VARIABLES
  (* tables *)
  identities,      \* people with a row in identities, each with its student
  owner,           \* conversations.student_id; Nobody: there is no row
  stored,          \* messages
  duplicates,      \* rows of duplicate_deliveries
  answerJobs,      \* answer_message jobs made for a message
  extractJobs,     \* extract_memory jobs waiting
  charged,         \* rows of model_usage for a description
  memory,          \* the chats from which the facts about a student come
  (* tasks: one _on_message each *)
  pc, msg,
  called,          \* the attachment carries a call of the model
  known,           \* the author had an identity
  opened,          \* the conversation existed
  duplicate,       \* the insert returned no row
  nth,             \* student_message_count
  (* ghosts *)
  delivered,       \* deliveries by Telegram
  dropped,         \* deliveries skipped, or lost with their transaction
  calls, wasted    \* descriptions made, and lost with their transaction

tables == <<identities, owner, stored, duplicates, answerJobs, extractJobs, charged, memory>>
tasks  == <<pc, msg, called, known, opened, duplicate, nth>>
ghosts == <<delivered, dropped, calls, wasted>>
vars   == <<tables, tasks, ghosts>>

Stages == {"idle", "arrived", "read", "identified", "introduced", "recorded"}

TypeOK ==
  /\ identities \subseteq People
  /\ owner \in [Chats -> People \union {Nobody}]
  /\ stored \subseteq Messages
  /\ duplicates \in [Messages -> Nat]
  /\ answerJobs \in [Messages -> Nat]
  /\ extractJobs \in [Chats -> Nat]
  /\ charged \in [Messages -> Nat]
  /\ memory \in [People -> SUBSET Chats]
  /\ pc \in [Tasks -> Stages]
  /\ msg \in [Tasks -> Messages \union {NoMessage}]
  /\ called \in [Tasks -> BOOLEAN]
  /\ known \in [Tasks -> BOOLEAN]
  /\ opened \in [Tasks -> BOOLEAN]
  /\ duplicate \in [Tasks -> BOOLEAN]
  /\ nth \in [Tasks -> Nat]
  /\ delivered \in [Messages -> Nat]
  /\ dropped \in [Messages -> Nat]
  /\ calls \in [Messages -> Nat]
  /\ wasted \in [Messages -> Nat]

Init ==
  /\ identities = {}
  /\ owner = [c \in Chats |-> Nobody]
  /\ stored = {}
  /\ duplicates = [m \in Messages |-> 0]
  /\ answerJobs = [m \in Messages |-> 0]
  /\ extractJobs = [c \in Chats |-> 0]
  /\ charged = [m \in Messages |-> 0]
  /\ memory = [p \in People |-> {}]
  /\ pc = [t \in Tasks |-> "idle"]
  /\ msg = [t \in Tasks |-> NoMessage]
  /\ called = [t \in Tasks |-> FALSE]
  /\ known = [t \in Tasks |-> FALSE]
  /\ opened = [t \in Tasks |-> FALSE]
  /\ duplicate = [t \in Tasks |-> FALSE]
  /\ nth = [t \in Tasks |-> 0]
  /\ delivered = [m \in Messages |-> 0]
  /\ dropped = [m \in Messages |-> 0]
  /\ calls = [m \in Messages |-> 0]
  /\ wasted = [m \in Messages |-> 0]

-----------------------------------------------------------------------------
(* Helpers.                                                                *)

Author(m) == IF m \in Outgoing THEN Mentor ELSE ChatOf[m]

\* The tasks about a message.
About(m) == {t \in Tasks : msg[t] = m}

\* What a transaction has inserted and not committed.
Introducing(t) == pc[t] \in {"introduced", "recorded"} /\ ~ known[t]
Opening(t)     == pc[t] = "recorded" /\ ~ opened[t]
Recording(t)   == pc[t] = "recorded" /\ ~ duplicate[t]

\* The handler returns.
Release(t) ==
  /\ pc' = [pc EXCEPT ![t] = "idle"]
  /\ msg' = [msg EXCEPT ![t] = NoMessage]
  /\ called' = [called EXCEPT ![t] = FALSE]
  /\ known' = [known EXCEPT ![t] = FALSE]
  /\ opened' = [opened EXCEPT ![t] = FALSE]
  /\ duplicate' = [duplicate EXCEPT ![t] = FALSE]
  /\ nth' = [nth EXCEPT ![t] = 0]

-----------------------------------------------------------------------------
(* _on_message, outside any transaction but the one that reads the list.   *)

\* Telegram delivers a message, at most MaxDeliveries times.
Deliver(t, m) ==
  /\ pc[t] = "idle"
  /\ delivered[m] < MaxDeliveries
  /\ delivered' = [delivered EXCEPT ![m] = @ + 1]
  /\ pc' = [pc EXCEPT ![t] = "arrived"]
  /\ msg' = [msg EXCEPT ![t] = m]
  /\ UNCHANGED <<tables, called, known, opened, duplicate, nth, dropped, calls, wasted>>

\* skip_reason: the chat is excluded by now; nothing is stored.
Skip(t) ==
  /\ pc[t] = "arrived"
  /\ dropped' = [dropped EXCEPT ![msg[t]] = @ + 1]
  /\ Release(t)
  /\ UNCHANGED <<tables, delivered, calls, wasted>>

\* _read_attachment: a picture is described, unless it cannot be had or there is
\* no model.  Whether the message is known is not asked.
ReadAttachment(t) ==
  /\ pc[t] = "arrived"
  /\ pc' = [pc EXCEPT ![t] = "read"]
  /\ \/ UNCHANGED <<called, calls>>
     \/ /\ msg[t] \in Pictures
        /\ called' = [called EXCEPT ![t] = TRUE]
        /\ calls' = [calls EXCEPT ![msg[t]] = @ + 1]
  /\ UNCHANGED <<tables, msg, known, opened, duplicate, nth, delivered, dropped, wasted>>

-----------------------------------------------------------------------------
(* persist: one transaction.                                               *)

\* _resolve_student looks for the identity of the author ...
Identify(t) ==
  /\ pc[t] = "read"
  /\ pc' = [pc EXCEPT ![t] = "identified"]
  /\ known' = [known EXCEPT ![t] = Author(msg[t]) \in identities]
  /\ UNCHANGED <<tables, msg, called, opened, duplicate, nth, ghosts>>

\* ... and adds it if there is none; _resolve_conversation looks for the row.
Introduce(t) ==
  /\ pc[t] = "identified"
  /\ ~ known[t] =>
       /\ Author(msg[t]) \notin identities
       /\ \A u \in Tasks \ {t} : Introducing(u) => Author(msg[u]) # Author(msg[t])
  /\ pc' = [pc EXCEPT ![t] = "introduced"]
  /\ opened' = [opened EXCEPT ![t] = owner[ChatOf[msg[t]]] # Nobody]
  /\ UNCHANGED <<tables, msg, called, known, duplicate, nth, ghosts>>

\* Messages of the student in a chat, committed.
StudentMessages(c) == {m \in stored \ Outgoing : ChatOf[m] = c}

\* Fault: look first, insert then.
RecordLooking(t) ==
  LET m == msg[t] IN
  /\ pc[t] = "introduced"
  /\ ~ opened[t] =>
       /\ owner[ChatOf[m]] = Nobody
       /\ \A u \in Tasks \ {t} : Opening(u) => ChatOf[msg[u]] # ChatOf[m]
  /\ pc' = [pc EXCEPT ![t] = "recorded"]
  /\ duplicate' = [duplicate EXCEPT ![t] = m \in stored]
  /\ nth' = [nth EXCEPT ![t] = Cardinality(StudentMessages(ChatOf[m])) + 1]
  /\ UNCHANGED <<tables, msg, called, known, opened, ghosts>>

\* Fault: conversations have no unique key.
RecordApart(t) ==
  LET m == msg[t] IN
  /\ pc[t] = "introduced"
  /\ \A u \in Tasks \ {t} : Recording(u) => msg[u] # m
  /\ pc' = [pc EXCEPT ![t] = "recorded"]
  /\ duplicate' = [duplicate EXCEPT ![t] = m \in stored]
  /\ nth' = [nth EXCEPT ![t] = Cardinality(StudentMessages(ChatOf[m])) + 1]
  /\ UNCHANGED <<tables, msg, called, known, opened, ghosts>>

\* The conversation is added if there is none; the message is inserted, on
\* conflict do nothing; should_extract counts, its own message included.
Record(t) ==
  LET m == msg[t] IN
  /\ pc[t] = "introduced"
  /\ ~ opened[t] =>
       /\ owner[ChatOf[m]] = Nobody
       /\ \A u \in Tasks \ {t} : Opening(u) => ChatOf[msg[u]] # ChatOf[m]
  /\ \A u \in Tasks \ {t} : Recording(u) => msg[u] # m
  /\ pc' = [pc EXCEPT ![t] = "recorded"]
  /\ duplicate' = [duplicate EXCEPT ![t] = m \in stored]
  /\ nth' = [nth EXCEPT ![t] = Cardinality(StudentMessages(ChatOf[m])) + 1]
  /\ UNCHANGED <<tables, msg, called, known, opened, ghosts>>

\* The rows of the author and of the conversation are there.
Establish(t) ==
  /\ identities' = identities \union {Author(msg[t])}
  /\ owner' = [owner EXCEPT ![ChatOf[msg[t]]] = IF opened[t] THEN @ ELSE Author(msg[t])]

\* The description is paid for, whether the message is new or not.
Charge(t) ==
  charged' = [charged EXCEPT ![msg[t]] = IF called[t] THEN @ + 1 ELSE @]

\* Fault: a duplicate is left before its description is recorded.
CommitDuplicateEarly(t) ==
  /\ pc[t] = "recorded"
  /\ duplicate[t]
  /\ Establish(t)
  /\ duplicates' = [duplicates EXCEPT ![msg[t]] = @ + 1]
  /\ Release(t)
  /\ UNCHANGED <<stored, answerJobs, extractJobs, charged, memory, ghosts>>

\* Fault: a duplicate is dropped without a trace.
CommitDuplicateSilently(t) ==
  /\ pc[t] = "recorded"
  /\ duplicate[t]
  /\ Establish(t)
  /\ Charge(t)
  /\ Release(t)
  /\ UNCHANGED <<stored, duplicates, answerJobs, extractJobs, memory, ghosts>>

CommitDuplicate(t) ==
  /\ pc[t] = "recorded"
  /\ duplicate[t]
  /\ Establish(t)
  /\ Charge(t)
  /\ duplicates' = [duplicates EXCEPT ![msg[t]] = @ + 1]
  /\ Release(t)
  /\ UNCHANGED <<stored, answerJobs, extractJobs, memory, ghosts>>

\* A new message: a student's may make a job for an answer, and makes one for
\* extraction when the count says so.
CommitMessage(t) ==
  LET m == msg[t] IN
  /\ pc[t] = "recorded"
  /\ ~ duplicate[t]
  /\ Establish(t)
  /\ Charge(t)
  /\ stored' = stored \union {m}
  /\ \/ UNCHANGED answerJobs
     \/ m \notin Outgoing /\ answerJobs' = [answerJobs EXCEPT ![m] = @ + 1]
  /\ extractJobs' =
       [extractJobs EXCEPT ![ChatOf[m]] =
          IF m \notin Outgoing /\ nth[t] % ExtractEvery = 0 THEN @ + 1 ELSE @]
  /\ Release(t)
  /\ UNCHANGED <<duplicates, memory, ghosts>>

\* A unique key of identities or conversations is violated, anything else
\* raises, or the process ends: Telethon logs it and the delivery is over.
Fail(t) ==
  /\ pc[t] # "idle"
  /\ dropped' = [dropped EXCEPT ![msg[t]] = @ + 1]
  /\ wasted' = [wasted EXCEPT ![msg[t]] = IF called[t] THEN @ + 1 ELSE @]
  /\ Release(t)
  /\ UNCHANGED <<tables, delivered, calls>>

-----------------------------------------------------------------------------
(* The worker: memory_job.run.                                             *)

\* What is learnt in a conversation is kept with its student; or nothing is
\* learnt (the cap, the model, the policy).
Extract(c) ==
  /\ extractJobs[c] > 0
  /\ extractJobs' = [extractJobs EXCEPT ![c] = @ - 1]
  /\ \/ UNCHANGED memory
     \/ memory' = [memory EXCEPT ![owner[c]] = @ \union {c}]
  /\ UNCHANGED <<identities, owner, stored, duplicates, answerJobs, charged, tasks, ghosts>>

-----------------------------------------------------------------------------
Handle(t) ==
  \/ Skip(t) \/ ReadAttachment(t) \/ Identify(t) \/ Introduce(t) \/ Record(t)
  \/ CommitDuplicate(t) \/ CommitMessage(t) \/ Fail(t)

Next ==
  \/ \E t \in Tasks, m \in Messages : Deliver(t, m)
  \/ \E t \in Tasks : Handle(t)
  \/ \E c \in Chats : Extract(c)

Spec == Init /\ [][Next]_vars

-----------------------------------------------------------------------------
(* Properties.                                                             *)

\* However often a message is delivered, and to how many tasks at once, it makes
\* one job for an answer (telegram/store.py 1-6, test_gateway.py 128).
OneAnswerJob == \A m \in Messages : answerJobs[m] <= 1

\* Every delivery is accounted for: in progress, skipped, lost with its
\* transaction, stored, or counted as a duplicate (telegram/store.py 117).
DuplicatesAreCounted ==
  \A m \in Messages :
    delivered[m] = Cardinality(About(m)) + dropped[m]
                   + (IF m \in stored THEN 1 ELSE 0) + duplicates[m]

\* A description is charged even if its message turns out to be a duplicate; only
\* one whose transaction was lost escapes the cap (telegram/gateway.py 340-347).
SpendIsCounted ==
  \A m \in Messages :
    calls[m] = charged[m] + wasted[m] + Cardinality({t \in About(m) : called[t]})

\* Student and mentor may open a conversation at the same time; it is opened
\* once, keeps its student, and a message is stored in an open conversation only
\* (uq_conversation_account_chat).
OpenedOnce ==
  [][\A c \in Chats :
       /\ owner[c] # Nobody => owner'[c] = owner[c]
       /\ (\E m \in stored' : ChatOf[m] = c) => owner'[c] \in identities']_vars

\* "The memory belongs to the student, not to a conversation" (ADR-027,
\* docs/ARCHITECTURE_DECISIONS.md 835-836): what the assistant recalls in a chat
\* was not learnt from another person's.
MemoryIsOfTheStudent ==
  \A c \in Chats : owner[c] # Nobody => memory[owner[c]] \subseteq {c}
==============================================================================
