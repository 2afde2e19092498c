----------------------------- MODULE PathProofs -----------------------------
(***************************************************************************)
(* Theorems about the way of a message, Inbound, for any number of chats,  *)
(* messages, tasks and deliveries, and about who speaks, Conversation, for *)
(* any questions, any finite set of workers and any operators.             *)
(*                                                                         *)
(* Of a message the invariant says what an open transaction may rely on:   *)
(* the rows that it has inserted are not there yet and no other open       *)
(* transaction has inserted them; the rows that it has found will stay.    *)
(* From this follow one job for each message and one owner for each        *)
(* conversation.  The two accounts, of deliveries and of descriptions, are *)
(* kept by each step, because a task takes up one message and lets go of   *)
(* it once.                                                                *)
(***************************************************************************)
EXTENDS Inbound, Conversation, FiniteSetTheorems, TLAPS

\* A task is about a message as long as it runs; it reads the attachment first.
BusyIsAbout ==
  \A t \in Tasks : /\ (pc[t] = "idle") <=> (msg[t] = NoMessage)
                   /\ called[t] => pc[t] \notin {"idle", "arrived"}

\* A job belongs to a message that is stored.
JobsAreOfStored ==
  \A m \in Messages : answerJobs[m] <= 1 /\ (answerJobs[m] > 0 => m \in stored)

\* An uncommitted message is new, and in one transaction only.
RecordingIsNew ==
  \A t \in Tasks : Recording(t) =>
    /\ msg[t] \notin stored
    /\ \A u \in Tasks : Recording(u) /\ msg[u] = msg[t] => u = t

\* So is an uncommitted conversation; one that was found is there.
OpeningIsNew ==
  \A t \in Tasks :
    /\ Opening(t) =>
         /\ owner[ChatOf[msg[t]]] = Nobody
         /\ \A u \in Tasks : Opening(u) /\ ChatOf[msg[u]] = ChatOf[msg[t]] => u = t
    /\ pc[t] \in {"introduced", "recorded"} /\ opened[t] => owner[ChatOf[msg[t]]] # Nobody

\* A conversation has a student with an identity, a message a conversation.
RowsRefer ==
  /\ \A c \in Chats : owner[c] # Nobody => owner[c] \in identities
  /\ \A m \in stored : owner[ChatOf[m]] # Nobody

InboundInv ==
  /\ TypeOK
  /\ BusyIsAbout
  /\ JobsAreOfStored
  /\ RecordingIsNew
  /\ OpeningIsNew
  /\ RowsRefer

\* The tasks that carry a description of a message.
Carrying(m) == {t \in About(m) : called[t]}

-----------------------------------------------------------------------------
(* Counting tasks.                                                         *)

LEMMA CountsAreFinite ==
  ASSUME NEW m \in Messages
  PROVE  /\ IsFiniteSet(About(m)) /\ Cardinality(About(m)) \in Nat
         /\ IsFiniteSet(Carrying(m)) /\ Cardinality(Carrying(m)) \in Nat
<1>1. IsFiniteSet(Tasks) /\ About(m) \subseteq Tasks /\ Carrying(m) \subseteq Tasks
  BY ConstantsAssumption DEF About, Carrying
<1>2. QED
  BY <1>1, FS_Subset, FS_CardinalityType

LEMMA CarryingNext ==
  ASSUME NEW m \in Messages
  PROVE  Cardinality(Carrying(m))' \in Nat
<1>1. IsFiniteSet(Tasks) /\ Carrying(m)' \subseteq Tasks
  BY ConstantsAssumption DEF About, Carrying
<1>2. QED
  BY <1>1, FS_Subset, FS_CardinalityType

\* A running task is about a message.
LEMMA BusyHasMessage ==
  ASSUME InboundInv, NEW t \in Tasks, pc[t] # "idle"
  PROVE  msg[t] \in Messages /\ ChatOf[msg[t]] \in Chats /\ Author(msg[t]) \in People
BY ConstantsAssumption DEF InboundInv, TypeOK, BusyIsAbout, Author, People

\* Who lets go is no longer counted.
LEMMA ReleaseCounts ==
  ASSUME InboundInv, NEW t \in Tasks, pc[t] # "idle", Release(t), NEW m \in Messages
  PROVE  /\ Cardinality(About(m))' =
              Cardinality(About(m)) - (IF m = msg[t] THEN 1 ELSE 0)
         /\ Cardinality(Carrying(m))' =
              Cardinality(Carrying(m)) - (IF m = msg[t] /\ called[t] THEN 1 ELSE 0)
<1>1. /\ NoMessage \notin Messages
      /\ msg' = [msg EXCEPT ![t] = NoMessage]
      /\ called' = [called EXCEPT ![t] = FALSE]
      /\ msg \in [Tasks -> Messages \union {NoMessage}]
      /\ called \in [Tasks -> BOOLEAN]
  BY ConstantsAssumption DEF InboundInv, TypeOK, Release
<1>2. About(m)' = About(m) \ {t} /\ Carrying(m)' = Carrying(m) \ {t}
  BY <1>1 DEF About, Carrying
<1>3. (t \in About(m) <=> m = msg[t]) /\ (t \in Carrying(m) <=> m = msg[t] /\ called[t])
  BY DEF About, Carrying
<1>4. /\ IsFiniteSet(About(m)) /\ Cardinality(About(m)) \in Nat
      /\ IsFiniteSet(Carrying(m)) /\ Cardinality(Carrying(m)) \in Nat
  BY CountsAreFinite
<1>5. Cardinality(About(m) \ {t}) =
        IF t \in About(m) THEN Cardinality(About(m)) - 1 ELSE Cardinality(About(m))
  BY <1>4, FS_RemoveElement
<1>6. Cardinality(Carrying(m) \ {t}) =
        IF t \in Carrying(m) THEN Cardinality(Carrying(m)) - 1 ELSE Cardinality(Carrying(m))
  BY <1>4, FS_RemoveElement
<1>7. QED
  BY <1>2, <1>3, <1>4, <1>5, <1>6

\* Who neither takes nor drops a message changes no count.
LEMMA CountsAreKept ==
  ASSUME UNCHANGED <<msg, called>>, NEW m \in Messages
  PROVE  /\ Cardinality(About(m))' = Cardinality(About(m))
         /\ Cardinality(Carrying(m))' = Cardinality(Carrying(m))
<1>1. About(m)' = About(m) /\ Carrying(m)' = Carrying(m)
  BY DEF About, Carrying
<1>2. QED
  BY <1>1

-----------------------------------------------------------------------------
(* One lemma per group of actions.                                         *)

LEMMA InboundStart == Init => InboundInv
<1> SUFFICES ASSUME Init PROVE InboundInv
  OBVIOUS
<1>1. TypeOK
  BY ConstantsAssumption DEF Init, TypeOK, Stages, People
<1>2. BusyIsAbout /\ JobsAreOfStored
  BY DEF Init, BusyIsAbout, JobsAreOfStored
<1>3. RecordingIsNew /\ OpeningIsNew /\ RowsRefer
  BY ConstantsAssumption
     DEF Init, RecordingIsNew, OpeningIsNew, RowsRefer, Recording, Opening
<1>4. QED
  BY <1>1, <1>2, <1>3 DEF InboundInv

\* The types of the tasks, which letting go keeps.
TasksTyped ==
  /\ pc \in [Tasks -> Stages] /\ msg \in [Tasks -> Messages \union {NoMessage}]
  /\ called \in [Tasks -> BOOLEAN] /\ known \in [Tasks -> BOOLEAN]
  /\ opened \in [Tasks -> BOOLEAN] /\ duplicate \in [Tasks -> BOOLEAN]
  /\ nth \in [Tasks -> Nat]

LEMMA ReleaseTypes ==
  ASSUME InboundInv, NEW t \in Tasks, Release(t)
  PROVE  TasksTyped'
BY DEF InboundInv, TypeOK, TasksTyped, Release, Stages

\* Before and beside the inserts: the tables stay as they are.
LEMMA OutsideStep ==
  ASSUME InboundInv, NEW t \in Tasks,
         \/ \E m \in Messages : Deliver(t, m)
         \/ Skip(t) \/ ReadAttachment(t) \/ Identify(t) \/ Fail(t)
  PROVE  InboundInv'
<1> USE DEF InboundInv
<1>1. TypeOK'
  <2>1. CASE \E m \in Messages : Deliver(t, m)
    BY <2>1 DEF TypeOK, Deliver, Stages, tables
  <2>2. CASE Skip(t) \/ Fail(t)
    <3>1. msg[t] \in Messages
      BY <2>2, BusyHasMessage DEF Skip, Fail
    <3>2. TasksTyped'
      BY <2>2, ReleaseTypes DEF Skip, Fail
    <3>3. dropped' \in [Messages -> Nat] /\ wasted' \in [Messages -> Nat]
      BY <2>2, <3>1 DEF TypeOK, Skip, Fail
    <3>4. UNCHANGED <<tables, delivered, calls>>
      BY <2>2 DEF Skip, Fail
    <3>5. QED
      BY <3>2, <3>3, <3>4 DEF TypeOK, TasksTyped, tables
  <2>3. CASE ReadAttachment(t)
    <3>1. msg[t] \in Messages
      BY <2>3, BusyHasMessage DEF ReadAttachment
    <3>2. called' \in [Tasks -> BOOLEAN] /\ calls' \in [Messages -> Nat]
      <4>1. CASE UNCHANGED <<called, calls>>
        BY <4>1 DEF TypeOK
      <4>2. CASE /\ called' = [called EXCEPT ![t] = TRUE]
                 /\ calls' = [calls EXCEPT ![msg[t]] = @ + 1]
        BY <3>1, <4>2 DEF TypeOK
      <4>3. QED
        BY <2>3, <4>1, <4>2 DEF ReadAttachment
    <3>3. pc' \in [Tasks -> Stages]
      BY <2>3 DEF TypeOK, ReadAttachment, Stages
    <3>4. UNCHANGED <<tables, msg, known, opened, duplicate, nth, delivered, dropped, wasted>>
      BY <2>3 DEF ReadAttachment
    <3>5. QED
      BY <3>2, <3>3, <3>4 DEF TypeOK, tables
  <2>4. CASE Identify(t)
    BY <2>4 DEF TypeOK, Identify, Stages, tables, ghosts
  <2>5. QED
    BY <2>1, <2>2, <2>3, <2>4
<1>2. BusyIsAbout'
  BY ConstantsAssumption
     DEF BusyIsAbout, TypeOK, Deliver, Skip, ReadAttachment, Identify, Fail, Release, Stages
<1>3. UNCHANGED tables
  BY DEF Deliver, Skip, ReadAttachment, Identify, Fail
<1>4. /\ pc'[t] \notin {"introduced", "recorded"}
      /\ \A u \in Tasks \ {t} : /\ pc'[u] = pc[u] /\ msg'[u] = msg[u]
                               /\ opened'[u] = opened[u] /\ duplicate'[u] = duplicate[u]
  BY DEF TypeOK, Deliver, Skip, ReadAttachment, Identify, Fail, Release
<1>5. JobsAreOfStored' /\ RowsRefer'
  BY <1>3 DEF tables, JobsAreOfStored, RowsRefer
<1>6. RecordingIsNew'
  BY <1>3, <1>4 DEF tables, RecordingIsNew, Recording
<1>7. OpeningIsNew'
  BY <1>3, <1>4 DEF tables, OpeningIsNew, Opening
<1>8. QED
  BY <1>1, <1>2, <1>5, <1>6, <1>7

\* The conversation was looked up: if found, it is there.
LEMMA IntroduceStep ==
  ASSUME InboundInv, NEW t \in Tasks, Introduce(t)
  PROVE  InboundInv'
<1> USE DEF InboundInv
<1>1. TypeOK' /\ BusyIsAbout'
  BY DEF TypeOK, BusyIsAbout, Introduce, Stages, tables, ghosts
<1>2. JobsAreOfStored' /\ RowsRefer'
  BY DEF Introduce, tables, JobsAreOfStored, RowsRefer
<1>3. /\ pc' = [pc EXCEPT ![t] = "introduced"]
      /\ opened' = [opened EXCEPT ![t] = owner[ChatOf[msg[t]]] # Nobody]
      /\ UNCHANGED <<stored, owner, msg, duplicate>>
  BY DEF Introduce, tables
<1>4. RecordingIsNew'
  BY <1>3 DEF TypeOK, RecordingIsNew, Recording
<1>5. OpeningIsNew'
  BY <1>3 DEF TypeOK, OpeningIsNew, Opening
<1>6. QED
  BY <1>1, <1>2, <1>4, <1>5

\* The inserts: the guards of the unique keys keep others out.
LEMMA RecordStep ==
  ASSUME InboundInv, NEW t \in Tasks, Record(t)
  PROVE  InboundInv'
<1> USE DEF InboundInv
<1>1. msg[t] \in Messages /\ ChatOf[msg[t]] \in Chats
  BY BusyHasMessage DEF Record
<1>2. nth'[t] \in Nat
  <2>1. IsFiniteSet(StudentMessages(ChatOf[msg[t]]))
    <3>1. StudentMessages(ChatOf[msg[t]]) \subseteq Messages
      BY DEF TypeOK, StudentMessages
    <3>2. QED
      BY <3>1, ConstantsAssumption, FS_Subset
  <2>2. Cardinality(StudentMessages(ChatOf[msg[t]])) \in Nat
    BY <2>1, FS_CardinalityType
  <2>3. nth' = [nth EXCEPT ![t] = Cardinality(StudentMessages(ChatOf[msg[t]])) + 1]
    BY DEF Record
  <2>4. QED
    BY <2>2, <2>3 DEF TypeOK
<1>3. TypeOK' /\ BusyIsAbout'
  BY <1>2 DEF TypeOK, BusyIsAbout, Record, Stages, tables, ghosts
<1>4. JobsAreOfStored' /\ RowsRefer'
  BY DEF Record, tables, JobsAreOfStored, RowsRefer
<1>5. /\ pc' = [pc EXCEPT ![t] = "recorded"]
      /\ duplicate' = [duplicate EXCEPT ![t] = msg[t] \in stored]
      /\ UNCHANGED <<stored, owner, msg, opened>>
  BY DEF Record, tables
<1>6. RecordingIsNew'
  <2>1. \A u \in Tasks \ {t} : Recording(u) => msg[u] # msg[t]
    BY DEF Record
  <2>2. duplicate'[t] <=> msg[t] \in stored
    BY <1>5, Zenon DEF TypeOK
  <2>3. \A u \in Tasks \ {t} : Recording(u)' <=> Recording(u)
    BY <1>5, Zenon DEF TypeOK, Recording
  <2>4. Recording(t)' => msg[t] \notin stored
    BY <2>2 DEF Recording
  <2>5. QED
    BY <1>5, <2>1, <2>3, <2>4 DEF RecordingIsNew
<1>7. OpeningIsNew'
  <2>1. ~ opened[t] =>
          /\ owner[ChatOf[msg[t]]] = Nobody
          /\ \A u \in Tasks \ {t} : Opening(u) => ChatOf[msg[u]] # ChatOf[msg[t]]
    BY DEF Record
  <2>2. pc[t] = "introduced"
    BY DEF Record
  <2>3. QED
    BY <1>5, <2>1, <2>2 DEF TypeOK, OpeningIsNew, Opening
<1>8. QED
  BY <1>3, <1>4, <1>6, <1>7

\* The commit makes true what the transaction held for itself.
LEMMA CommitStep ==
  ASSUME InboundInv, NEW t \in Tasks, CommitDuplicate(t) \/ CommitMessage(t)
  PROVE  InboundInv'
<1> USE DEF InboundInv
<1>1. /\ msg[t] \in Messages /\ ChatOf[msg[t]] \in Chats
      /\ Author(msg[t]) \in People
      /\ pc[t] = "recorded"
  BY BusyHasMessage DEF CommitDuplicate, CommitMessage
<1>2. /\ identities' = identities \union {Author(msg[t])}
      /\ owner' = [owner EXCEPT ![ChatOf[msg[t]]] = IF opened[t] THEN @ ELSE Author(msg[t])]
      /\ Release(t)
  BY DEF CommitDuplicate, CommitMessage, Establish
<1>3. \/ stored' = stored /\ answerJobs' = answerJobs
      \/ /\ ~ duplicate[t]
         /\ stored' = stored \union {msg[t]}
         /\ \/ answerJobs' = answerJobs
            \/ answerJobs' = [answerJobs EXCEPT ![msg[t]] = @ + 1]
  BY DEF CommitDuplicate, CommitMessage
<1>4. TypeOK'
  <2>1. UNCHANGED ghosts /\ memory' = memory
    BY DEF CommitDuplicate, CommitMessage
  <2>2. duplicates' \in [Messages -> Nat] /\ extractJobs' \in [Chats -> Nat]
    BY <1>1 DEF TypeOK, CommitDuplicate, CommitMessage
  <2>3. charged' \in [Messages -> Nat]
    BY <1>1 DEF TypeOK, CommitDuplicate, CommitMessage, Charge
  <2>4. TasksTyped'
    BY <1>2, ReleaseTypes
  <2>5. stored' \subseteq Messages /\ answerJobs' \in [Messages -> Nat]
    BY <1>1, <1>3 DEF TypeOK
  <2>6. identities' \subseteq People /\ owner' \in [Chats -> People \union {Nobody}]
    BY <1>1, <1>2 DEF TypeOK
  <2>7. QED
    BY <2>1, <2>2, <2>3, <2>4, <2>5, <2>6 DEF TypeOK, TasksTyped, ghosts
<1>5. BusyIsAbout'
  BY <1>2, ConstantsAssumption DEF TypeOK, BusyIsAbout, Release
<1>6. JobsAreOfStored'
  <2>1. ~ duplicate[t] => msg[t] \notin stored
    BY <1>1 DEF RecordingIsNew, Recording
  <2>2. QED
    BY <1>1, <1>3, <2>1 DEF TypeOK, JobsAreOfStored
<1>7. /\ pc'[t] = "idle"
      /\ \A u \in Tasks \ {t} : /\ pc'[u] = pc[u] /\ msg'[u] = msg[u]
                               /\ opened'[u] = opened[u] /\ duplicate'[u] = duplicate[u]
  BY <1>2 DEF TypeOK, Release
<1>8. RecordingIsNew'
  <2>1. \A u \in Tasks \ {t} : Recording(u) /\ ~ duplicate[t] => msg[u] # msg[t]
    BY <1>1 DEF RecordingIsNew, Recording
  <2>2. QED
    BY <1>3, <1>7, <2>1 DEF RecordingIsNew, Recording
<1>9. Author(msg[t]) # Nobody
  BY <1>1, ConstantsAssumption DEF People
<1>10. owner'[ChatOf[msg[t]]] # Nobody /\ owner'[ChatOf[msg[t]]] \in identities'
  BY <1>1, <1>2, <1>9 DEF TypeOK, OpeningIsNew, RowsRefer
<1>11. \A c \in Chats : c # ChatOf[msg[t]] => owner'[c] = owner[c]
  BY <1>2 DEF TypeOK
<1>12. OpeningIsNew'
  <2>1. \A u \in Tasks \ {t} : Opening(u) => ChatOf[msg[u]] \in Chats
    BY BusyHasMessage DEF Opening
  <2>2. \A u \in Tasks \ {t} :
          pc[u] \in {"introduced", "recorded"} => ChatOf[msg[u]] \in Chats
    BY BusyHasMessage
  <2>3. \A u \in Tasks \ {t} :
          Opening(u) => owner[ChatOf[msg[u]]] = Nobody /\ (ChatOf[msg[u]] = ChatOf[msg[t]] => opened[t])
    BY <1>1 DEF OpeningIsNew, Opening
  <2>4. opened[t] => owner' = owner
    BY <1>1, <1>2 DEF TypeOK
  <2>5. QED
    BY <1>7, <1>10, <1>11, <2>1, <2>2, <2>3, <2>4 DEF OpeningIsNew, Opening
<1>13. RowsRefer'
  <2>1. \A m \in stored' : ChatOf[m] \in Chats /\ (m \in stored \/ m = msg[t])
    BY <1>1, <1>3, ConstantsAssumption DEF TypeOK
  <2>2. QED
    BY <1>2, <1>10, <1>11, <2>1 DEF RowsRefer
<1>14. QED
  BY <1>4, <1>5, <1>6, <1>8, <1>12, <1>13

\* The worker touches the jobs and the memory.
LEMMA ExtractStep ==
  ASSUME InboundInv, NEW c \in Chats, Extract(c)
  PROVE  InboundInv'
<1> USE DEF InboundInv
<1>1. TypeOK'
  BY DEF TypeOK, Extract, tasks, ghosts
<1>2. UNCHANGED <<identities, owner, stored, answerJobs, pc, msg, called, opened, duplicate>>
  BY DEF Extract, tasks
<1>3. BusyIsAbout' /\ JobsAreOfStored' /\ RowsRefer'
  BY <1>2 DEF BusyIsAbout, JobsAreOfStored, RowsRefer
<1>4. RecordingIsNew' /\ OpeningIsNew'
  BY <1>2 DEF RecordingIsNew, OpeningIsNew, Recording, Opening
<1>5. QED
  BY <1>1, <1>3, <1>4

LEMMA StutterStep == InboundInv /\ UNCHANGED vars => InboundInv'
BY DEF InboundInv, TypeOK, BusyIsAbout, JobsAreOfStored, RecordingIsNew, OpeningIsNew, RowsRefer,
   Recording, Opening, vars, tables, tasks, ghosts

LEMMA NextPreserves == InboundInv /\ [Next]_vars => InboundInv'
BY OutsideStep, IntroduceStep, RecordStep, CommitStep, ExtractStep, StutterStep
   DEF Next, Handle

\* Every reachable state satisfies the inductive invariant.
THEOREM InboundInvariance == Spec => []InboundInv
BY InboundStart, NextPreserves, PTL DEF Spec

-----------------------------------------------------------------------------
(* The properties.                                                         *)

\* Tables, tasks and counters keep their types (all of Inbound).
THEOREM InboundTypeCorrect == Spec => []TypeOK
<1>1. InboundInv => TypeOK
  BY DEF InboundInv
<1>2. QED
  BY <1>1, InboundInvariance, PTL

\* A message makes at most one job for an answer, however many tasks it is
\* delivered to at once (record_inbound's insert on conflict do nothing).
THEOREM AnsweredOnce == Spec => []OneAnswerJob
<1>1. InboundInv => OneAnswerJob
  BY DEF InboundInv, JobsAreOfStored, OneAnswerJob
<1>2. QED
  BY <1>1, InboundInvariance, PTL

\* A conversation is opened once and keeps its student, whoever writes first
\* and at the same time (_resolve_conversation, uq_conversation_account_chat).
THEOREM OpenedOnceOnly == Spec => OpenedOnce
<1> DEFINE Opened ==
      \A c \in Chats :
        /\ owner[c] # Nobody => owner'[c] = owner[c]
        /\ (\E m \in stored' : ChatOf[m] = c) => owner'[c] \in identities'
<1>1. InboundInv /\ InboundInv' /\ [Next]_vars => Opened
  <2> SUFFICES ASSUME InboundInv, InboundInv', [Next]_vars, NEW c \in Chats
               PROVE  /\ owner[c] # Nobody => owner'[c] = owner[c]
                      /\ (\E m \in stored' : ChatOf[m] = c) => owner'[c] \in identities'
    BY Zenon
  <2>1. owner[c] # Nobody => owner'[c] = owner[c]
    <3>1. CASE \E t \in Tasks : CommitDuplicate(t) \/ CommitMessage(t)
      <4>1. PICK t \in Tasks : CommitDuplicate(t) \/ CommitMessage(t)
        BY <3>1
      <4>2. pc[t] = "recorded" /\ Establish(t)
        BY <4>1 DEF CommitDuplicate, CommitMessage
      <4>3. ~ opened[t] => owner[ChatOf[msg[t]]] = Nobody
        BY <4>2 DEF InboundInv, OpeningIsNew, Opening
      <4>4. QED
        BY <4>2, <4>3 DEF InboundInv, TypeOK, Establish
    <3>2. CASE ~ \E t \in Tasks : CommitDuplicate(t) \/ CommitMessage(t)
      <4>1. owner' = owner
        BY <3>2 DEF Next, Handle, Deliver, Skip, ReadAttachment, Identify, Introduce, Record,
           Fail, Extract, vars, tables
      <4>2. QED
        BY <4>1
    <3>3. QED
      BY <3>1, <3>2
  <2>2. (\E m \in stored' : ChatOf[m] = c) => owner'[c] \in identities'
    BY DEF InboundInv, RowsRefer
  <2>3. QED
    BY <2>1, <2>2
<1>2. QED
  BY <1>1, InboundInvariance, PTL DEF Spec, OpenedOnce

-----------------------------------------------------------------------------
(* The accounts.                                                           *)

Accounts == DuplicatesAreCounted /\ SpendIsCounted

LEMMA AccountsInitially == Init => Accounts
<1> SUFFICES ASSUME Init PROVE Accounts
  OBVIOUS
<1>1. \A m \in Messages : About(m) = {} /\ {t \in About(m) : called[t]} = {}
  BY ConstantsAssumption DEF Init, About
<1>2. Cardinality({}) = 0
  BY FS_EmptySet
<1>3. DuplicatesAreCounted
  <2> SUFFICES ASSUME NEW m \in Messages
               PROVE  delivered[m] = Cardinality(About(m)) + dropped[m]
                                     + (IF m \in stored THEN 1 ELSE 0) + duplicates[m]
    BY DEF DuplicatesAreCounted
  <2>1. Cardinality(About(m)) = 0 /\ m \notin stored
    BY <1>1, <1>2 DEF Init
  <2>2. delivered[m] = 0 /\ dropped[m] = 0 /\ duplicates[m] = 0
    BY DEF Init
  <2>3. QED
    BY <2>1, <2>2
<1>4. SpendIsCounted
  <2> SUFFICES ASSUME NEW m \in Messages
               PROVE  calls[m] = charged[m] + wasted[m]
                                 + Cardinality({t \in About(m) : called[t]})
    BY DEF SpendIsCounted
  <2>1. Cardinality({t \in About(m) : called[t]}) = 0
    BY <1>1, <1>2
  <2>2. calls[m] = 0 /\ charged[m] = 0 /\ wasted[m] = 0
    BY DEF Init
  <2>3. QED
    BY <2>1, <2>2
<1>5. QED
  BY <1>3, <1>4 DEF Accounts

\* A task that takes a message up adds one delivery.
LEMMA DeliverCounts ==
  ASSUME InboundInv, Accounts, NEW t \in Tasks, NEW n \in Messages, Deliver(t, n),
         NEW m \in Messages
  PROVE  /\ Cardinality(About(m))' = Cardinality(About(m)) + (IF m = n THEN 1 ELSE 0)
         /\ Cardinality(Carrying(m))' = Cardinality(Carrying(m))
<1>1. /\ msg' = [msg EXCEPT ![t] = n] /\ called' = called
      /\ msg[t] = NoMessage /\ ~ called[t]
      /\ msg \in [Tasks -> Messages \union {NoMessage}] /\ NoMessage \notin Messages
  BY ConstantsAssumption DEF InboundInv, TypeOK, BusyIsAbout, Deliver
<1>2. /\ About(m)' = IF m = n THEN About(m) \union {t} ELSE About(m)
      /\ Carrying(m)' = Carrying(m)
      /\ t \notin About(m)
  BY <1>1 DEF About, Carrying
<1>3. Cardinality(About(m) \union {t}) = Cardinality(About(m)) + 1
  BY <1>2, CountsAreFinite, FS_AddElement
<1>4. QED
  BY <1>2, <1>3, CountsAreFinite

\* A description adds one call.
LEMMA DescriptionCounts ==
  ASSUME InboundInv, NEW t \in Tasks, ReadAttachment(t), NEW m \in Messages
  PROVE  /\ Cardinality(About(m))' = Cardinality(About(m))
         /\ calls'[m] - Cardinality(Carrying(m))' = calls[m] - Cardinality(Carrying(m))
<1>1. About(m)' = About(m)
  BY DEF ReadAttachment, About
<1>2. CASE UNCHANGED <<called, calls>>
  <2>1. UNCHANGED <<msg, called>>
    BY <1>2 DEF ReadAttachment
  <2>2. QED
    BY <1>2, <2>1, CountsAreKept
<1>3. CASE /\ called' = [called EXCEPT ![t] = TRUE]
           /\ calls' = [calls EXCEPT ![msg[t]] = @ + 1]
  <2>1. ~ called[t] /\ msg[t] \in Messages
    BY BusyHasMessage DEF ReadAttachment, InboundInv, BusyIsAbout
  <2>2. /\ Carrying(m)' = IF m = msg[t] THEN Carrying(m) \union {t} ELSE Carrying(m)
        /\ t \notin Carrying(m)
    BY <1>1, <1>3, <2>1 DEF Carrying, About, InboundInv, TypeOK
  <2>3. Cardinality(Carrying(m) \union {t}) = Cardinality(Carrying(m)) + 1
    BY <2>2, CountsAreFinite, FS_AddElement
  <2>4. calls'[m] = calls[m] + (IF m = msg[t] THEN 1 ELSE 0) /\ calls[m] \in Nat
    BY <1>3 DEF InboundInv, TypeOK
  <2>5. QED
    BY <1>1, <2>2, <2>3, <2>4, CountsAreFinite
<1>4. QED
  BY <1>1, <1>2, <1>3 DEF ReadAttachment

\* The end of a task moves its delivery, and its description, to one of the
\* other sides of the account.
LEMMA EndCounts ==
  ASSUME InboundInv, Accounts, NEW t \in Tasks,
         Skip(t) \/ Fail(t) \/ CommitDuplicate(t) \/ CommitMessage(t)
  PROVE  Accounts'
<1>1. pc[t] # "idle" /\ Release(t)
  BY DEF Skip, Fail, CommitDuplicate, CommitMessage
<1>2. msg[t] \in Messages
  BY <1>1, BusyHasMessage
<1>3. UNCHANGED <<delivered, calls>>
  BY DEF Skip, Fail, CommitDuplicate, CommitMessage, ghosts
<1>4. DuplicatesAreCounted'
  <2> SUFFICES ASSUME NEW m \in Messages
               PROVE  delivered'[m] = Cardinality(About(m))' + dropped'[m]
                        + (IF m \in stored' THEN 1 ELSE 0) + duplicates'[m]
    BY DEF DuplicatesAreCounted
  <2>1. Cardinality(About(m))' = Cardinality(About(m)) - (IF m = msg[t] THEN 1 ELSE 0)
    BY <1>1, ReleaseCounts
  <2>2. delivered[m] = Cardinality(About(m)) + dropped[m]
                       + (IF m \in stored THEN 1 ELSE 0) + duplicates[m]
    BY DEF Accounts, DuplicatesAreCounted
  <2>3. dropped[m] \in Nat /\ duplicates[m] \in Nat /\ Cardinality(About(m)) \in Nat
    BY CountsAreFinite DEF InboundInv, TypeOK
  <2>4. CASE Skip(t) \/ Fail(t)
    <3>1. dropped'[m] = dropped[m] + (IF m = msg[t] THEN 1 ELSE 0)
      BY <2>4 DEF Skip, Fail, InboundInv, TypeOK
    <3>2. stored' = stored /\ duplicates' = duplicates
      BY <2>4 DEF Skip, Fail, tables
    <3>3. QED
      BY <1>3, <2>1, <2>2, <2>3, <3>1, <3>2
  <2>5. CASE CommitDuplicate(t)
    <3>1. duplicates'[m] = duplicates[m] + (IF m = msg[t] THEN 1 ELSE 0)
      BY <2>5 DEF CommitDuplicate, InboundInv, TypeOK
    <3>2. stored' = stored /\ dropped' = dropped
      BY <2>5 DEF CommitDuplicate, ghosts
    <3>3. QED
      BY <1>3, <2>1, <2>2, <2>3, <3>1, <3>2
  <2>6. CASE CommitMessage(t)
    <3>1. msg[t] \notin stored /\ stored' = stored \union {msg[t]}
      BY <2>6 DEF CommitMessage, InboundInv, RecordingIsNew, Recording
    <3>2. duplicates' = duplicates /\ dropped' = dropped
      BY <2>6 DEF CommitMessage, ghosts
    <3>3. QED
      BY <1>3, <2>1, <2>2, <2>3, <3>1, <3>2
  <2>7. QED
    BY <2>4, <2>5, <2>6
<1>5. SpendIsCounted'
  <2> SUFFICES ASSUME NEW m \in Messages
               PROVE  calls'[m] = charged'[m] + wasted'[m] + Cardinality(Carrying(m))'
    BY DEF SpendIsCounted, Carrying
  <2>1. Cardinality(Carrying(m))' =
          Cardinality(Carrying(m)) - (IF m = msg[t] /\ called[t] THEN 1 ELSE 0)
    BY <1>1, ReleaseCounts
  <2>2. calls[m] = charged[m] + wasted[m] + Cardinality(Carrying(m))
    BY DEF Accounts, SpendIsCounted, Carrying
  <2>3. charged[m] \in Nat /\ wasted[m] \in Nat /\ Cardinality(Carrying(m)) \in Nat
    BY CountsAreFinite DEF InboundInv, TypeOK
  <2>4. \/ /\ charged'[m] = charged[m]
           /\ wasted'[m] = wasted[m] + (IF m = msg[t] /\ called[t] THEN 1 ELSE 0)
        \/ /\ charged'[m] = charged[m] + (IF m = msg[t] /\ called[t] THEN 1 ELSE 0)
           /\ wasted'[m] = wasted[m]
    <3>1. CASE Skip(t)
      <4>1. ~ called[t] /\ charged' = charged /\ wasted' = wasted
        BY <3>1 DEF Skip, tables, InboundInv, BusyIsAbout
      <4>2. QED
        BY <2>3, <4>1
    <3>2. CASE Fail(t)
      BY <3>2, <2>3 DEF Fail, tables, InboundInv, TypeOK
    <3>3. CASE CommitDuplicate(t) \/ CommitMessage(t)
      BY <3>3, <2>3 DEF CommitDuplicate, CommitMessage, Charge, ghosts, InboundInv, TypeOK
    <3>4. QED
      BY <3>1, <3>2, <3>3
  <2>5. QED
    BY <1>3, <2>1, <2>2, <2>3, <2>4
<1>6. QED
  BY <1>4, <1>5 DEF Accounts

\* Other steps.
LEMMA OtherCounts ==
  ASSUME InboundInv, Accounts,
         \/ \E t \in Tasks : Identify(t) \/ Introduce(t) \/ Record(t)
         \/ \E c \in Chats : Extract(c)
         \/ UNCHANGED vars
  PROVE  Accounts'
<1>1. UNCHANGED <<msg, called, stored, duplicates, charged, delivered, dropped, calls, wasted>>
  BY DEF Identify, Introduce, Record, Extract, vars, tables, tasks, ghosts
<1>2. \A m \in Messages : /\ Cardinality(About(m))' = Cardinality(About(m))
                          /\ Cardinality(Carrying(m))' = Cardinality(Carrying(m))
  BY <1>1, CountsAreKept
<1>3. QED
  BY <1>1, <1>2 DEF Accounts, DuplicatesAreCounted, SpendIsCounted, Carrying

LEMMA AccountsAreKept == InboundInv /\ Accounts /\ [Next]_vars => Accounts'
<1> SUFFICES ASSUME InboundInv, Accounts, [Next]_vars PROVE Accounts'
  OBVIOUS
<1>1. ASSUME NEW t \in Tasks, NEW n \in Messages, Deliver(t, n) PROVE Accounts'
  <2>1. UNCHANGED <<tables, dropped, calls, wasted>> /\ delivered' = [delivered EXCEPT ![n] = @ + 1]
    BY <1>1 DEF Deliver
  <2>2. \A m \in Messages :
          /\ delivered'[m] = delivered[m] + (IF m = n THEN 1 ELSE 0)
          /\ delivered[m] \in Nat /\ dropped[m] \in Nat /\ duplicates[m] \in Nat
    BY <2>1 DEF InboundInv, TypeOK
  <2>3. \A m \in Messages :
          /\ Cardinality(About(m))' = Cardinality(About(m)) + (IF m = n THEN 1 ELSE 0)
          /\ Cardinality(Carrying(m))' = Cardinality(Carrying(m))
          /\ Cardinality(About(m)) \in Nat
    BY <1>1, DeliverCounts, CountsAreFinite
  <2>4. DuplicatesAreCounted'
    BY <2>1, <2>2, <2>3 DEF tables, Accounts, DuplicatesAreCounted
  <2>5. SpendIsCounted'
    BY <2>1, <2>3 DEF tables, Accounts, SpendIsCounted, Carrying
  <2>6. QED
    BY <2>4, <2>5 DEF Accounts
<1>2. ASSUME NEW t \in Tasks, ReadAttachment(t) PROVE Accounts'
  <2>1. UNCHANGED <<tables, delivered, dropped, wasted>>
    BY <1>2 DEF ReadAttachment
  <2>2. /\ calls \in [Messages -> Nat] /\ calls' \in [Messages -> Nat]
        /\ charged \in [Messages -> Nat] /\ wasted \in [Messages -> Nat]
    <3>1. InboundInv'
      BY <1>2, OutsideStep
    <3>2. QED
      BY <3>1 DEF InboundInv, TypeOK
  <2>3. \A m \in Messages :
          /\ Cardinality(About(m))' = Cardinality(About(m))
          /\ calls'[m] - Cardinality(Carrying(m))' = calls[m] - Cardinality(Carrying(m))
    BY <1>2, DescriptionCounts
  <2>4. \A m \in Messages : Cardinality(Carrying(m))' \in Nat /\ Cardinality(Carrying(m)) \in Nat
    BY <1>2, CarryingNext, CountsAreFinite
  <2>5. DuplicatesAreCounted'
    BY <2>1, <2>3 DEF tables, Accounts, DuplicatesAreCounted
  <2>6. SpendIsCounted'
    <3> SUFFICES ASSUME NEW m \in Messages
                 PROVE  calls'[m] = charged'[m] + wasted'[m] + Cardinality(Carrying(m))'
      BY DEF SpendIsCounted, Carrying
    <3>1. calls[m] = charged[m] + wasted[m] + Cardinality(Carrying(m))
      BY DEF Accounts, SpendIsCounted, Carrying
    <3>2. charged' = charged /\ wasted' = wasted
      BY <2>1 DEF tables
    <3>3. QED
      BY <2>2, <2>3, <2>4, <3>1, <3>2
  <2>7. QED
    BY <2>5, <2>6 DEF Accounts
<1>3. QED
  BY <1>1, <1>2, EndCounts, OtherCounts DEF Next, Handle

\* Every delivery is accounted for, and with it the rate of duplicates
\* (record_inbound's row in duplicate_deliveries).
THEOREM NoDeliveryVanishes == Spec => []DuplicatesAreCounted
<1>1. InboundInv /\ Accounts /\ [Next]_vars => Accounts'
  BY AccountsAreKept
<1>2. Spec => []Accounts
  BY <1>1, AccountsInitially, InboundInvariance, PTL DEF Spec
<1>3. Accounts => DuplicatesAreCounted
  BY DEF Accounts
<1>4. QED
  BY <1>2, <1>3, PTL

\* A description is charged unless its transaction is lost (persist records it
\* before it looks whether the message is a duplicate).
THEOREM NoSpendIsHidden == Spec => []SpendIsCounted
<1>1. InboundInv /\ Accounts /\ [Next]_vars => Accounts'
  BY AccountsAreKept
<1>2. Spec => []Accounts
  BY <1>1, AccountsInitially, InboundInvariance, PTL DEF Spec
<1>3. Accounts => SpendIsCounted
  BY DEF Accounts
<1>4. QED
  BY <1>2, <1>3, PTL

-----------------------------------------------------------------------------
(* Who speaks.                                                             *)

\* The workers that found the conversation the assistant's, and may still answer.
Answering == {w \in Workers : stage[w] = "answering"}

\* Each late answer was made by one of the workers, and none of those that may
\* still answer has made one.
LateIsAccounted ==
  /\ status = "active" => late = 0
  /\ status = "awaiting_mentor" =>
       late + Cardinality(Answering) <= Cardinality(Workers)

\* A worker is about a question exactly when it is not idle.
WorkerIsAbout == \A w \in Workers : stage[w] # "idle" => about[w] \in Questions

\* Only the mentor's own words bring the assistant back by itself.
ReturnsAfterWord ==
  \A w \in Workers : stage[w] \in {"waiting", "returning"} => mentorWord # "never"

\* The inductive invariant.
ConversationInv ==
  /\ ConversationTypeOK
  /\ WorkerIsAbout
  /\ ReturnsAfterWord
  /\ ListedUntilSeen
  /\ LateIsAccounted

-----------------------------------------------------------------------------
(* How many may still answer.                                              *)

LEMMA AnsweringIsFinite ==
  /\ IsFiniteSet(Answering)
  /\ Cardinality(Answering) \in Nat
  /\ Cardinality(Workers) \in Nat
  /\ Cardinality(Answering) <= Cardinality(Workers)
<1>1. IsFiniteSet(Workers) /\ Answering \subseteq Workers
  BY ConversationAssumption DEF Answering
<1>2. QED
  BY <1>1, FS_Subset, FS_CardinalityType

LEMMA AnsweringIsFiniteNext ==
  /\ IsFiniteSet(Answering)'
  /\ Cardinality(Answering)' \in Nat
  /\ Cardinality(Answering)' <= Cardinality(Workers)
<1>1. IsFiniteSet(Workers) /\ Answering' \subseteq Workers
  BY ConversationAssumption DEF Answering
<1>2. QED
  BY <1>1, FS_Subset, FS_CardinalityType

LEMMA NoMoreAnswer ==
  ASSUME Answering' \subseteq Answering
  PROVE  Cardinality(Answering)' <= Cardinality(Answering)
BY AnsweringIsFinite, FS_Subset

LEMMA OneAnswersLess ==
  ASSUME NEW w \in Answering, Answering' \subseteq Answering \ {w}
  PROVE  Cardinality(Answering)' + 1 <= Cardinality(Answering)
<1>1. /\ IsFiniteSet(Answering)
      /\ Cardinality(Answering) \in Nat
      /\ Cardinality(Answering)' \in Nat
  BY AnsweringIsFinite, AnsweringIsFiniteNext
<1>2. /\ IsFiniteSet(Answering \ {w})
      /\ Cardinality(Answering \ {w}) = Cardinality(Answering) - 1
  BY <1>1, FS_RemoveElement
<1>3. Cardinality(Answering)' <= Cardinality(Answering \ {w})
  BY <1>2, FS_Subset
<1>4. QED
  BY <1>1, <1>2, <1>3

\* A step that begins no answer keeps the account, wherever the status goes.
LEMMA AccountIsKept ==
  ASSUME ConversationInv, ConversationTypeOK',
         Answering' \subseteq Answering,
         \/ UNCHANGED <<status, late>>
         \/ \E s \in Statuses : Become(s)
  PROVE  LateIsAccounted'
<1>1. /\ Cardinality(Answering)' <= Cardinality(Answering)
      /\ Cardinality(Answering)' <= Cardinality(Workers)
      /\ Cardinality(Answering) \in Nat
      /\ Cardinality(Answering)' \in Nat
      /\ Cardinality(Workers) \in Nat
  BY NoMoreAnswer, AnsweringIsFinite, AnsweringIsFiniteNext
<1>2. late \in Nat /\ status \in Statuses /\ LateIsAccounted
  BY DEF ConversationInv, ConversationTypeOK
<1>3. CASE UNCHANGED <<status, late>>
  BY <1>1, <1>2, <1>3 DEF LateIsAccounted
<1>4. CASE \E s \in Statuses : Become(s)
  BY <1>1, <1>2, <1>4 DEF LateIsAccounted, Become
<1>5. QED
  BY <1>3, <1>4

-----------------------------------------------------------------------------
(* One lemma per group of actions.                                         *)

LEMMA ConversationStart == ConversationInit => ConversationInv
<1> SUFFICES ASSUME ConversationInit PROVE ConversationInv
  OBVIOUS
<1>1. ConversationTypeOK
  BY DEF ConversationInit, ConversationTypeOK, Statuses
<1>2. WorkerIsAbout /\ ReturnsAfterWord /\ ListedUntilSeen /\ LateIsAccounted
  BY DEF ConversationInit, WorkerIsAbout, ReturnsAfterWord, ListedUntilSeen, LateIsAccounted
<1>3. QED
  BY <1>1, <1>2 DEF ConversationInv

\* Messages that come in, the mentor's included, and the clock.
LEMMA InboundPreserves ==
  ASSUME ConversationInv,
         \/ \E q \in Questions : Receive(q) \/ Persist(q)
         \/ MentorWrites \/ TakeOver \/ AcceptDraft \/ MentorWordAges
  PROVE  ConversationInv'
<1> USE DEF ConversationInv
<1>1. ConversationTypeOK'
  <2>1. CASE \E q \in Questions : Receive(q) \/ Persist(q)
    BY <2>1 DEF ConversationTypeOK, Receive, Persist, Statuses, conversation, worker, operator, conversationGhosts
  <2>2. CASE MentorWrites \/ AcceptDraft \/ MentorWordAges
    BY <2>2 DEF ConversationTypeOK, MentorWrites, AcceptDraft, MentorWordAges, Statuses,
       conversation, conversationTables, worker, operator, conversationGhosts
  <2>3. CASE TakeOver
    BY <2>3 DEF ConversationTypeOK, TakeOver, ResolveOpen, Become, Statuses, worker, operator
  <2>4. QED
    BY <2>1, <2>2, <2>3
<1>2. stage' = stage /\ about' = about
  BY DEF Receive, Persist, MentorWrites, TakeOver, AcceptDraft, MentorWordAges, worker
<1>3. WorkerIsAbout' /\ ReturnsAfterWord'
  <2>1. mentorWord' # "never" \/ mentorWord' = mentorWord
    BY DEF Receive, Persist, MentorWrites, TakeOver, AcceptDraft, MentorWordAges, conversationTables
  <2>2. QED
    BY <1>2, <2>1 DEF WorkerIsAbout, ReturnsAfterWord
<1>4. ListedUntilSeen'
  <2>1. \/ seen'
        \/ UNCHANGED <<status, seen, escalation>>
    BY DEF Receive, Persist, MentorWrites, TakeOver, AcceptDraft, MentorWordAges,
       conversation, conversationTables, conversationGhosts
  <2>2. QED
    BY <2>1 DEF ListedUntilSeen
<1>5. LateIsAccounted'
  <2>1. UNCHANGED <<status, late>> \/ \E s \in Statuses : Become(s)
    BY DEF Receive, Persist, MentorWrites, TakeOver, AcceptDraft, MentorWordAges,
       conversation, conversationGhosts, Statuses
  <2>2. Answering' \subseteq Answering
    BY <1>2 DEF Answering
  <2>3. QED
    BY <1>1, <2>1, <2>2, AccountIsKept
<1>6. QED
  BY <1>1, <1>3, <1>4, <1>5

\* The worker takes a question and finds out whose it is.
LEMMA ReadingPreserves ==
  ASSUME ConversationInv, NEW w \in Workers,
         \/ \E q \in Questions : Claim(w, q)
         \/ Begin(w) \/ Return(w) \/ Hold(w) \/ SkipJob(w)
  PROVE  ConversationInv'
<1> USE DEF ConversationInv
<1>1. ConversationTypeOK'
  <2>1. CASE \E q \in Questions : Claim(w, q)
    BY <2>1 DEF ConversationTypeOK, Claim, Statuses, conversation, operator, conversationGhosts
  <2>2. CASE Begin(w) \/ Return(w) \/ Hold(w)
    BY <2>2 DEF ConversationTypeOK, Begin, Return, Hold, Statuses, conversation, conversationTables, operator, conversationGhosts
  <2>3. CASE SkipJob(w)
    <3>1. about[w] \in Questions
      BY <2>3 DEF SkipJob, WorkerIsAbout
    <3>2. QED
      BY <2>3, <3>1 DEF ConversationTypeOK, SkipJob, Finish, Statuses, conversation, operator, conversationGhosts
  <2>4. QED
    BY <2>1, <2>2, <2>3
<1>2. UNCHANGED <<status, late, seen, escalation, mentorWord>>
  BY DEF Claim, Begin, Return, Hold, SkipJob, conversation, conversationTables, conversationGhosts
<1>3. WorkerIsAbout'
  <2>1. CASE \E q \in Questions : Claim(w, q)
    BY <2>1 DEF ConversationTypeOK, Claim, WorkerIsAbout
  <2>2. CASE Begin(w) \/ Return(w) \/ Hold(w)
    BY <2>2 DEF ConversationTypeOK, Begin, Return, Hold, WorkerIsAbout
  <2>3. CASE SkipJob(w)
    BY <2>3 DEF ConversationTypeOK, SkipJob, Finish, WorkerIsAbout
  <2>4. QED
    BY <2>1, <2>2, <2>3
<1>4. ReturnsAfterWord'
  <2>1. CASE \E q \in Questions : Claim(w, q)
    BY <1>2, <2>1 DEF ConversationTypeOK, Claim, ReturnsAfterWord
  <2>2. CASE Begin(w) \/ Return(w) \/ Hold(w)
    BY <1>2, <2>2 DEF ConversationTypeOK, Begin, Return, Hold, MayReturn, ReturnsAfterWord
  <2>3. CASE SkipJob(w)
    BY <1>2, <2>3 DEF ConversationTypeOK, SkipJob, Finish, ReturnsAfterWord
  <2>4. QED
    BY <2>1, <2>2, <2>3
<1>5. ListedUntilSeen'
  BY <1>2 DEF ListedUntilSeen
<1>6. LateIsAccounted'
  <2>1. CASE Begin(w)
    BY <1>2, <2>1 DEF Begin, AssistantMayAnswer, LateIsAccounted
  <2>2. CASE ~ Begin(w)
    <3>1. Answering' \subseteq Answering
      BY <2>2 DEF ConversationTypeOK, Claim, Return, Hold, SkipJob, Finish, Answering
    <3>2. QED
      BY <1>1, <1>2, <3>1, AccountIsKept
  <2>3. QED
    BY <2>1, <2>2
<1>7. QED
  BY <1>1, <1>3, <1>4, <1>5, <1>6

\* Every way a worker has of ending its transaction.
LEMMA EndingPreserves ==
  ASSUME ConversationInv, NEW w \in Workers,
         Answer(w) \/ StaySilent(w) \/ HandOff(w) \/ Rollback(w)
  PROVE  ConversationInv'
<1> USE DEF ConversationInv
<1>1. about[w] \in Questions
  BY DEF Answer, StaySilent, HandOff, Rollback, WorkerIsAbout
<1>2. \E end \in {"done", "queued"} : Finish(w, end)
  BY DEF Answer, StaySilent, HandOff, Rollback
<1>3. ConversationTypeOK'
  <2>1. CASE Answer(w)
    <3>1. status' \in Statuses /\ late' \in Nat
      BY <2>1 DEF ConversationTypeOK, Answer, Statuses
    <3>2. answered' \in [Questions -> BOOLEAN]
      BY <1>1, <2>1 DEF ConversationTypeOK, Answer
    <3>3. QED
      BY <1>1, <2>1, <3>1, <3>2 DEF ConversationTypeOK, Answer, Finish, operator
  <2>2. CASE StaySilent(w)
    BY <1>1, <2>2 DEF ConversationTypeOK, StaySilent, Commit, Become, Finish, Statuses, operator
  <2>3. CASE HandOff(w)
    BY <1>1, <2>3 DEF ConversationTypeOK, HandOff, Become, Finish, Statuses, operator
  <2>4. CASE Rollback(w)
    BY <1>1, <2>4 DEF ConversationTypeOK, Rollback, Finish, Statuses, conversation, operator, conversationGhosts
  <2>5. QED
    BY <2>1, <2>2, <2>3, <2>4
<1>4. WorkerIsAbout'
  BY <1>2 DEF ConversationTypeOK, Finish, WorkerIsAbout
<1>5. ReturnsAfterWord'
  <2>1. mentorWord' = mentorWord
    BY DEF Answer, StaySilent, HandOff, Rollback
  <2>2. QED
    BY <1>2, <2>1 DEF ConversationTypeOK, Finish, ReturnsAfterWord
<1>6. ListedUntilSeen'
  <2>1. CASE Answer(w)
    BY <2>1 DEF Answer, ListedUntilSeen
  <2>2. CASE StaySilent(w) \/ HandOff(w)
    <3>1. escalation' = [escalation EXCEPT ![about[w]] = "open"]
      BY <2>2 DEF StaySilent, HandOff
    <3>2. escalation'[about[w]] = "open"
      BY <1>1, <3>1 DEF ConversationTypeOK
    <3>3. QED
      BY <1>1, <3>2 DEF ListedUntilSeen
  <2>3. CASE Rollback(w)
    BY <2>3 DEF Rollback, conversation, conversationGhosts, ListedUntilSeen
  <2>4. QED
    BY <2>1, <2>2, <2>3
<1>7. LateIsAccounted'
  <2>1. Answering' \subseteq Answering \ {w}
    BY <1>2 DEF ConversationTypeOK, Finish, Answering
  <2>2. CASE Answer(w) /\ stage[w] = "answering"
    <3>1. Cardinality(Answering)' + 1 <= Cardinality(Answering)
      BY <2>1, <2>2, OneAnswersLess DEF Answering
    <3>2. /\ Cardinality(Answering) \in Nat
          /\ Cardinality(Answering)' \in Nat
          /\ Cardinality(Workers) \in Nat
      BY AnsweringIsFinite, AnsweringIsFiniteNext
    <3>3. status' = status /\ late' = IF status = "awaiting_mentor" THEN late + 1 ELSE 0
      BY <2>2 DEF Answer
    <3>4. late \in Nat
      BY DEF ConversationTypeOK
    <3>5. QED
      BY <3>1, <3>2, <3>3, <3>4 DEF LateIsAccounted
  <2>3. CASE Answer(w) /\ stage[w] = "returning"
    BY <2>3 DEF Answer, LateIsAccounted
  <2>4. CASE StaySilent(w) \/ HandOff(w) \/ Rollback(w)
    <3>1. UNCHANGED <<status, late>> \/ \E s \in Statuses : Become(s)
      BY <2>4 DEF StaySilent, Commit, HandOff, Rollback, conversation, conversationGhosts, Statuses
    <3>2. QED
      BY <1>3, <2>1, <3>1, AccountIsKept
  <2>5. QED
    BY <2>2, <2>3, <2>4 DEF Answer
<1>8. QED
  BY <1>3, <1>4, <1>5, <1>6, <1>7

\* The operators.
LEMMA OperatorPreserves ==
  ASSUME ConversationInv,
         \/ Toggle
         \/ \E o \in Operators : Resume(o) \/ \E what \in {"resume", "resolve"} : Order(o, what)
  PROVE  ConversationInv'
<1> USE DEF ConversationInv
<1>1. ConversationTypeOK'
  <2>1. CASE Toggle
    BY <2>1 DEF ConversationTypeOK, Toggle, Statuses, conversationTables, worker, operator, conversationGhosts
  <2>2. CASE \E o \in Operators : Resume(o)
    <3> PICK o \in Operators : Resume(o)
      BY <2>2
    <3>1. status' \in Statuses /\ late' \in Nat
      BY DEF ConversationTypeOK, Resume, Become, Statuses
    <3>2. escalation' \in [Questions -> {"none", "open", "resolved"}] /\ seen' \in BOOLEAN
      <4>1. CASE command[o] = "resolve"
        BY <4>1 DEF ConversationTypeOK, Resume, ResolveOpen
      <4>2. CASE command[o] # "resolve"
        BY <4>2 DEF ConversationTypeOK, Resume
      <4>3. QED
        BY <4>1, <4>2
    <3>3. /\ command' \in [Operators -> {"none", "resume", "resolve"}]
          /\ operatorSaw' \in [Operators -> Statuses]
      BY DEF ConversationTypeOK, Resume, Statuses
    <3>4. QED
      BY <3>1, <3>2, <3>3 DEF ConversationTypeOK, Resume, worker
  <2>3. CASE \E o \in Operators, what \in {"resume", "resolve"} : Order(o, what)
    BY <2>3 DEF ConversationTypeOK, Order, Statuses, conversation, conversationTables, worker, conversationGhosts
  <2>4. QED
    BY <2>1, <2>2, <2>3
<1>2. UNCHANGED <<stage, about, mentorWord>>
  BY DEF Toggle, Resume, Order, conversationTables, worker
<1>3. WorkerIsAbout' /\ ReturnsAfterWord'
  BY <1>2 DEF WorkerIsAbout, ReturnsAfterWord
<1>4. ListedUntilSeen'
  <2>1. \/ seen'
        \/ status' = "active"
        \/ UNCHANGED <<status, seen, escalation>>
    BY DEF Toggle, Resume, Become, Order, conversation, conversationTables, conversationGhosts
  <2>2. QED
    BY <2>1 DEF ListedUntilSeen
<1>5. LateIsAccounted'
  <2>1. UNCHANGED <<status, late>> \/ \E s \in Statuses : Become(s)
    BY DEF Toggle, Resume, Order, conversation, conversationGhosts, Statuses
  <2>2. Answering' \subseteq Answering
    BY <1>2 DEF Answering
  <2>3. QED
    BY <1>1, <2>1, <2>2, AccountIsKept
<1>6. QED
  BY <1>1, <1>3, <1>4, <1>5

LEMMA StutterPreserves ==
  ASSUME ConversationInv, UNCHANGED conversationVars
  PROVE  ConversationInv'
BY DEF ConversationInv, ConversationTypeOK, WorkerIsAbout, ReturnsAfterWord, ListedUntilSeen, LateIsAccounted, Answering,
   conversationVars, conversation, conversationTables, worker, operator, conversationGhosts

-----------------------------------------------------------------------------
(* Theorems.                                                               *)

\* The inductive invariant holds in every behaviour.
THEOREM ConversationInvariance == ConversationSpec => []ConversationInv
<1>1. ConversationInv /\ [ConversationNext]_conversationVars => ConversationInv'
  <2> SUFFICES ASSUME ConversationInv, [ConversationNext]_conversationVars PROVE ConversationInv'
    OBVIOUS
  <2>1. CASE \/ \E q \in Questions : Receive(q) \/ Persist(q)
             \/ MentorWrites \/ TakeOver \/ AcceptDraft \/ MentorWordAges
    BY <2>1, InboundPreserves
  <2>2. CASE \E w \in Workers : Work(w)
    BY <2>2, ReadingPreserves, EndingPreserves DEF Work
  <2>3. CASE \/ Toggle
             \/ \E o \in Operators :
                  Resume(o) \/ \E what \in {"resume", "resolve"} : Order(o, what)
    BY <2>3, OperatorPreserves
  <2>4. CASE UNCHANGED conversationVars
    BY <2>4, StutterPreserves
  <2>5. QED
    BY <2>1, <2>2, <2>3, <2>4 DEF ConversationNext
<1>2. QED
  BY <1>1, ConversationStart, PTL DEF ConversationSpec

\* The conversation, its tables and the open transactions keep their types.
THEOREM ConversationTypeCorrect == ConversationSpec => []ConversationTypeOK
<1>1. ConversationInv => ConversationTypeOK
  BY DEF ConversationInv
<1>2. QED
  BY <1>1, ConversationInvariance, PTL

\* No conversation that was handed over leaves the list of open escalations
\* before a person has looked (escalation.resolve_open and its callers).
THEOREM StaysListed == ConversationSpec => []ListedUntilSeen
<1>1. ConversationInv => ListedUntilSeen
  BY DEF ConversationInv
<1>2. QED
  BY <1>1, ConversationInvariance, PTL

\* After a hand-over at most one answer per worker is still made, for any number
\* of workers and questions (worker.process_message).
THEOREM AnswersEnd == ConversationSpec => []LastWords
<1>1. ConversationInv => LastWords
  BY AnsweringIsFinite DEF ConversationInv, ConversationTypeOK, LateIsAccounted, LastWords
<1>2. QED
  BY <1>1, ConversationInvariance, PTL

\* Without a word of the mentor only an operator gives the conversation back
\* (escalation.maybe_resume).
THEOREM StaysFrozen == ConversationSpec => FrozenUntilMentorReplies
<1> DEFINE Frozen == status = "awaiting_mentor" /\ mentorWord = "never" /\ status' = "active"
                       => \E o \in Operators : Resume(o)
<1>1. ConversationInv /\ [ConversationNext]_conversationVars => [Frozen]_conversationVars
  <2> SUFFICES ASSUME ConversationInv, ConversationNext, status = "awaiting_mentor", mentorWord = "never",
                      status' = "active"
               PROVE  \E o \in Operators : Resume(o)
    OBVIOUS
  <2>1. CASE \/ \E q \in Questions : Receive(q) \/ Persist(q)
             \/ MentorWrites \/ TakeOver \/ AcceptDraft \/ MentorWordAges
    BY <2>1 DEF Receive, Persist, MentorWrites, TakeOver, Become, AcceptDraft, MentorWordAges,
       conversation
  <2>2. CASE \E w \in Workers : Work(w)
    <3> PICK w \in Workers : Work(w)
      BY <2>2
    <3>1. stage[w] # "returning"
      BY DEF ConversationInv, ReturnsAfterWord
    <3>2. QED
      BY <3>1 DEF Work, Claim, Begin, Return, Hold, SkipJob, Answer, StaySilent, Commit, HandOff,
         Become, Rollback, conversation
  <2>3. CASE \/ Toggle
             \/ \E o \in Operators :
                  Resume(o) \/ \E what \in {"resume", "resolve"} : Order(o, what)
    BY <2>3 DEF Toggle, Order, conversation
  <2>4. QED
    BY <2>1, <2>2, <2>3 DEF ConversationNext
<1>2. QED
  BY <1>1, ConversationInvariance, PTL DEF ConversationSpec, FrozenUntilMentorReplies

-----------------------------------------------------------------------------
(* What becomes of a question.                                             *)

\* A question ends once, and in one way: until its job is done it is neither
\* answered nor listed, then it is not both; one that has no job was stored
\* without, or is not stored yet.
OneFate ==
  \A q \in Questions :
    /\ job[q] # "done" => ~ answered[q] /\ escalation[q] = "none"
    /\ answered[q] => escalation[q] = "none"
    /\ job[q] # "none" => arrival[q] = "stored"

\* A question that a worker is about is claimed, and by no other worker.
ClaimedOnce ==
  \A w \in Workers : stage[w] # "idle" =>
    /\ job[about[w]] = "claimed"
    /\ \A v \in Workers : stage[v] # "idle" /\ about[v] = about[w] => v = w

FatesInv == ConversationInv /\ OneFate /\ ClaimedOnce

\* A worker that is not idle is about one question, which is open.
LEMMA BusyIsOpen ==
  ASSUME FatesInv, NEW w \in Workers, stage[w] # "idle"
  PROVE  about[w] \in Questions /\ job[about[w]] = "claimed"
BY DEF FatesInv, ClaimedOnce, ConversationInv, WorkerIsAbout

\* Its end concerns its own question only.
LEMMA FinishIsOwn ==
  ASSUME FatesInv, NEW w \in Workers, stage[w] # "idle", NEW end, Finish(w, end)
  PROVE  /\ job'[about[w]] = end
         /\ \A q \in Questions : q # about[w] => job'[q] = job[q]
         /\ \A v \in Workers : stage'[v] # "idle" <=> stage[v] # "idle" /\ v # w
         /\ \A v \in Workers : v # w => about'[v] = about[v]
BY BusyIsOpen DEF FatesInv, ConversationInv, ConversationTypeOK, Finish

LEMMA ClaimsAreKept ==
  ASSUME FatesInv, NEW w \in Workers, stage[w] # "idle", NEW end, Finish(w, end)
  PROVE  ClaimedOnce'
<1> SUFFICES ASSUME NEW v \in Workers, stage'[v] # "idle"
             PROVE  /\ job'[about'[v]] = "claimed"
                    /\ \A u \in Workers : stage'[u] # "idle" /\ about'[u] = about'[v] => u = v
  BY DEF ClaimedOnce
<1>1. stage[v] # "idle" /\ v # w /\ about'[v] = about[v]
  BY FinishIsOwn
<1>2. about[v] # about[w] /\ job[about[v]] = "claimed" /\ about[v] \in Questions
  BY <1>1, BusyIsOpen DEF FatesInv, ClaimedOnce
<1>3. job'[about'[v]] = "claimed"
  BY <1>1, <1>2, FinishIsOwn
<1>4. ASSUME NEW u \in Workers, stage'[u] # "idle", about'[u] = about'[v]
      PROVE  u = v
  <2>1. stage[u] # "idle" /\ u # w /\ about'[u] = about[u]
    BY <1>4, FinishIsOwn
  <2>2. QED
    BY <1>1, <1>4, <2>1 DEF FatesInv, ClaimedOnce
<1>5. QED
  BY <1>3, <1>4

LEMMA FatesStart == ConversationInit => OneFate /\ ClaimedOnce
BY DEF ConversationInit, OneFate, ClaimedOnce

\* Those who finish nothing.
LEMMA OthersKeepFates ==
  ASSUME FatesInv,
         \/ \E q \in Questions : Receive(q) \/ Persist(q)
         \/ MentorWrites \/ TakeOver \/ AcceptDraft \/ MentorWordAges
         \/ \E o \in Operators : Resume(o) \/ \E what \in {"resume", "resolve"} : Order(o, what)
         \/ Toggle
         \/ UNCHANGED conversationVars
  PROVE  OneFate' /\ ClaimedOnce'
<1> USE DEF FatesInv, ConversationInv, ConversationTypeOK
<1>1. UNCHANGED <<stage, about, answered>>
  BY DEF Receive, Persist, MentorWrites, TakeOver, AcceptDraft, MentorWordAges, Resume, Order, Toggle,
     conversationVars, conversationTables, worker
<1>2. CASE \E q \in Questions : Persist(q)
  <2> PICK q \in Questions : Persist(q)
    BY <1>2
  <2>1. job[q] = "none" /\ job'[q] \in {"none", "queued"} /\ arrival'[q] = "stored" /\ escalation' = escalation
    BY DEF Persist, OneFate
  <2>2. \A c \in Questions : c # q => job'[c] = job[c] /\ arrival'[c] = arrival[c]
    BY DEF Persist
  <2>3. OneFate'
    BY <1>1, <2>1, <2>2 DEF OneFate
  <2>4. ClaimedOnce'
    BY <1>1, <2>1, <2>2, BusyIsOpen DEF ClaimedOnce
  <2>5. QED
    BY <2>3, <2>4
<1>3. CASE ~ \E q \in Questions : Persist(q)
  <2>1. job' = job
    BY <1>3 DEF Receive, MentorWrites, TakeOver, AcceptDraft, MentorWordAges, Resume, Order, Toggle,
       conversationVars, conversationTables
  <2>2. \A q \in Questions : arrival[q] = "stored" => arrival'[q] = "stored"
    BY <1>3 DEF Receive, MentorWrites, TakeOver, AcceptDraft, MentorWordAges, Resume, Order, Toggle,
       conversationVars, conversationTables
  <2>3. \A q \in Questions : escalation[q] = "none" => escalation'[q] = "none"
    BY <1>3 DEF Receive, MentorWrites, TakeOver, AcceptDraft, MentorWordAges, Resume, ResolveOpen, Order, Toggle,
       conversationVars, conversationTables
  <2>4. OneFate'
    BY <1>1, <2>1, <2>2, <2>3 DEF OneFate
  <2>5. ClaimedOnce'
    BY <1>1, <2>1 DEF ClaimedOnce
  <2>6. QED
    BY <2>4, <2>5
<1>4. QED
  BY <1>2, <1>3

\* The workers.
LEMMA WorkersKeepFates ==
  ASSUME FatesInv, NEW w \in Workers, Work(w)
  PROVE  OneFate' /\ ClaimedOnce'
<1> USE DEF FatesInv, ConversationInv, ConversationTypeOK
<1>1. CASE \E q \in Questions : Claim(w, q)
  <2> PICK q \in Questions : Claim(w, q)
    BY <1>1
  <2>1. OneFate'
    BY DEF Claim, OneFate
  <2>2. \A v \in Workers : stage[v] # "idle" => about[v] # q /\ v # w
    BY DEF Claim, ClaimedOnce
  <2>3. /\ job'[q] = "claimed" /\ about'[w] = q /\ stage'[w] = "claimed"
        /\ \A c \in Questions : c # q => job'[c] = job[c]
        /\ \A v \in Workers : v # w => stage'[v] = stage[v] /\ about'[v] = about[v]
    BY DEF Claim
  <2>4. ClaimedOnce'
    BY <2>2, <2>3, BusyIsOpen DEF ClaimedOnce
  <2>5. QED
    BY <2>1, <2>4
<1>2. CASE Begin(w) \/ Return(w) \/ Hold(w)
  <2>1. UNCHANGED <<job, answered, escalation, arrival, about>>
    BY <1>2 DEF Begin, Return, Hold, conversationTables
  <2>2. \A v \in Workers : stage'[v] # "idle" <=> stage[v] # "idle"
    BY <1>2 DEF Begin, Return, Hold
  <2>3. QED
    BY <2>1, <2>2 DEF OneFate, ClaimedOnce
<1>3. CASE SkipJob(w) \/ Answer(w) \/ StaySilent(w) \/ HandOff(w) \/ Rollback(w)
  <2>1. stage[w] # "idle" /\ \E end \in {"done", "queued"} : Finish(w, end)
    BY <1>3 DEF SkipJob, Answer, StaySilent, HandOff, Rollback
  <2>2. ClaimedOnce'
    BY <2>1, ClaimsAreKept
  <2>3. about[w] \in Questions /\ job[about[w]] = "claimed" /\ arrival' = arrival
    BY <1>3, <2>1, BusyIsOpen DEF SkipJob, Answer, StaySilent, HandOff, Rollback
  <2>4. \/ Finish(w, "done") /\ (UNCHANGED answered \/ UNCHANGED escalation)
        \/ Finish(w, "queued") /\ UNCHANGED <<answered, escalation>>
    BY <1>3 DEF SkipJob, Answer, StaySilent, HandOff, Rollback
  <2>5. \A q \in Questions : q # about[w] => answered'[q] = answered[q] /\ escalation'[q] = escalation[q]
    BY <1>3 DEF SkipJob, Answer, StaySilent, HandOff, Rollback
  <2>6. ASSUME NEW q \in Questions
        PROVE  /\ job'[q] # "done" => ~ answered'[q] /\ escalation'[q] = "none"
               /\ answered'[q] => escalation'[q] = "none"
               /\ job'[q] # "none" => arrival'[q] = "stored"
    <3>1. CASE q = about[w]
      BY <2>1, <2>3, <2>4, <3>1, FinishIsOwn DEF OneFate
    <3>2. CASE q # about[w]
      BY <2>1, <2>3, <2>5, <3>2, FinishIsOwn DEF OneFate
    <3>3. QED
      BY <3>1, <3>2
  <2>7. QED
    BY <2>2, <2>6 DEF OneFate
<1>4. QED
  BY <1>1, <1>2, <1>3 DEF Work

LEMMA FatesInvariance == ConversationSpec => []FatesInv
<1>1. FatesInv /\ [ConversationNext]_conversationVars => OneFate' /\ ClaimedOnce'
  BY OthersKeepFates, WorkersKeepFates DEF ConversationNext
<1>2. ConversationInv /\ ConversationInv' /\ OneFate /\ ClaimedOnce /\ [ConversationNext]_conversationVars
        => OneFate' /\ ClaimedOnce'
  BY <1>1 DEF FatesInv
<1>3. ConversationInv /\ OneFate /\ ClaimedOnce => FatesInv
  BY DEF FatesInv
<1>4. QED
  BY <1>2, <1>3, FatesStart, ConversationInvariance, PTL DEF ConversationSpec

-----------------------------------------------------------------------------
(* The promise, step by step.                                              *)

Fates == [q \in Questions |-> Fate(q)]

\* What does not touch a question's rows leaves its fate.
LEMMA FateStays ==
  ASSUME NEW q \in Questions, job'[q] = job[q], answered'[q] = answered[q],
         escalation'[q] = escalation[q], arrival'[q] = arrival[q]
  PROVE  Fate(q)' = Fate(q)
BY DEF Fate

LEMMA FatesStay ==
  ASSUME UNCHANGED <<job, answered, escalation, arrival>>
  PROVE  Fates' = Fates
BY FateStays DEF Fates

\* A worker that ends its question gives it a fate, and no other.
LEMMA EndIsMet ==
  ASSUME FatesInv, FatesInv', NEW w \in Workers, stage[w] # "idle", Finish(w, "done"), arrival' = arrival,
         NEW q, q = about[w],
         \A c \in Questions : c # q => answered'[c] = answered[c] /\ escalation'[c] = escalation[c]
  PROVE  /\ q \in Questions
         /\ Promise!Meets(q, Fate(q)')
         /\ answered'[q] => Fate(q)' = "answered"
         /\ escalation'[q] = "open" => Fate(q)' = "listed"
         /\ ~ answered'[q] /\ escalation'[q] = "none" => Fate(q)' = "left"
<1>1. q \in Questions /\ job[q] = "claimed" /\ Fate(q) = "open"
  BY BusyIsOpen DEF Fate
<1>2. job'[q] = "done" /\ \A c \in Questions : c # q => job'[c] = job[c]
  BY FinishIsOwn
<1>3. \A c \in Questions : c # q => Fate(c)' = Fate(c)
  BY <1>2, FateStays
<1>4. Fates' = [Fates EXCEPT ![q] = Fate(q)']
  BY <1>1, <1>3 DEF Fates
<1>5. Promise!Meets(q, Fate(q)')
  BY <1>1, <1>4 DEF Promise!Meets, Fates
<1>6. answered'[q] => escalation'[q] = "none"
  BY <1>1 DEF FatesInv, OneFate
<1>7. QED
  BY <1>1, <1>2, <1>5, <1>6 DEF Fate, Listing

\* Who ends a question, and how, in terms of the promise.
LEMMA EndsPromise ==
  ASSUME FatesInv, FatesInv', NEW w \in Workers, Answer(w) \/ StaySilent(w) \/ HandOff(w) \/ SkipJob(w)
  PROVE  Promise!Next
<1> USE DEF FatesInv, ConversationInv, ConversationTypeOK
<1>1. stage[w] # "idle" /\ Finish(w, "done") /\ arrival' = arrival /\ mentorWord' = mentorWord
  BY DEF Answer, StaySilent, HandOff, SkipJob
<1>2. PICK q : q = about[w]
  OBVIOUS
<1>3. \A c \in Questions : c # q => answered'[c] = answered[c] /\ escalation'[c] = escalation[c]
  BY <1>2 DEF Answer, StaySilent, HandOff, SkipJob
<1>4. /\ q \in Questions
      /\ Promise!Meets(q, Fate(q)')
      /\ answered'[q] => Fate(q)' = "answered"
      /\ escalation'[q] = "open" => Fate(q)' = "listed"
      /\ ~ answered'[q] /\ escalation'[q] = "none" => Fate(q)' = "left"
  BY <1>1, <1>2, <1>3, EndIsMet
<1>5. escalation[q] = "none" /\ ~ answered[q]
  BY <1>1, <1>2, BusyIsOpen DEF OneFate
<1>6. (mentorWord # "never")' = (mentorWord # "never")
  BY <1>1
<1>7. CASE Answer(w) /\ stage[w] = "answering"
  <2>1. Fate(q)' \in {"answered", "left"}
    BY <1>4, <1>5, <1>7 DEF Answer
  <2>2. UNCHANGED <<status, seen>> /\ late' = IF status = "awaiting_mentor" THEN late + 1 ELSE 0
    BY <1>7 DEF Answer
  <2>3. status = "active" => late' = late
    BY <2>2 DEF LateIsAccounted
  <2>4. status = "awaiting_mentor" => late < Cardinality(Workers)
    <3>1. Cardinality(Answering) # 0
      <4>1. w \in Answering
        BY <1>7 DEF Answering
      <4>2. QED
        BY <4>1, AnsweringIsFinite, FS_EmptySet
    <3>2. QED
      BY <3>1, AnsweringIsFinite DEF LateIsAccounted
  <2>5. Promise!Answer(q)
    BY <1>4, <1>6, <2>1, <2>2, <2>3, <2>4 DEF Promise!Answer, Statuses
  <2>6. QED
    BY <1>4, <2>5 DEF Promise!Next
<1>8. CASE Answer(w) /\ stage[w] = "returning"
  <2>1. Fate(q)' \in {"answered", "left"}
    BY <1>4, <1>5, <1>8 DEF Answer
  <2>2. status' = "active" /\ late' = 0 /\ seen' = seen
    BY <1>8 DEF Answer
  <2>3. status = "active" => late = 0
    BY DEF LateIsAccounted
  <2>4. mentorWord # "never"
    BY <1>8 DEF ReturnsAfterWord
  <2>5. Promise!TakeBack(q)
    BY <1>4, <1>6, <2>1, <2>2, <2>3, <2>4 DEF Promise!TakeBack, Promise!Pass
  <2>6. QED
    BY <1>4, <2>5 DEF Promise!Next
<1>9. CASE StaySilent(w)
  <2>1. Fate(q)' = "listed" /\ seen' = seen
    BY <1>4, <1>9, <1>2 DEF StaySilent
  <2>2. CASE stage[w] = "returning"
    <3>1. Promise!Pass("active")
      BY <1>9, <2>2 DEF StaySilent, Commit, Become, Promise!Pass
    <3>2. mentorWord # "never"
      BY <2>2 DEF ReturnsAfterWord
    <3>3. Promise!TakeBack(q)
      BY <1>4, <1>6, <2>1, <3>1, <3>2 DEF Promise!TakeBack
    <3>4. QED
      BY <1>4, <3>3 DEF Promise!Next
  <2>3. CASE stage[w] # "returning"
    <3>1. UNCHANGED <<status, late>>
      BY <1>9, <2>3 DEF StaySilent, Commit
    <3>2. Promise!KeepSilent(q)
      BY <1>4, <1>6, <2>1, <3>1 DEF Promise!KeepSilent
    <3>3. QED
      BY <1>4, <3>2 DEF Promise!Next
  <2>4. QED
    BY <2>2, <2>3
<1>10. CASE HandOff(w)
  <2>1. Fate(q)' = "listed" /\ seen' = FALSE
    BY <1>4, <1>10, <1>2 DEF HandOff
  <2>2. Promise!Pass("awaiting_mentor")
    BY <1>10 DEF HandOff, Become, Promise!Pass
  <2>3. Promise!HandOver(q)
    BY <1>4, <1>6, <2>1, <2>2 DEF Promise!HandOver
  <2>4. QED
    BY <1>4, <2>3 DEF Promise!Next
<1>11. CASE SkipJob(w)
  <2>1. UNCHANGED <<status, late, seen, answered, escalation>>
    BY <1>11 DEF SkipJob, conversation, conversationGhosts
  <2>2. Fate(q)' = "left"
    BY <1>4, <1>5, <2>1
  <2>3. Promise!KeepSilent(q)
    BY <1>4, <1>6, <2>1, <2>2 DEF Promise!KeepSilent
  <2>4. QED
    BY <1>4, <2>3 DEF Promise!Next
<1>12. QED
  BY <1>7, <1>8, <1>9, <1>10, <1>11 DEF Answer

\* Steps of a worker that end nothing do not show: an open question is as open
\* when it is claimed or queued again.
LEMMA WorkIsHidden ==
  ASSUME FatesInv, NEW w \in Workers,
         (\E q \in Questions : Claim(w, q)) \/ Begin(w) \/ Return(w) \/ Hold(w) \/ Rollback(w)
  PROVE  UNCHANGED Promise!vars
<1> USE DEF FatesInv, ConversationInv, ConversationTypeOK
<1>1. UNCHANGED <<status, late, seen, answered, escalation, arrival, mentorWord>>
  BY DEF Claim, Begin, Return, Hold, Rollback, conversation, conversationTables, conversationGhosts
<1>2. ASSUME NEW q \in Questions PROVE Fate(q)' = Fate(q)
  <2>1. \/ job'[q] = job[q]
        \/ job[q] \in {"queued", "claimed"} /\ job'[q] \in {"queued", "claimed"}
    <3>1. CASE \E c \in Questions : Claim(w, c)
      BY <3>1 DEF Claim
    <3>2. CASE Begin(w) \/ Return(w) \/ Hold(w)
      BY <3>2 DEF Begin, Return, Hold, conversationTables
    <3>3. CASE Rollback(w)
      BY <3>3, BusyIsOpen, FinishIsOwn DEF Rollback
    <3>4. QED
      BY <3>1, <3>2, <3>3
  <2>2. CASE job'[q] = job[q]
    BY <1>1, <2>2, FateStays
  <2>3. CASE job[q] \in {"queued", "claimed"} /\ job'[q] \in {"queued", "claimed"}
    BY <2>3 DEF Fate
  <2>4. QED
    BY <2>1, <2>2, <2>3
<1>3. Fates' = Fates
  BY <1>2 DEF Fates
<1>4. QED
  BY <1>1, <1>3 DEF Promise!vars, Fates

\* An operator or the mentor clears the list as a whole.
LEMMA ResolvedIsLook ==
  ASSUME FatesInv, ResolveOpen, UNCHANGED <<job, answered, arrival>>
  PROVE  Fates' = [q \in Questions |-> IF Fates[q] = "listed" THEN "seen" ELSE Fates[q]]
<1> SUFFICES ASSUME NEW q \in Questions
             PROVE  Fate(q)' = IF Fate(q) = "listed" THEN "seen" ELSE Fate(q)
  BY DEF Fates
<1>1. escalation'[q] = IF escalation[q] = "open" THEN "resolved" ELSE escalation[q]
  BY DEF ResolveOpen
<1>2. escalation[q] \in {"none", "open", "resolved"} /\ job[q] \in {"none", "queued", "claimed", "done"}
  BY DEF FatesInv, ConversationInv, ConversationTypeOK
<1>3. CASE job[q] = "done" /\ ~ answered[q]
  <2>1. Fate(q) = Listing[escalation[q]] /\ Fate(q)' = Listing[escalation'[q]]
    BY <1>3 DEF Fate
  <2>2. QED
    BY <1>1, <1>2, <2>1 DEF Listing
<1>4. CASE ~ (job[q] = "done" /\ ~ answered[q])
  <2>1. Fate(q) # "listed"
    BY <1>2, <1>4 DEF Fate
  <2>2. Fate(q)' = Fate(q)
    BY <1>2, <1>4 DEF Fate
  <2>3. QED
    BY <2>1, <2>2
<1>5. QED
  BY <1>3, <1>4

\* Messages that come in, and the clock.
LEMMA InboundPromise ==
  ASSUME FatesInv, FatesInv',
         \/ \E q \in Questions : Receive(q) \/ Persist(q)
         \/ MentorWrites \/ TakeOver \/ AcceptDraft \/ MentorWordAges
  PROVE  [Promise!Next]_(Promise!vars)
<1> USE DEF FatesInv, ConversationInv, ConversationTypeOK
<1>1. CASE \E q \in Questions : Receive(q)
  <2> PICK q \in Questions : Receive(q)
    BY <1>1
  <2>1. UNCHANGED <<status, late, seen, answered, escalation, job, mentorWord>>
    BY DEF Receive, conversation, conversationGhosts
  <2>2. \A c \in Questions : c # q => arrival'[c] = arrival[c]
    BY DEF Receive
  <2>3. job[q] = "none" /\ arrival[q] # "stored" /\ arrival'[q] # "stored"
    BY DEF Receive, OneFate
  <2>4. Fate(q)' = Fate(q)
    BY <2>1, <2>3 DEF Fate
  <2>5. Fates' = Fates
    BY <2>1, <2>2, <2>4, FateStays DEF Fates
  <2>6. QED
    BY <2>1, <2>5 DEF Promise!vars, Fates
<1>2. CASE \E q \in Questions : Persist(q)
  <2> PICK q \in Questions : Persist(q)
    BY <1>2
  <2>1. UNCHANGED <<status, late, seen, answered, escalation, mentorWord>>
    BY DEF Persist, conversation, conversationGhosts
  <2>2. \A c \in Questions : c # q => arrival'[c] = arrival[c] /\ job'[c] = job[c]
    BY DEF Persist
  <2>3. /\ job[q] = "none" /\ arrival[q] # "stored"
        /\ arrival'[q] = "stored" /\ job'[q] \in {"none", "queued"}
    BY DEF Persist, OneFate
  <2>4. Fate(q) = "unasked" /\ Fate(q)' \in {"open", "left"}
    BY <2>3 DEF Fate
  <2>5. \A c \in Questions : c # q => Fate(c)' = Fate(c)
    BY <2>1, <2>2, FateStays
  <2>6. PICK first \in {"open", "left"} : Fate(q)' = first
    BY <2>4
  <2>7. Fates' = [Fates EXCEPT ![q] = first]
    BY <2>5, <2>6 DEF Fates
  <2>8. Promise!Ask(q)
    BY <2>1, <2>4, <2>7 DEF Promise!Ask, Fates
  <2>9. QED
    BY <2>8 DEF Promise!Next
<1>3. CASE MentorWrites
  <2>1. UNCHANGED <<status, late, seen, answered, escalation, job, arrival, mentorWord>>
    BY <1>3 DEF MentorWrites, conversation, conversationTables, conversationGhosts
  <2>2. QED
    BY <2>1, FatesStay DEF Promise!vars, Fates
<1>4. CASE TakeOver
  <2>1. /\ ResolveOpen
        /\ UNCHANGED <<job, answered, arrival>>
        /\ mentorWord' = "fresh" /\ seen' = TRUE
        /\ Become("awaiting_mentor") \/ UNCHANGED <<status, late>>
    BY <1>4 DEF TakeOver
  <2>2. Promise!Look
    BY <2>1, ResolvedIsLook DEF Promise!Look, Fates
  <2>3. Promise!MentorWrites
    BY <2>1, <2>2 DEF Promise!MentorWrites, Promise!Pass, Become
  <2>4. QED
    BY <2>3 DEF Promise!Next
<1>5. CASE AcceptDraft
  <2>1. /\ UNCHANGED <<status, late, seen, answered, escalation, job, arrival>>
        /\ mentorWord' = "fresh"
    BY <1>5 DEF AcceptDraft, conversation, conversationGhosts
  <2>2. Promise!MentorWrites
    BY <2>1, FatesStay DEF Promise!MentorWrites, Fates
  <2>3. QED
    BY <2>2 DEF Promise!Next
<1>6. CASE MentorWordAges
  <2>1. /\ UNCHANGED <<status, late, seen, answered, escalation, job, arrival>>
        /\ (mentorWord # "never")' = (mentorWord # "never")
    BY <1>6 DEF MentorWordAges, conversation, conversationGhosts
  <2>2. QED
    BY <2>1, FatesStay DEF Promise!vars, Fates
<1>7. QED
  BY <1>1, <1>2, <1>3, <1>4, <1>5, <1>6

\* The operators.
LEMMA OperatorPromise ==
  ASSUME FatesInv,
         \/ Toggle
         \/ \E o \in Operators : Resume(o) \/ \E what \in {"resume", "resolve"} : Order(o, what)
  PROVE  [Promise!Next]_(Promise!vars)
<1>1. CASE Toggle \/ \E o \in Operators, what \in {"resume", "resolve"} : Order(o, what)
  <2>1. UNCHANGED <<status, late, seen, answered, escalation, job, arrival, mentorWord>>
    BY <1>1 DEF Toggle, Order, conversation, conversationTables, conversationGhosts
  <2>2. QED
    BY <2>1, FatesStay DEF Promise!vars, Fates
<1>2. CASE \E o \in Operators : Resume(o)
  <2> PICK o \in Operators : Resume(o)
    BY <1>2
  <2>1. /\ UNCHANGED <<job, answered, arrival, mentorWord>>
        /\ Become("active") \/ UNCHANGED <<status, late>>
        /\ (ResolveOpen /\ seen' = TRUE) \/ UNCHANGED <<escalation, seen>>
    BY DEF Resume
  <2>2. Promise!Look \/ UNCHANGED <<Fates, seen>>
    BY <2>1, ResolvedIsLook, FatesStay DEF Promise!Look, Fates
  <2>3. Promise!Operate
    BY <2>1, <2>2 DEF Promise!Operate, Promise!Pass, Become, Fates
  <2>4. QED
    BY <2>3 DEF Promise!Next
<1>3. QED
  BY <1>1, <1>2

\* Each question has one fate, the list of escalations loses nothing that no
\* person saw, and the word passes between assistant and mentor as promised
\* (worker.process_message, escalation, gateway.persist, the operators' hands).
THEOREM ImplementsPromise == ConversationSpec => ConversationKeepsPromise
<1>1. ConversationInit => Promise!Init
  <2> SUFFICES ASSUME ConversationInit PROVE Promise!Init
    OBVIOUS
  <2>1. \A q \in Questions : Fate(q) = "unasked"
    BY DEF ConversationInit, Fate
  <2>2. QED
    BY <2>1 DEF ConversationInit, Promise!Init
<1>2. FatesInv /\ FatesInv' /\ [ConversationNext]_conversationVars => [Promise!Next]_(Promise!vars)
  <2> SUFFICES ASSUME FatesInv, FatesInv', [ConversationNext]_conversationVars
               PROVE  [Promise!Next]_(Promise!vars)
    OBVIOUS
  <2>1. CASE \/ \E q \in Questions : Receive(q) \/ Persist(q)
             \/ MentorWrites \/ TakeOver \/ AcceptDraft \/ MentorWordAges
    BY <2>1, InboundPromise
  <2>2. ASSUME NEW w \in Workers, Work(w) PROVE [Promise!Next]_(Promise!vars)
    BY <2>2, EndsPromise, WorkIsHidden DEF Work
  <2>3. CASE \/ Toggle
             \/ \E o \in Operators :
                  Resume(o) \/ \E what \in {"resume", "resolve"} : Order(o, what)
    BY <2>3, OperatorPromise
  <2>4. CASE UNCHANGED conversationVars
    <3>1. UNCHANGED <<status, late, seen, answered, escalation, job, arrival, mentorWord>>
      BY <2>4 DEF conversationVars, conversation, conversationTables, conversationGhosts
    <3>2. QED
      BY <3>1, FatesStay DEF Promise!vars, Fates
  <2>5. QED
    BY <2>1, <2>2, <2>3, <2>4 DEF ConversationNext
<1>3. QED
  BY <1>1, <1>2, FatesInvariance, PTL DEF ConversationSpec, ConversationKeepsPromise, Promise!Spec

=============================================================================
