------------------------------- MODULE Outbox -------------------------------
(***************************************************************************)
(* The outbox of mentorai: delivery.py, the delivery half of worker.py and *)
(* telegram/sender.py:push, for one mentor account.                        *)
(*                                                                         *)
(* A delivery row is created in one transaction, claimed (and committed as *)
(* "sending") in a second, pushed to Telegram outside any transaction and  *)
(* settled in a third.  Two kinds of executor push: the worker loop, which *)
(* drains what is due, and the handlers of the control bot, which push the *)
(* draft a mentor has just approved.  They are tasks of one process: a     *)
(* crash stops them all and loses what they and the account gate remember, *)
(* and how long ago the worker last looked for orphans: a worker that is   *)
(* started again starts to wait again.                                     *)
(***************************************************************************)
EXTENDS Naturals, Sequences

CONSTANTS Deliveries,    \* answers to student messages; a row is keyed by the
                         \* message it answers (uq_delivery_answered_message)
          Executors,     \* asyncio tasks that push deliveries
          Worker,        \* the one that runs run_forever; the others are the bot's
          NoDelivery,    \* what an idle executor holds
          Parts,         \* number of Telegram messages split_messages makes
          MaxAttempts    \* deliveries.max_attempts

ASSUME ConstantsAssumption ==
  /\ Worker \in Executors
  /\ NoDelivery \notin Deliveries
  /\ Parts \in [Deliveries -> Nat]
  /\ MaxAttempts \in Nat \ {0}

VARIABLES
  (* table deliveries *)
  status,          \* "absent" until the row exists
  attempts,
  sentParts,       \* deliveries.sent_parts
  due,             \* run_after <= now()
  aged,            \* claimed_at is older than STALE_AFTER
  (* other tables *)
  draft,           \* the draft the answer comes from; "none" in auto mode
  accountPaused,   \* mentor_accounts.send_paused
  (* memory of the process *)
  connected,       \* the account's slug is in channels and gates
  gatePaused,      \* AccountGate.send_paused
  flood,           \* now < AccountGate.flood_wait_until
  sweepDue,        \* now - last_sweep > STALE_LOCK_AFTER, in run_forever
  pc, job, base, done, seen, outcome,   \* one push in progress per executor
  (* Telegram *)
  inbox,           \* part numbers that reached the student, in order
  read             \* the answered message carries a read mark

rows    == <<status, attempts, sentParts, due, aged>>
memory  == <<connected, gatePaused, flood, sweepDue>>
frame   == <<pc, job, base, done, seen, outcome>>
chat    == <<inbox, read>>
vars    == <<rows, draft, accountPaused, memory, frame, chat>>

Statuses == {"absent", "pending", "sending", "sent", "failed", "abandoned"}
Stages   == {"idle", "approved", "queued", "claimed", "begin", "send", "record"}
Outcomes == {"none", "sent", "blocked", "unknown"}
Drafts   == {"none", "pending", "approved", "sent", "failed"}

\* The executor has a claimed delivery in hand.
Holding(e) == pc[e] \in {"claimed", "begin", "send", "record"}

TypeOK ==
  /\ status \in [Deliveries -> Statuses]
  /\ attempts \in [Deliveries -> Nat]
  /\ sentParts \in [Deliveries -> Nat]
  /\ due \in [Deliveries -> BOOLEAN]
  /\ aged \in [Deliveries -> BOOLEAN]
  /\ draft \in [Deliveries -> Drafts]
  /\ accountPaused \in BOOLEAN
  /\ connected \in BOOLEAN
  /\ gatePaused \in BOOLEAN
  /\ flood \in BOOLEAN
  /\ sweepDue \in BOOLEAN
  /\ pc \in [Executors -> Stages]
  /\ job \in [Executors -> Deliveries \union {NoDelivery}]
  /\ base \in [Executors -> Nat]
  /\ done \in [Executors -> Nat]
  /\ seen \in [Executors -> BOOLEAN]
  /\ outcome \in [Executors -> Outcomes]
  /\ inbox \in [Deliveries -> Seq(Nat)]
  /\ read \in [Deliveries -> BOOLEAN]

Init ==
  /\ status = [d \in Deliveries |-> "absent"]
  /\ attempts = [d \in Deliveries |-> 0]
  /\ sentParts = [d \in Deliveries |-> 0]
  /\ due = [d \in Deliveries |-> FALSE]
  /\ aged = [d \in Deliveries |-> FALSE]
  /\ draft \in [Deliveries -> {"none", "pending"}]
  /\ accountPaused \in BOOLEAN
  /\ connected \in BOOLEAN
  /\ gatePaused = accountPaused
  /\ flood = FALSE
  /\ sweepDue = FALSE
  /\ pc = [e \in Executors |-> "idle"]
  /\ job = [e \in Executors |-> NoDelivery]
  /\ base = [e \in Executors |-> 0]
  /\ done = [e \in Executors |-> 0]
  /\ seen = [e \in Executors |-> FALSE]
  /\ outcome = [e \in Executors |-> "none"]
  /\ inbox = [d \in Deliveries |-> << >>]
  /\ read = [d \in Deliveries |-> FALSE]

-----------------------------------------------------------------------------
(* Executors.                                                              *)

\* The executor returns; its locals are gone.
Release(e) ==
  /\ pc' = [pc EXCEPT ![e] = "idle"]
  /\ job' = [job EXCEPT ![e] = NoDelivery]
  /\ base' = [base EXCEPT ![e] = 0]
  /\ done' = [done EXCEPT ![e] = 0]
  /\ seen' = [seen EXCEPT ![e] = FALSE]
  /\ outcome' = [outcome EXCEPT ![e] = "none"]

Goto(e, stage) ==
  /\ pc' = [pc EXCEPT ![e] = stage]
  /\ UNCHANGED <<job, base, done, seen, outcome>>

\* push returns to deliver_claimed with a result.
Return(e, result) ==
  /\ pc' = [pc EXCEPT ![e] = "record"]
  /\ outcome' = [outcome EXCEPT ![e] = result]
  /\ UNCHANGED <<job, base, done, seen>>

-----------------------------------------------------------------------------
(* Rows are created.                                                       *)

\* delivery.enqueue: on conflict do nothing is the guard.
Enqueue(d) ==
  /\ status[d] = "absent"
  /\ status' = [status EXCEPT ![d] = "pending"]
  /\ due' = [due EXCEPT ![d] = TRUE]
  /\ UNCHANGED <<attempts, sentParts, aged>>

\* process_message in auto mode; without a channel no row is made.
EnqueueAuto(d) ==
  /\ pc[Worker] = "idle"
  /\ connected
  /\ draft[d] = "none"
  /\ Enqueue(d)
  /\ UNCHANGED <<draft, accountPaused, memory, frame, chat>>

\* A mentor approves: the decision is committed before anything is queued.
Approve(e, d) ==
  /\ e # Worker
  /\ pc[e] = "idle"
  /\ draft[d] = "pending"
  /\ draft' = [draft EXCEPT ![d] = "approved"]
  /\ pc' = [pc EXCEPT ![e] = "approved"]
  /\ job' = [job EXCEPT ![e] = d]
  /\ UNCHANGED <<rows, accountPaused, memory, base, done, seen, outcome, chat>>

\* send_draft_now, first transaction (queue_approved_draft).
QueueDraft(e) ==
  /\ pc[e] = "approved"
  /\ \/ /\ connected
        /\ Enqueue(job[e])
        /\ Goto(e, "queued")
        /\ UNCHANGED draft
     \/ /\ ~ connected
        /\ draft' = [draft EXCEPT ![job[e]] = "failed"]
        /\ Release(e)
        /\ UNCHANGED rows
  /\ UNCHANGED <<accountPaused, memory, chat>>

-----------------------------------------------------------------------------
(* Claims.                                                                 *)

\* Fault: the claim by id does not look at the status.
ClaimAnyway(e, d) ==
  /\ status' = [status EXCEPT ![d] = "sending"]
  /\ attempts' = [attempts EXCEPT ![d] = @ + 1]
  /\ due' = [due EXCEPT ![d] = FALSE]
  /\ aged' = [aged EXCEPT ![d] = FALSE]
  /\ pc' = [pc EXCEPT ![e] = "claimed"]
  /\ job' = [job EXCEPT ![e] = d]
  /\ base' = [base EXCEPT ![e] = sentParts[d]]
  /\ done' = [done EXCEPT ![e] = 0]
  /\ seen' = [seen EXCEPT ![e] = accountPaused]
  /\ UNCHANGED <<sentParts, outcome, draft, accountPaused, memory, chat>>

\* "sending" is committed before Telegram is called.  Claimed carries
\* sent_parts and send_paused as they are in the database now.
Claim(e, d) ==
  /\ status[d] = "pending"
  /\ status' = [status EXCEPT ![d] = "sending"]
  /\ attempts' = [attempts EXCEPT ![d] = @ + 1]
  /\ due' = [due EXCEPT ![d] = FALSE]
  /\ aged' = [aged EXCEPT ![d] = FALSE]
  /\ pc' = [pc EXCEPT ![e] = "claimed"]
  /\ job' = [job EXCEPT ![e] = d]
  /\ base' = [base EXCEPT ![e] = sentParts[d]]
  /\ done' = [done EXCEPT ![e] = 0]
  /\ seen' = [seen EXCEPT ![e] = accountPaused]
  /\ UNCHANGED <<sentParts, outcome, draft, accountPaused, memory, chat>>

\* drain_deliveries, claim_next.
ClaimNext(d) ==
  /\ pc[Worker] = "idle"
  /\ due[d]
  /\ Claim(Worker, d)

\* send_draft_now, claim: by id, whatever run_after says.
ClaimQueued(e) ==
  /\ pc[e] = "queued"
  /\ Claim(e, job[e])

\* Somebody else has the row: report status_of and leave.
QueuedElsewhere(e) ==
  /\ pc[e] = "queued"
  /\ status[job[e]] # "pending"
  /\ Release(e)
  /\ UNCHANGED <<rows, draft, accountPaused, memory, chat>>

-----------------------------------------------------------------------------
(* push, outside any transaction.                                          *)

\* Fault: the gate keeps the switch it was made with.
StartRemembering(e) ==
  /\ pc[e] = "claimed"
  /\ connected
  /\ \E quiet \in BOOLEAN :
       IF gatePaused \/ flood \/ quiet THEN Return(e, "blocked")
       ELSE IF base[e] >= Parts[job[e]] THEN Return(e, "unknown")
       ELSE Goto(e, "begin")
  /\ UNCHANGED <<rows, draft, accountPaused, memory, chat>>

\* deliver_claimed up to the first await: the gate takes the pause switch from
\* the claim and is asked once; nothing runs in between.
Start(e) ==
  /\ pc[e] = "claimed"
  /\ connected
  /\ gatePaused' = seen[e]
  /\ \E quiet \in BOOLEAN :
       IF gatePaused' \/ flood \/ quiet THEN Return(e, "blocked")
       ELSE IF base[e] >= Parts[job[e]] THEN Return(e, "unknown")
       ELSE Goto(e, "begin")
  /\ UNCHANGED <<rows, draft, accountPaused, connected, flood, sweepDue, chat>>

\* The first part of the first attempt marks the answered message as read.
Begin(e) ==
  /\ pc[e] = "begin"
  /\ LET d == job[e]
         first == base[e] = 0 /\ done[e] = 0
     IN \/ /\ read' = [read EXCEPT ![d] = @ \/ first]
           /\ Goto(e, "send")
           /\ UNCHANGED flood
        \/ /\ first
           /\ flood' = TRUE
           /\ Return(e, "blocked")
           /\ UNCHANGED read
        \/ /\ first
           /\ \E marked \in BOOLEAN : read' = [read EXCEPT ![d] = @ \/ marked]
           /\ Return(e, "unknown")
           /\ UNCHANGED flood
  /\ UNCHANGED <<rows, draft, accountPaused, connected, gatePaused, sweepDue, inbox>>

\* Part base + done + 1 of the answer appears in the chat.
Reach(e) == inbox' = [inbox EXCEPT ![job[e]] = Append(@, base[e] + done[e] + 1)]

\* Fault: the last part is told from this attempt's count alone.
SendPartMiscounting(e) ==
  /\ pc[e] = "send"
  /\ \/ /\ Reach(e)
        /\ done' = [done EXCEPT ![e] = @ + 1]
        /\ IF done[e] + 1 = Parts[job[e]]
           THEN /\ pc' = [pc EXCEPT ![e] = "record"]
                /\ outcome' = [outcome EXCEPT ![e] = "sent"]
           ELSE /\ pc' = [pc EXCEPT ![e] = "begin"]
                /\ UNCHANGED outcome
        /\ UNCHANGED <<job, base, seen, flood>>
     \/ /\ flood' = TRUE
        /\ Return(e, "blocked")
        /\ UNCHANGED inbox
  /\ UNCHANGED <<rows, draft, accountPaused, connected, gatePaused, sweepDue, read>>

\* Typing indicator and message: delivered, refused by FloodWait (known not to
\* have been delivered), or failed in a way that leaves it unknown.
SendPart(e) ==
  /\ pc[e] = "send"
  /\ \/ /\ Reach(e)
        /\ done' = [done EXCEPT ![e] = @ + 1]
        /\ IF base[e] + done[e] + 1 = Parts[job[e]]
           THEN /\ pc' = [pc EXCEPT ![e] = "record"]
                /\ outcome' = [outcome EXCEPT ![e] = "sent"]
           ELSE /\ pc' = [pc EXCEPT ![e] = "begin"]
                /\ UNCHANGED outcome
        /\ UNCHANGED <<job, base, seen, flood>>
     \/ /\ flood' = TRUE
        /\ Return(e, "blocked")
        /\ UNCHANGED inbox
     \/ /\ Reach(e) \/ UNCHANGED inbox
        /\ Return(e, "unknown")
        /\ UNCHANGED flood
  /\ UNCHANGED <<rows, draft, accountPaused, connected, gatePaused, sweepDue, read>>

-----------------------------------------------------------------------------
(* deliver_claimed, the last transaction.                                  *)

\* _settle_draft.
SettleDraft(d, verdict) ==
  draft' = IF draft[d] \in {"none", "sent", "failed"} THEN draft
           ELSE [draft EXCEPT ![d] = verdict]

\* Fault: the parts of a refused push are not counted.
CountNothing(e) == UNCHANGED sentParts

CountParts(e) == sentParts' = [sentParts EXCEPT ![job[e]] = @ + done[e]]

\* Fault: the draft is forgotten.
MarkRowOnly(e) ==
  /\ outcome[e] = "sent"
  /\ status' = [status EXCEPT ![job[e]] = "sent"]
  /\ UNCHANGED <<draft, due, aged>>

\* mark_sent.
MarkSent(e) ==
  /\ outcome[e] = "sent"
  /\ status' = [status EXCEPT ![job[e]] = "sent"]
  /\ SettleDraft(job[e], "sent")
  /\ UNCHANGED <<due, aged>>

\* retry_later; the draft is not touched, even when the attempts are used up.
RetryLater(e) ==
  /\ outcome[e] = "blocked"
  /\ status' = [status EXCEPT ![job[e]] =
                  IF attempts[job[e]] >= MaxAttempts THEN "failed" ELSE "pending"]
  /\ due' = [due EXCEPT ![job[e]] = FALSE]
  /\ aged' = [aged EXCEPT ![job[e]] = FALSE]
  /\ UNCHANGED draft

\* abandon.
Abandon(e) ==
  /\ outcome[e] = "unknown"
  /\ status' = [status EXCEPT ![job[e]] = "abandoned"]
  /\ aged' = [aged EXCEPT ![job[e]] = FALSE]
  /\ SettleDraft(job[e], "failed")
  /\ UNCHANGED due

Record(e) ==
  /\ pc[e] = "record"
  /\ MarkSent(e) \/ RetryLater(e) \/ Abandon(e)
  /\ CountParts(e)
  /\ Release(e)
  /\ UNCHANGED <<attempts, accountPaused, memory, chat>>

\* The account is not connected: given up, and the draft is left as it is.
NoChannel(e) ==
  /\ pc[e] = "claimed"
  /\ ~ connected
  /\ status' = [status EXCEPT ![job[e]] = "abandoned"]
  /\ aged' = [aged EXCEPT ![job[e]] = FALSE]
  /\ Release(e)
  /\ UNCHANGED <<attempts, sentParts, due, draft, accountPaused, memory, chat>>

\* The transaction rolls back: the row stays "sending" and nobody holds it.
RecordFails(e) ==
  /\ pc[e] = "record"
  /\ Release(e)
  /\ UNCHANGED <<rows, draft, accountPaused, memory, chat>>

-----------------------------------------------------------------------------
(* The idle branch of run_forever.                                         *)

\* The worker found no job, has drained the outbox (new rows may have come in
\* since), and its last sweep, or its start, is ten minutes old.
IdleRound ==
  /\ pc[Worker] = "idle"
  /\ sweepDue
  /\ sweepDue' = FALSE
  /\ UNCHANGED <<attempts, sentParts, due, draft, accountPaused, connected, gatePaused,
                 flood, frame, chat>>

\* Fault: an orphan is sent again, the way jobs are run again.
SweepToPending ==
  /\ IdleRound
  /\ status' = [d \in Deliveries |->
                  IF status[d] = "sending" /\ aged[d] THEN "pending" ELSE status[d]]
  /\ aged' = [d \in Deliveries |-> aged[d] /\ status[d] # "sending"]

\* Fault: only the age of the claim counts, whatever became of it.
SweepByAge ==
  /\ IdleRound
  /\ status' = [d \in Deliveries |-> IF aged[d] THEN "abandoned" ELSE status[d]]
  /\ aged' = [d \in Deliveries |-> FALSE]

\* Fault: an orphan of the last attempt is overlooked.
SweepRetriable ==
  /\ IdleRound
  /\ status' = [d \in Deliveries |->
                  IF status[d] = "sending" /\ aged[d] /\ attempts[d] < MaxAttempts
                  THEN "abandoned" ELSE status[d]]
  /\ UNCHANGED aged

\* abandon_stale; last_sweep moves on, whether or not an orphan was found.
Sweep ==
  /\ IdleRound
  /\ status' = [d \in Deliveries |->
                  IF status[d] = "sending" /\ aged[d] THEN "abandoned" ELSE status[d]]
  /\ aged' = [d \in Deliveries |-> aged[d] /\ status[d] # "sending"]

-----------------------------------------------------------------------------
(* The clock, the operator and the process.                                *)

RetryDue(d) ==
  /\ status[d] = "pending"
  /\ ~ due[d]
  /\ due' = [due EXCEPT ![d] = TRUE]
  /\ UNCHANGED <<status, attempts, sentParts, aged, draft, accountPaused,
                 memory, frame, chat>>

\* Ten minutes pass since the claim: its executor is dead, or it is waiting for
\* the rate limit or for Telegram.
ClaimAges(d) ==
  /\ status[d] = "sending"
  /\ ~ aged[d]
  /\ \A e \in Executors : Holding(e) /\ job[e] = d => pc[e] \in {"begin", "send"}
  /\ aged' = [aged EXCEPT ![d] = TRUE]
  /\ UNCHANGED <<status, attempts, sentParts, due, draft, accountPaused,
                 memory, frame, chat>>

\* The worker has been up for ten minutes since it last swept.
SweepFallsDue ==
  /\ ~ sweepDue
  /\ sweepDue' = TRUE
  /\ UNCHANGED <<rows, draft, accountPaused, connected, gatePaused, flood, frame, chat>>

FloodEnds ==
  /\ flood
  /\ flood' = FALSE
  /\ UNCHANGED <<rows, draft, accountPaused, connected, gatePaused, sweepDue, frame, chat>>

\* mentorai pause, from another process: only the database changes.
Pause ==
  /\ accountPaused' = ~ accountPaused
  /\ UNCHANGED <<rows, draft, memory, frame, chat>>

\* The process dies and is started again (cmd_run_worker); whether the account
\* is connected is decided anew.
Crash ==
  /\ connected' \in BOOLEAN
  /\ gatePaused' = accountPaused
  /\ flood' = FALSE
  /\ sweepDue' = FALSE
  /\ pc' = [e \in Executors |-> "idle"]
  /\ job' = [e \in Executors |-> NoDelivery]
  /\ base' = [e \in Executors |-> 0]
  /\ done' = [e \in Executors |-> 0]
  /\ seen' = [e \in Executors |-> FALSE]
  /\ outcome' = [e \in Executors |-> "none"]
  /\ UNCHANGED <<rows, draft, accountPaused, chat>>

-----------------------------------------------------------------------------
Step(e) ==
  \/ QueueDraft(e) \/ ClaimQueued(e) \/ QueuedElsewhere(e)
  \/ Start(e) \/ NoChannel(e) \/ Begin(e) \/ SendPart(e)
  \/ Record(e) \/ RecordFails(e)

\* What the process and its surroundings do while it is up.
Live ==
  \/ \E d \in Deliveries : EnqueueAuto(d) \/ ClaimNext(d) \/ RetryDue(d) \/ ClaimAges(d)
  \/ \E e \in Executors : Step(e)
  \/ \E e \in Executors, d \in Deliveries : Approve(e, d)
  \/ Sweep \/ SweepFallsDue \/ FloodEnds \/ Pause

Next == Live \/ Crash

Spec == Init /\ [][Next]_vars

\* The event loop runs every task that is ready, the worker goes round its loop
\* after each job, and time passes.  Nothing obliges a mentor to approve.  The
\* sweep is not among these: it waits for an idle round ten minutes after the
\* start, which a worker that is restarted or busy need never reach.
Fairness ==
  /\ \A e \in Executors : WF_vars(Step(e))
  /\ \A d \in Deliveries :
       WF_vars(ClaimNext(d)) /\ WF_vars(RetryDue(d)) /\ WF_vars(ClaimAges(d))
  /\ WF_vars(SweepFallsDue)

FairSpec == Spec /\ Fairness

-----------------------------------------------------------------------------
(* Properties.                                                             *)

\* The student receives the parts of an answer in order and none of them twice,
\* however often the push is refused, dies or is taken up by somebody else
\* (delivery.py 13-20; sent_parts, delivery.py 242-245).
OnceInOrder ==
  \A d \in Deliveries : \A i \in DOMAIN inbox[d] : inbox[d][i] = i

\* Worker and bot never push the same delivery at the same time, although the
\* worker may drain a row between the bot's enqueue and its claim
\* (worker.py 367-368).
OneHolder ==
  \A e, f \in Executors :
    Holding(e) /\ Holding(f) /\ job[e] = job[f] => e = f

\* A row that may be pushed again knows exactly which parts are in the chat;
\* nothing unknown is ever retried (delivery.py 18-20).
ResumesWhereItStopped ==
  \A d \in Deliveries : status[d] = "pending" => sentParts[d] = Len(inbox[d])

\* A row recorded as sent stands for a whole answer, to a message that was
\* marked as read, and its draft says the same; no draft claims to be sent
\* while its row does not.
SentMeansSent ==
  \A d \in Deliveries :
    /\ status[d] = "sent" =>
         /\ Len(inbox[d]) = Parts[d]
         /\ read[d]
         /\ draft[d] \in {"none", "sent"}
    /\ draft[d] = "sent" => status[d] = "sent"

\* Once a row is settled and nobody holds it, nothing of it is sent any more
\* and it keeps its verdict.
SettledIsFinal ==
  [][\A d \in Deliveries :
       /\ status[d] \in {"sent", "failed", "abandoned"}
       /\ ~ \E e \in Executors : Holding(e) /\ job[e] = d
       => inbox'[d] = inbox[d] /\ status'[d] = status[d]]_vars

\* `mentorai pause` works without a restart: a push claimed after the switch was
\* set sends nothing, whatever the gate remembered before (worker.py 276-280).
PauseHolds ==
  [][\A e \in Executors : seen[e] /\ Holding(e) => inbox'[job[e]] = inbox[job[e]]]_vars

Promise == INSTANCE OutboxPromise WITH
             answered <- [d \in Deliveries |-> status[d] = "sent"]

\* The outbox implements the promise: parts in order, none twice, and called
\* sent only when complete.
KeepsPromise == Promise!Spec

Queued(d) == status[d] \in {"pending", "sending"}
Settled(d) == status[d] \in {"sent", "failed", "abandoned"}

\* An approved answer leaves a durable row: a dying process must not lose an
\* answer unnoticed (ADR-030, docs/ARCHITECTURE_DECISIONS.md 957-959).
ApprovedLeavesARow ==
  \A d \in Deliveries :
    draft[d] = "approved" ~> status[d] # "absent" \/ draft[d] = "failed"
=============================================================================
