-------------------------------- MODULE Jobs --------------------------------
(***************************************************************************)
(* The job queue of mentorai: jobs/queue.py and the job half of            *)
(* worker.run_forever, for jobs of kind answer_message.                    *)
(*                                                                         *)
(* A job is claimed in one transaction and worked on in a second one, that *)
(* also holds the decision about the message (ai_runs, unique per message) *)
(* and the completion of the job.  What follows the commit (notify_draft,  *)
(* drain_deliveries) may still raise, and every exception ends in          *)
(* queue.fail.  Claims carry no owner: a job whose lock is old is handed   *)
(* out again, whether its holder is dead or only slow.                     *)
(*                                                                         *)
(* Several workers are modelled, because the queue is written for them.    *)
(* Each looks for old locks in an idle round, ten minutes after it started *)
(* or last looked: that time is in its memory and starts anew with it.     *)
(***************************************************************************)
EXTENDS Naturals, FiniteSets

CONSTANTS Jobs,          \* one job per message
          Workers,
          NoJob,         \* what an idle worker holds
          MaxAttempts,   \* jobs.max_attempts
          MaxFaults      \* bound: deaths of a worker with the job, failed queue.fail calls

ASSUME ConstantsAssumption ==
  /\ NoJob \notin Jobs
  /\ MaxAttempts \in Nat \ {0}
  /\ MaxFaults \in Nat
  /\ IsFiniteSet(Workers)

VARIABLES
  (* table jobs *)
  status,          \* "absent" until the row exists
  attempts,
  due,             \* run_after <= now()
  aged,            \* locked_at < now() - STALE_LOCK_AFTER
  (* table ai_runs *)
  decided,         \* number of rows for the message of a job
  (* workers *)
  pc, job,
  sweepDue,        \* now - last_sweep > STALE_LOCK_AFTER
  skipped,         \* ghost: a worker found that nothing was to be decided
  faults           \* ghost: deaths and failed queue.fail calls, per job

rows   == <<status, attempts, due, aged>>
frame  == <<pc, job, sweepDue>>
ghosts == <<skipped, faults>>
vars   == <<rows, decided, frame, ghosts>>

Statuses == {"absent", "pending", "processing", "done", "dead"}
Stages   == {"idle", "deciding", "after", "failed"}

Holders(j) == {w \in Workers : job[w] = j}

TypeOK ==
  /\ status \in [Jobs -> Statuses]
  /\ attempts \in [Jobs -> Nat]
  /\ due \in [Jobs -> BOOLEAN]
  /\ aged \in [Jobs -> BOOLEAN]
  /\ decided \in [Jobs -> Nat]
  /\ pc \in [Workers -> Stages]
  /\ job \in [Workers -> Jobs \union {NoJob}]
  /\ sweepDue \in [Workers -> BOOLEAN]
  /\ skipped \in [Jobs -> BOOLEAN]
  /\ faults \in [Jobs -> Nat]

Init ==
  /\ status = [j \in Jobs |-> "absent"]
  /\ attempts = [j \in Jobs |-> 0]
  /\ due = [j \in Jobs |-> FALSE]
  /\ aged = [j \in Jobs |-> FALSE]
  /\ decided = [j \in Jobs |-> 0]
  /\ pc = [w \in Workers |-> "idle"]
  /\ job = [w \in Workers |-> NoJob]
  /\ sweepDue = [w \in Workers |-> FALSE]
  /\ skipped = [j \in Jobs |-> FALSE]
  /\ faults = [j \in Jobs |-> 0]

-----------------------------------------------------------------------------
(* Helpers.                                                                *)

\* The worker goes back to the top of its loop.
Release(w) ==
  /\ pc' = [pc EXCEPT ![w] = "idle"]
  /\ job' = [job EXCEPT ![w] = NoJob]

Goto(w, stage) ==
  /\ pc' = [pc EXCEPT ![w] = stage]
  /\ UNCHANGED job

-----------------------------------------------------------------------------
(* jobs/queue.py.                                                          *)

\* enqueue, in the transaction that stores the student's message.
Enqueue(j) ==
  /\ status[j] = "absent"
  /\ status' = [status EXCEPT ![j] = "pending"]
  /\ due' = [due EXCEPT ![j] = TRUE]
  /\ UNCHANGED <<attempts, aged, decided, frame, ghosts>>

\* claim.  The oldest due job goes first in the code; any due job here.
Claim(w, j) ==
  /\ pc[w] = "idle"
  /\ status[j] = "pending"
  /\ due[j]
  /\ status' = [status EXCEPT ![j] = "processing"]
  /\ attempts' = [attempts EXCEPT ![j] = @ + 1]
  /\ aged' = [aged EXCEPT ![j] = FALSE]
  /\ pc' = [pc EXCEPT ![w] = "deciding"]
  /\ job' = [job EXCEPT ![w] = j]
  /\ UNCHANGED <<due, decided, sweepDue, ghosts>>

\* complete: by id, whatever became of the claim.
Complete(j) == status' = [status EXCEPT ![j] = "done"]

\* Fault: one attempt too many.
FailLate(j) ==
  /\ status' = [status EXCEPT ![j] = IF attempts[j] > MaxAttempts THEN "dead" ELSE "pending"]
  /\ due' = [due EXCEPT ![j] = FALSE]
  /\ aged' = [aged EXCEPT ![j] = FALSE]

\* Fault: a job that is out of attempts is closed.
FailClosing(j) ==
  /\ status' = [status EXCEPT ![j] = IF attempts[j] >= MaxAttempts THEN "done" ELSE "pending"]
  /\ due' = [due EXCEPT ![j] = FALSE]
  /\ aged' = [aged EXCEPT ![j] = FALSE]

\* fail: by id, whatever became of the claim.
Fail(j) ==
  /\ status' = [status EXCEPT ![j] = IF attempts[j] >= MaxAttempts THEN "dead" ELSE "pending"]
  /\ due' = [due EXCEPT ![j] = FALSE]
  /\ aged' = [aged EXCEPT ![j] = FALSE]

\* Fault: the age of the lock alone decides.
StaleByAge(j) == status[j] \notin {"absent", "pending"} /\ aged[j]

\* Fault: a job out of attempts is left alone.
StaleRetriable(j) == status[j] = "processing" /\ aged[j] /\ attempts[j] < MaxAttempts

\* What release_stale frees.
Stale(j) == status[j] = "processing" /\ aged[j]

-----------------------------------------------------------------------------
(* One job: the transaction of run_forever.                                *)

\* process_message decides, with the model or by a rule, and the transaction
\* commits: the ai_run and the completed job together.
Decide(w) ==
  LET j == job[w] IN
  /\ pc[w] = "deciding"
  /\ decided[j] = 0
  /\ decided' = [decided EXCEPT ![j] = 1]
  /\ Complete(j)
  /\ Goto(w, "after")
  /\ UNCHANGED <<attempts, due, aged, sweepDue, ghosts>>

\* The message is gone or the assistant may not answer: nothing to decide.
Skip(w) ==
  /\ pc[w] = "deciding"
  /\ skipped' = [skipped EXCEPT ![job[w]] = TRUE]
  /\ Complete(job[w])
  /\ Goto(w, "after")
  /\ UNCHANGED <<attempts, due, aged, decided, sweepDue, faults>>

\* The transaction rolls back: a second ai_run for the message violates
\* uq_ai_run_message, or anything else raises.
Rollback(w) ==
  /\ pc[w] = "deciding"
  /\ Goto(w, "failed")
  /\ UNCHANGED <<rows, decided, sweepDue, ghosts>>

-----------------------------------------------------------------------------
(* After the commit.                                                       *)

\* notify_draft and drain_deliveries return.
Return(w) ==
  /\ pc[w] = "after"
  /\ Release(w)
  /\ UNCHANGED <<rows, decided, sweepDue, ghosts>>

\* One of their transactions raises.
Raise(w) ==
  /\ pc[w] = "after"
  /\ Goto(w, "failed")
  /\ UNCHANGED <<rows, decided, sweepDue, ghosts>>

\* The except clause of run_forever.
Fails(w) ==
  /\ pc[w] = "failed"
  /\ Fail(job[w])
  /\ Release(w)
  /\ UNCHANGED <<attempts, decided, sweepDue, ghosts>>

-----------------------------------------------------------------------------
(* The idle branch, the clock and the faults.                              *)

\* release_stale: the worker finds no job and has not looked for ten minutes.
\* last_sweep moves on, whether or not an old lock was found.
Sweep(w) ==
  /\ pc[w] = "idle"
  /\ sweepDue[w]
  /\ ~ \E j \in Jobs : status[j] = "pending" /\ due[j]
  /\ sweepDue' = [sweepDue EXCEPT ![w] = FALSE]
  /\ status' = [j \in Jobs |-> IF Stale(j) THEN "pending" ELSE status[j]]
  /\ aged' = [j \in Jobs |-> aged[j] /\ ~ Stale(j)]
  /\ UNCHANGED <<attempts, due, decided, pc, job, ghosts>>

RetryDue(j) ==
  /\ status[j] = "pending"
  /\ ~ due[j]
  /\ due' = [due EXCEPT ![j] = TRUE]
  /\ UNCHANGED <<status, attempts, aged, decided, frame, ghosts>>

\* Ten minutes pass since the claim; its worker is dead, or only slow.
LockAges(j) ==
  /\ status[j] = "processing"
  /\ ~ aged[j]
  /\ aged' = [aged EXCEPT ![j] = TRUE]
  /\ UNCHANGED <<status, attempts, due, decided, frame, ghosts>>

\* The worker has been up for ten minutes since it last swept.
SweepFallsDue(w) ==
  /\ ~ sweepDue[w]
  /\ sweepDue' = [sweepDue EXCEPT ![w] = TRUE]
  /\ UNCHANGED <<rows, decided, pc, job, ghosts>>

\* The worker dies with a job and starts again, or cannot even record the
\* failure (contextlib.suppress); MaxFaults times per job.
Lose(w) ==
  /\ pc[w] # "idle"
  /\ faults[job[w]] < MaxFaults
  /\ faults' = [faults EXCEPT ![job[w]] = @ + 1]
  /\ sweepDue' \in {sweepDue, [sweepDue EXCEPT ![w] = FALSE]}
  /\ Release(w)
  /\ UNCHANGED <<rows, decided, skipped>>

\* An idle worker is started again, as often as one likes.
Restart(w) ==
  /\ pc[w] = "idle"
  /\ sweepDue[w]
  /\ sweepDue' = [sweepDue EXCEPT ![w] = FALSE]
  /\ UNCHANGED <<rows, decided, pc, job, ghosts>>

-----------------------------------------------------------------------------
Work(w) ==
  \/ \E j \in Jobs : Claim(w, j)
  \/ Decide(w) \/ Skip(w) \/ Rollback(w)
  \/ Return(w) \/ Raise(w) \/ Fails(w) \/ Sweep(w)

\* What happens while no idle worker is started again.
Live ==
  \/ \E w \in Workers : Work(w) \/ SweepFallsDue(w) \/ Lose(w)
  \/ \E j \in Jobs : Enqueue(j) \/ RetryDue(j) \/ LockAges(j)

Next == Live \/ \E w \in Workers : Restart(w)

Spec == Init /\ [][Next]_vars

-----------------------------------------------------------------------------
(* Properties.                                                             *)

\* No message is closed without a decision: a job that is done was decided or
\* found to need no decision.
DoneMeansDecided ==
  \A j \in Jobs : status[j] = "done" => decided[j] = 1 \/ skipped[j]

\* A closed job moves only by the hand of a worker that still holds it: the
\* sweep and the claims of others leave it alone.
ClosedIsLeftAlone ==
  [][\A j \in Jobs :
       /\ status[j] \in {"done", "dead"}
       /\ Holders(j) = {}
       => status'[j] = status[j]]_vars

\* release_stale forgets max_attempts, yet a job is not tried without end: over
\* its limit, each attempt stands for a worker that still holds the job or for
\* a fault (jobs/queue.py 97-125).
AttemptsAreAccounted ==
  \A j \in Jobs : attempts[j] + 1 <= MaxAttempts + Cardinality(Workers) + faults[j]

Promise == INSTANCE JobPromise WITH
             tries <- attempts,
             state <- [j \in Jobs |-> IF status[j] \in {"pending", "processing"} THEN "open" ELSE status[j]]

\* The queue implements the promise: whatever two holders of one job, the sweep
\* and the failures make of it, its message is decided at most once, it is done
\* only if decided or skipped, and what is given up is not taken up again
\* (jobs/queue.py 83-125).
JobKeepsPromise == Promise!Spec
=============================================================================
