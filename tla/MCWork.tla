------------------------------- MODULE MCWork --------------------------------
(***************************************************************************)
(* What must come to an end: a job of the queue, an answer in the outbox,  *)
(* a call of a model.  A behaviour is about one of the three, its subject; *)
(* the others rest.  That keeps one run for three instances that share no  *)
(* state.                                                                  *)
(*                                                                         *)
(* Orphans are looked for in an idle round, ten minutes after the start of *)
(* the worker.  One that is started again and again, or always finds a     *)
(* job, never looks, and nothing is claimed of it: what must happen must   *)
(* happen once it is calm.                                                 *)
(***************************************************************************)
EXTENDS Jobs, Client, TLC

VARIABLES subject,
          calm,        \* from here on the processes stay up, and find no job now and again
          (* the outbox's own status, attempts, due, aged, sweepDue, pc and job *)
          rowStatus, tries, isDue, isAged, isSweepDue, step, holds,
          sentParts, draft, accountPaused, connected, gatePaused, flood,
          base, done, seen, outcome, inbox, read

CONSTANTS long, Executors, Worker, NoDelivery

Box == INSTANCE Outbox WITH
  status <- rowStatus, attempts <- tries, due <- isDue, aged <- isAged, sweepDue <- isSweepDue,
  pc <- step, job <- holds,
  Deliveries <- {long}, Parts <- long :> 2, MaxAttempts <- 2

outboxVars == <<rowStatus, tries, isDue, isAged, isSweepDue, step, holds, sentParts, draft,
                accountPaused, connected, gatePaused, flood, base, done, seen, outcome, inbox, read>>
workVars == <<subject, calm, vars, clientVars, outboxVars>>

(* One step of the subject, the rest unchanged *)
OfJobs(A) == subject = "job" /\ A /\ UNCHANGED <<subject, clientVars, outboxVars>>
OfCall(A) == subject = "call" /\ A /\ UNCHANGED <<subject, vars, outboxVars>>
OfOutbox(A) == subject = "delivery" /\ A /\ UNCHANGED <<subject, vars, clientVars>>

WorkInit ==
  /\ subject \in {"job", "call", "delivery"}
  /\ calm = FALSE
  /\ Init /\ ClientInit /\ Box!Init
  /\ subject # "delivery" =>
       draft = [d \in {long} |-> "none"] /\ ~ accountPaused /\ ~ connected

(* From here on no process is killed.  Deaths with a job in hand stay      *)
(* possible: Jobs bounds them.  A call does not know what is calm.         *)
Calm ==
  /\ subject # "call" /\ ~ calm
  /\ calm' = TRUE
  /\ UNCHANGED <<subject, vars, clientVars, outboxVars>>

WorkNext ==
  \/ Calm
  \/ UNCHANGED calm /\ (OfJobs(Live) \/ OfCall(ClientNext) \/ OfOutbox(Box!Live))
  \/ ~ calm /\ UNCHANGED calm /\ (OfJobs(Next) \/ OfOutbox(Box!Next))

(* A process that stays up goes round its loop, the event loop runs what   *)
(* is ready, and time passes.  Nothing makes it stay up.                   *)
Owed(A) == calm /\ UNCHANGED calm /\ A

WorkFairness ==
  /\ \A w \in Workers : WF_workVars(Owed(OfJobs(Work(w)))) /\ WF_workVars(Owed(OfJobs(SweepFallsDue(w))))
  /\ \A j \in Jobs : WF_workVars(Owed(OfJobs(RetryDue(j)))) /\ WF_workVars(Owed(OfJobs(LockAges(j))))
  /\ WF_workVars(UNCHANGED calm /\ OfCall(ClientNext))
  /\ \A e \in Executors : WF_workVars(Owed(OfOutbox(Box!Step(e))))
  /\ WF_workVars(Owed(OfOutbox(Box!ClaimNext(long)))) /\ WF_workVars(Owed(OfOutbox(Box!RetryDue(long))))
  /\ WF_workVars(Owed(OfOutbox(Box!ClaimAges(long))))
  /\ WF_workVars(Owed(OfOutbox(Box!SweepFallsDue))) /\ WF_workVars(Owed(OfOutbox(Box!Sweep)))

WorkSpec == WorkInit /\ [][WorkNext]_workVars /\ WorkFairness

(* Every job comes to rest once the workers are calm, whatever died on it  *)
(* before and up to MaxFaults deaths after (worker.py 476-485, jobs/queue.py *)
(* 89-125): the attempts run out or the message is decided.                *)
EveryJobRests ==
  \A j \in Jobs :
    calm /\ status[j] \in {"pending", "processing"} ~> [](status[j] \in {"done", "dead"})

(* Every queued answer is settled once the process is calm, whatever it    *)
(* was doing whenever it died: the attempts are bounded, and the sweep     *)
(* finds what was left in "sending" (worker.py 435-444, delivery.py 286).  *)
EverySettles == calm /\ Box!Queued(long) ~> Box!Settled(long)
==============================================================================
