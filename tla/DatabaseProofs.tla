--------------------------- MODULE DatabaseProofs ---------------------------
(***************************************************************************)
(* Proofs about the two things that the database itself has to keep right: *)
(* the job queue, for any jobs, any finite set of workers and any bounds   *)
(* on the attempts and the faults, and the migrations, for any rows.       *)
(***************************************************************************)
EXTENDS Jobs, Schema, Lists, FiniteSetTheorems, TLAPS

\* The workers that may still decide or fail j.
Working(j) == {w \in Workers : job[w] = j /\ pc[w] \in {"deciding", "failed"}}

\* Once a job has had all its attempts it is opened again by release_stale only,
\* so that every further claim is one of a worker still at it, or a fault.
LateClaims(j) ==
  status[j] \in {"pending", "processing"} /\ attempts[j] >= MaxAttempts =>
    attempts[j] + 1 <= MaxAttempts + Cardinality(Working(j)) + faults[j]

\* A worker holds a job exactly when it is not idle.
HoldsWhenBusy == \A w \in Workers : pc[w] = "idle" <=> job[w] = NoJob

\* A job that does not exist was never tried.
AbsentIsUntried == \A j \in Jobs : status[j] = "absent" => attempts[j] = 0

\* A message is decided once (uq_ai_run_message).
DecidedOnce == \A j \in Jobs : decided[j] <= 1

\* The inductive invariant.
IInv ==
  /\ TypeOK
  /\ HoldsWhenBusy
  /\ AbsentIsUntried
  /\ DecidedOnce
  /\ DoneMeansDecided
  /\ \A j \in Jobs : LateClaims(j)
  /\ AttemptsAreAccounted

-----------------------------------------------------------------------------
(* How many work on a job.                                                 *)

LEMMA WorkingIsFinite ==
  ASSUME NEW j \in Jobs
  PROVE  /\ IsFiniteSet(Working(j))
         /\ Cardinality(Working(j)) \in Nat
         /\ Cardinality(Workers) \in Nat
         /\ Cardinality(Working(j)) <= Cardinality(Workers)
<1>1. IsFiniteSet(Workers) /\ Working(j) \subseteq Workers
  BY ConstantsAssumption DEF Working
<1>2. QED
  BY <1>1, FS_Subset, FS_CardinalityType

LEMMA WorkingIsFiniteNext ==
  ASSUME NEW j \in Jobs
  PROVE  IsFiniteSet(Working(j))' /\ Cardinality(Working(j))' \in Nat
<1>1. IsFiniteSet(Workers) /\ Working(j)' \subseteq Workers
  BY ConstantsAssumption DEF Working
<1>2. QED
  BY <1>1, FS_Subset, FS_CardinalityType

\* A worker that does not work on j leaves room for one more.
LEMMA RoomForOneMore ==
  ASSUME NEW j \in Jobs, NEW w \in Workers, w \notin Working(j)
  PROVE  Cardinality(Working(j)) + 1 <= Cardinality(Workers)
<1>1. IsFiniteSet(Workers) /\ Working(j) \union {w} \subseteq Workers
  BY ConstantsAssumption DEF Working
<1>2. Cardinality(Working(j) \union {w}) <= Cardinality(Workers)
  BY <1>1, FS_Subset
<1>3. Cardinality(Working(j) \union {w}) = Cardinality(Working(j)) + 1
  BY WorkingIsFinite, FS_AddElement
<1>4. QED
  BY <1>2, <1>3

\* One worker more, or one less.
LEMMA OneMore ==
  ASSUME NEW j \in Jobs, NEW w \in Workers, w \notin Working(j),
         Working(j)' = Working(j) \union {w}
  PROVE  Cardinality(Working(j))' = Cardinality(Working(j)) + 1
BY WorkingIsFinite, FS_AddElement

LEMMA AtMostOneLess ==
  ASSUME NEW j \in Jobs, NEW w \in Workers,
         Working(j) \subseteq Working(j)' \union {w}
  PROVE  Cardinality(Working(j)) <= Cardinality(Working(j))' + 1
<1>1. IsFiniteSet(Working(j)') /\ Cardinality(Working(j)') \in Nat
  BY WorkingIsFiniteNext
<1>2. IsFiniteSet(Working(j)' \union {w})
  BY <1>1, FS_AddElement
<1>3. Cardinality(Working(j)) <= Cardinality(Working(j)' \union {w})
  BY <1>2, FS_Subset
<1>4. /\ Cardinality(Working(j)' \union {w}) \in Nat
      /\ Cardinality(Working(j)' \union {w}) <= Cardinality(Working(j)') + 1
  <2>1. Cardinality(Working(j)' \union {w}) =
          IF w \in Working(j)' THEN Cardinality(Working(j)') ELSE Cardinality(Working(j)') + 1
    BY <1>1, FS_AddElement
  <2>2. QED
    BY <1>1, <2>1
<1>5. Cardinality(Working(j)) \in Nat
  BY WorkingIsFinite
<1>6. QED
  BY <1>1, <1>3, <1>4, <1>5

LEMMA NoneLess ==
  ASSUME NEW j \in Jobs, Working(j) \subseteq Working(j)'
  PROVE  Cardinality(Working(j)) <= Cardinality(Working(j))'
BY WorkingIsFiniteNext, FS_Subset

\* A step that opens no job, adds no attempt and takes nobody away from an open
\* one keeps the account.
LEMMA AccountIsKept ==
  ASSUME IInv, TypeOK', NEW j \in Jobs,
         attempts'[j] = attempts[j], faults'[j] = faults[j],
         \/ status'[j] \in {"absent", "done", "dead"}
         \/ attempts[j] < MaxAttempts
         \/ /\ status[j] \in {"pending", "processing"}
            /\ Working(j) \subseteq Working(j)'
  PROVE  LateClaims(j)'
<1>1. /\ attempts[j] \in Nat /\ faults[j] \in Nat /\ MaxAttempts \in Nat
      /\ LateClaims(j)
  BY ConstantsAssumption DEF IInv, TypeOK
<1>2. CASE status'[j] \in {"absent", "done", "dead"}
  BY <1>2 DEF LateClaims
<1>3. CASE attempts[j] < MaxAttempts
  BY <1>1, <1>3 DEF LateClaims
<1>4. CASE /\ status[j] \in {"pending", "processing"}
           /\ Working(j) \subseteq Working(j)'
  <2>1. /\ Cardinality(Working(j)) <= Cardinality(Working(j))'
        /\ Cardinality(Working(j)) \in Nat
        /\ Cardinality(Working(j))' \in Nat
    BY <1>4, NoneLess, WorkingIsFinite, WorkingIsFiniteNext
  <2>2. QED
    BY <1>1, <1>4, <2>1 DEF LateClaims
<1>5. QED
  BY <1>2, <1>3, <1>4

\* Attempts and faults untouched, the bound stays.
LEMMA BoundIsKept ==
  ASSUME IInv, UNCHANGED <<attempts, faults>>
  PROVE  AttemptsAreAccounted'
BY DEF IInv, AttemptsAreAccounted

-----------------------------------------------------------------------------
(* One lemma per group of actions.                                         *)

LEMMA InitEstablishes == Init => IInv
<1> SUFFICES ASSUME Init PROVE IInv
  OBVIOUS
<1>1. TypeOK
  BY DEF Init, TypeOK, Statuses, Stages
<1>2. HoldsWhenBusy /\ AbsentIsUntried /\ DecidedOnce /\ DoneMeansDecided
  BY ConstantsAssumption
     DEF Init, HoldsWhenBusy, AbsentIsUntried, DecidedOnce, DoneMeansDecided
<1>3. \A j \in Jobs : LateClaims(j)
  BY DEF Init, LateClaims
<1>4. AttemptsAreAccounted
  <2>1. ASSUME NEW j \in Jobs
        PROVE  attempts[j] + 1 <= MaxAttempts + Cardinality(Workers) + faults[j]
    <3>1. Cardinality(Workers) \in Nat /\ MaxAttempts \in Nat /\ MaxAttempts >= 1
      BY ConstantsAssumption, FS_CardinalityType
    <3>2. attempts[j] = 0 /\ faults[j] = 0
      BY DEF Init
    <3>3. QED
      BY <3>1, <3>2
  <2>2. QED
    BY <2>1 DEF AttemptsAreAccounted
<1>5. QED
  BY <1>1, <1>2, <1>3, <1>4 DEF IInv

\* Steps of the clock and of enqueue, which touch no worker.
LEMMA ClockStep ==
  ASSUME IInv, NEW k \in Jobs, Enqueue(k) \/ RetryDue(k) \/ LockAges(k)
  PROVE  IInv'
<1> USE DEF Enqueue, RetryDue, LockAges, frame, ghosts
<1>1. TypeOK'
  BY DEF IInv, TypeOK, Statuses
<1>2. HoldsWhenBusy' /\ DecidedOnce'
  BY DEF IInv, HoldsWhenBusy, DecidedOnce
<1>7. AbsentIsUntried'
  BY DEF IInv, TypeOK, AbsentIsUntried
<1>3. DoneMeansDecided'
  BY DEF IInv, TypeOK, DoneMeansDecided
<1>4. ASSUME NEW j \in Jobs
      PROVE  LateClaims(j)'
  <2>1. Working(j)' = Working(j)
    BY DEF Working
  <2>2. CASE status'[j] = status[j]
    <3>1. CASE status[j] \in {"pending", "processing"}
      BY <1>1, <2>1, <2>2, <3>1, AccountIsKept
    <3>2. CASE status[j] \notin {"pending", "processing"}
      BY <2>2, <3>2 DEF LateClaims
    <3>3. QED
      BY <3>1, <3>2
  <2>3. CASE status'[j] # status[j]
    <3>1. attempts[j] = 0 /\ MaxAttempts \in Nat \ {0}
      BY <2>3, ConstantsAssumption DEF IInv, TypeOK, AbsentIsUntried
    <3>2. QED
      BY <1>1, <3>1, AccountIsKept
  <2>4. QED
    BY <2>2, <2>3
<1>5. AttemptsAreAccounted'
  BY BoundIsKept
<1>6. QED
  BY <1>1, <1>2, <1>3, <1>4, <1>5, <1>7 DEF IInv

\* A claim: the only step that adds an attempt.
LEMMA ClaimStep ==
  ASSUME IInv, NEW w \in Workers, NEW k \in Jobs, Claim(w, k)
  PROVE  IInv'
<1> USE DEF Claim, ghosts
<1>1. TypeOK'
  BY DEF IInv, TypeOK, Statuses, Stages
<1>2. HoldsWhenBusy'
  BY ConstantsAssumption DEF IInv, TypeOK, HoldsWhenBusy
<1>3. AbsentIsUntried' /\ DecidedOnce' /\ DoneMeansDecided'
  BY DEF IInv, TypeOK, AbsentIsUntried, DecidedOnce, DoneMeansDecided
<1>4. /\ job[w] = NoJob
      /\ \A j \in Jobs : w \notin Working(j)
  BY DEF IInv, HoldsWhenBusy, Working
<1>5. /\ Working(k)' = Working(k) \union {w}
      /\ \A j \in Jobs \ {k} : Working(j)' = Working(j)
  BY <1>4 DEF IInv, TypeOK, Working
<1>6. /\ attempts' = [attempts EXCEPT ![k] = @ + 1]
      /\ attempts'[k] = attempts[k] + 1
      /\ attempts[k] \in Nat /\ faults[k] \in Nat /\ MaxAttempts \in Nat
  BY ConstantsAssumption DEF IInv, TypeOK
<1>7. /\ Cardinality(Working(k))' = Cardinality(Working(k)) + 1
      /\ Cardinality(Working(k)) \in Nat
      /\ Cardinality(Working(k)) + 1 <= Cardinality(Workers)
      /\ Cardinality(Workers) \in Nat
  BY <1>4, <1>5, OneMore, RoomForOneMore, WorkingIsFinite
<1>8. LateClaims(k) /\ status[k] = "pending"
  BY DEF IInv
<1>9. ASSUME NEW j \in Jobs
      PROVE  LateClaims(j)'
  <2>1. CASE j = k
    BY <1>6, <1>7, <1>8, <2>1 DEF LateClaims
  <2>2. CASE j # k
    <3>1. /\ attempts'[j] = attempts[j] /\ status'[j] = status[j]
          /\ Working(j)' = Working(j) /\ LateClaims(j)
      BY <1>5, <2>2 DEF IInv, TypeOK
    <3>2. QED
      BY <3>1 DEF LateClaims
  <2>3. QED
    BY <2>1, <2>2
<1>10. attempts'[k] + 1 <= MaxAttempts + Cardinality(Workers) + faults[k]
  BY <1>6, <1>7, <1>8 DEF LateClaims
<1>11. AttemptsAreAccounted'
  BY <1>6, <1>10 DEF IInv, TypeOK, AttemptsAreAccounted
<1>12. QED
  BY <1>1, <1>2, <1>3, <1>9, <1>11 DEF IInv

\* The job is completed: decided now, or nothing to decide.
LEMMA CompleteStep ==
  ASSUME IInv, NEW w \in Workers, Decide(w) \/ Skip(w)
  PROVE  IInv'
<1> USE DEF Decide, Skip, Complete, Goto, ghosts
<1>1. PICK k \in Jobs : k = job[w]
  BY DEF IInv, TypeOK, HoldsWhenBusy
<1>2. TypeOK'
  <2>1. CASE Decide(w)
    BY <2>1 DEF IInv, TypeOK, Statuses, Stages
  <2>2. CASE Skip(w)
    BY <2>2 DEF IInv, TypeOK, Statuses, Stages
  <2>3. QED
    BY <2>1, <2>2
<1>3. HoldsWhenBusy'
  BY DEF IInv, TypeOK, HoldsWhenBusy
<1>4. AbsentIsUntried'
  BY <1>1 DEF IInv, TypeOK, AbsentIsUntried
<1>5. DecidedOnce'
  BY <1>1 DEF IInv, TypeOK, DecidedOnce
<1>6. DoneMeansDecided'
  BY <1>1 DEF IInv, TypeOK, DecidedOnce, DoneMeansDecided
<1>7. ASSUME NEW j \in Jobs
      PROVE  LateClaims(j)'
  <2>1. CASE j = k
    BY <1>1, <2>1 DEF IInv, TypeOK, LateClaims
  <2>2. CASE j # k
    <3>1. /\ status'[j] = status[j] /\ Working(j)' = Working(j) /\ LateClaims(j)
      BY <1>1, <2>2 DEF IInv, TypeOK, Working
    <3>2. QED
      BY <3>1 DEF LateClaims
  <2>3. QED
    BY <2>1, <2>2
<1>8. AttemptsAreAccounted'
  BY BoundIsKept DEF ghosts
<1>9. QED
  BY <1>2, <1>3, <1>4, <1>5, <1>6, <1>7, <1>8 DEF IInv

\* Steps of a worker that leave the table of jobs alone.
LEMMA LocalStep ==
  ASSUME IInv, NEW w \in Workers,
         Rollback(w) \/ Return(w) \/ Raise(w)
  PROVE  IInv'
<1> USE DEF Rollback, Return, Raise, Goto, Release, rows, ghosts
<1>1. PICK k \in Jobs : k = job[w]
  BY DEF IInv, TypeOK, HoldsWhenBusy
<1>2. TypeOK'
  <2>1. CASE Rollback(w) \/ Raise(w)
    BY <2>1 DEF IInv, TypeOK, Stages
  <2>2. CASE Return(w)
    BY <2>2 DEF IInv, TypeOK, Stages
  <2>3. QED
    BY <2>1, <2>2
<1>3. HoldsWhenBusy'
  BY ConstantsAssumption DEF IInv, TypeOK, HoldsWhenBusy
<1>4. AbsentIsUntried' /\ DecidedOnce' /\ DoneMeansDecided'
  BY DEF IInv, AbsentIsUntried, DecidedOnce, DoneMeansDecided
<1>5. ASSUME NEW j \in Jobs
      PROVE  LateClaims(j)'
  <2>1. Working(j) \subseteq Working(j)'
    BY DEF IInv, TypeOK, Working
  <2>2. CASE status[j] \in {"pending", "processing"}
    BY <1>2, <2>1, <2>2, AccountIsKept
  <2>3. CASE status[j] \notin {"pending", "processing"}
    BY <2>3 DEF LateClaims
  <2>4. QED
    BY <2>2, <2>3
<1>6. AttemptsAreAccounted'
  BY BoundIsKept
<1>7. QED
  BY <1>2, <1>3, <1>4, <1>5, <1>6 DEF IInv

\* The except clause: with no attempts left the job is closed.
LEMMA FailsStep ==
  ASSUME IInv, NEW w \in Workers, Fails(w)
  PROVE  IInv'
<1> USE DEF Fails, Fail, Release, ghosts
<1>1. PICK k \in Jobs : k = job[w]
  BY DEF IInv, TypeOK, HoldsWhenBusy
<1>2. TypeOK'
  BY <1>1 DEF IInv, TypeOK, Statuses, Stages
<1>3. HoldsWhenBusy'
  BY ConstantsAssumption DEF IInv, TypeOK, HoldsWhenBusy
<1>4. AbsentIsUntried' /\ DecidedOnce' /\ DoneMeansDecided'
  BY <1>1 DEF IInv, TypeOK, AbsentIsUntried, DecidedOnce, DoneMeansDecided
<1>5. ASSUME NEW j \in Jobs
      PROVE  LateClaims(j)'
  <2>1. CASE j = k
    <3>1. attempts[j] \in Nat /\ MaxAttempts \in Nat
      BY ConstantsAssumption DEF IInv, TypeOK
    <3>2. status'[j] = "dead" \/ attempts[j] < MaxAttempts
      BY <1>1, <2>1, <3>1 DEF IInv, TypeOK
    <3>3. QED
      BY <1>2, <3>2, AccountIsKept
  <2>2. CASE j # k
    <3>1. /\ status'[j] = status[j] /\ Working(j)' = Working(j) /\ LateClaims(j)
      BY <1>1, <2>2, ConstantsAssumption DEF IInv, TypeOK, Working
    <3>2. QED
      BY <3>1 DEF LateClaims
  <2>3. QED
    BY <2>1, <2>2
<1>6. AttemptsAreAccounted'
  BY BoundIsKept
<1>7. QED
  BY <1>2, <1>3, <1>4, <1>5, <1>6 DEF IInv

LEMMA SweepStep ==
  ASSUME IInv, NEW w \in Workers, Sweep(w)
  PROVE  IInv'
<1> USE DEF Sweep, Stale, ghosts
<1>1. TypeOK'
  BY DEF IInv, TypeOK, Statuses
<1>2. HoldsWhenBusy' /\ AbsentIsUntried' /\ DecidedOnce' /\ DoneMeansDecided'
  BY DEF IInv, HoldsWhenBusy, AbsentIsUntried, DecidedOnce, DoneMeansDecided
<1>3. ASSUME NEW j \in Jobs
      PROVE  LateClaims(j)'
  <2>1. Working(j) \subseteq Working(j)'
    BY DEF Working
  <2>2. CASE status[j] \in {"pending", "processing"}
    BY <1>1, <2>1, <2>2, AccountIsKept
  <2>3. CASE status[j] \notin {"pending", "processing"}
    BY <2>3 DEF LateClaims
  <2>4. QED
    BY <2>2, <2>3
<1>4. AttemptsAreAccounted'
  BY BoundIsKept
<1>5. QED
  BY <1>1, <1>2, <1>3, <1>4 DEF IInv

\* A fault takes a worker away and is counted in its place.
LEMMA LoseStep ==
  ASSUME IInv, NEW w \in Workers, Lose(w)
  PROVE  IInv'
<1> USE DEF Lose, Release, rows
<1>1. PICK k \in Jobs : k = job[w]
  BY DEF IInv, TypeOK, HoldsWhenBusy
<1>2. TypeOK'
  <2>1. sweepDue' \in [Workers -> BOOLEAN]
    BY DEF IInv, TypeOK
  <2>2. pc' \in [Workers -> Stages] /\ job' \in [Workers -> Jobs \union {NoJob}]
    BY DEF IInv, TypeOK, Stages
  <2>3. faults' \in [Jobs -> Nat]
    BY <1>1 DEF IInv, TypeOK
  <2>4. UNCHANGED <<rows, decided, skipped>>
    OBVIOUS
  <2>5. QED
    BY <2>1, <2>2, <2>3, <2>4 DEF IInv, TypeOK
<1>3. HoldsWhenBusy'
  BY ConstantsAssumption DEF IInv, TypeOK, HoldsWhenBusy
<1>4. AbsentIsUntried' /\ DecidedOnce' /\ DoneMeansDecided'
  BY DEF IInv, AbsentIsUntried, DecidedOnce, DoneMeansDecided
<1>5. /\ Working(k) \subseteq Working(k)' \union {w}
      /\ \A j \in Jobs \ {k} : Working(j) \subseteq Working(j)'
  BY <1>1 DEF IInv, TypeOK, Working
<1>6. /\ faults'[k] = faults[k] + 1
      /\ \A j \in Jobs \ {k} : faults'[j] = faults[j]
      /\ \A j \in Jobs : faults[j] \in Nat /\ attempts[j] \in Nat
      /\ MaxAttempts \in Nat
  BY <1>1, ConstantsAssumption DEF IInv, TypeOK
<1>7. ASSUME NEW j \in Jobs
      PROVE  LateClaims(j)'
  <2>1. CASE j = k
    <3>1. /\ Cardinality(Working(k)) <= Cardinality(Working(k))' + 1
          /\ Cardinality(Working(k)) \in Nat
          /\ Cardinality(Working(k))' \in Nat
      BY <1>5, AtMostOneLess, WorkingIsFinite, WorkingIsFiniteNext
    <3>2. LateClaims(k)
      BY DEF IInv
    <3>3. QED
      BY <1>6, <2>1, <3>1, <3>2 DEF LateClaims
  <2>2. CASE j # k
    <3>1. CASE status[j] \in {"pending", "processing"}
      BY <1>2, <1>5, <1>6, <2>2, <3>1, AccountIsKept
    <3>2. CASE status[j] \notin {"pending", "processing"}
      BY <3>2 DEF LateClaims
    <3>3. QED
      BY <3>1, <3>2
  <2>3. QED
    BY <2>1, <2>2
<1>8. AttemptsAreAccounted'
  <2>1. ASSUME NEW j \in Jobs
        PROVE  attempts[j] + 1 <= MaxAttempts + Cardinality(Workers) + faults'[j]
    <3>1. /\ attempts[j] + 1 <= MaxAttempts + Cardinality(Workers) + faults[j]
          /\ Cardinality(Workers) \in Nat
      BY WorkingIsFinite DEF IInv, AttemptsAreAccounted
    <3>2. faults'[j] = faults[j] \/ faults'[j] = faults[j] + 1
      BY <1>6
    <3>3. QED
      BY <1>6, <3>1, <3>2
  <2>2. QED
    BY <2>1 DEF AttemptsAreAccounted
<1>9. QED
  BY <1>2, <1>3, <1>4, <1>7, <1>8 DEF IInv

\* The time since a worker last swept, and an idle worker started again.
LEMMA IdleStep ==
  ASSUME IInv, NEW w \in Workers, SweepFallsDue(w) \/ Restart(w)
  PROVE  IInv'
<1> USE DEF SweepFallsDue, Restart, rows, ghosts
<1>1. TypeOK' /\ HoldsWhenBusy' /\ AbsentIsUntried'
  BY DEF IInv, TypeOK, HoldsWhenBusy, AbsentIsUntried
<1>2. DecidedOnce' /\ DoneMeansDecided' /\ AttemptsAreAccounted'
  BY DEF IInv, DecidedOnce, DoneMeansDecided, AttemptsAreAccounted
<1>3. \A j \in Jobs : LateClaims(j)'
  BY DEF IInv, LateClaims, Working
<1>4. QED
  BY <1>1, <1>2, <1>3 DEF IInv

LEMMA StutterStep ==
  ASSUME IInv, UNCHANGED vars
  PROVE  IInv'
<1> USE DEF vars, rows, frame, ghosts
<1>1. TypeOK' /\ HoldsWhenBusy' /\ AbsentIsUntried'
  BY DEF IInv, TypeOK, HoldsWhenBusy, AbsentIsUntried
<1>2. DecidedOnce' /\ DoneMeansDecided' /\ AttemptsAreAccounted'
  BY DEF IInv, DecidedOnce, DoneMeansDecided, AttemptsAreAccounted
<1>3. \A j \in Jobs : LateClaims(j)'
  BY DEF IInv, LateClaims, Working
<1>4. QED
  BY <1>1, <1>2, <1>3 DEF IInv

LEMMA NextPreserves == IInv /\ [Next]_vars => IInv'
<1> SUFFICES ASSUME IInv, [Next]_vars PROVE IInv'
  OBVIOUS
<1>1. ASSUME NEW w \in Workers, Work(w) PROVE IInv'
  BY <1>1, ClaimStep, LocalStep, CompleteStep, FailsStep, SweepStep DEF Work
<1>2. ASSUME NEW w \in Workers, Lose(w) PROVE IInv'
  BY <1>2, LoseStep
<1>3. ASSUME NEW j \in Jobs, Enqueue(j) \/ RetryDue(j) \/ LockAges(j) PROVE IInv'
  BY <1>3, ClockStep
<1>4. ASSUME NEW w \in Workers, SweepFallsDue(w) \/ Restart(w) PROVE IInv'
  BY <1>4, IdleStep
<1>5. CASE UNCHANGED vars
  BY <1>5, StutterStep
<1>6. QED
  BY <1>1, <1>2, <1>3, <1>4, <1>5 DEF Next, Live

-----------------------------------------------------------------------------
(* The theorems.                                                           *)

\* The inductive invariant holds in every reachable state.
THEOREM Invariance == Spec => []IInv
BY InitEstablishes, NextPreserves, PTL DEF Spec

\* The variables stay in their types: no job gets a status the queue does not
\* know, and the counters only count.
THEOREM TypeCorrect == Spec => []TypeOK
<1>1. IInv => TypeOK
  BY DEF IInv
<1>2. QED
  BY <1>1, Invariance, PTL

\* A job that is done was decided or needed no decision.
THEOREM NothingIsClosedUnseen == Spec => []DoneMeansDecided
<1>1. IInv => DoneMeansDecided
  BY DEF IInv
<1>2. QED
  BY <1>1, Invariance, PTL

\* The attempts of a job exceed max_attempts by no more than the workers and the
\* faults account for, though release_stale never looks at them.
THEOREM AttemptsAreBounded == Spec => []AttemptsAreAccounted
<1>1. IInv => AttemptsAreAccounted
  BY DEF IInv
<1>2. QED
  BY <1>1, Invariance, PTL

\* A closed job that nobody holds any more stays as it is.
THEOREM ClosedStays == Spec => ClosedIsLeftAlone
<1>1. ASSUME IInv, [Next]_vars, NEW j \in Jobs,
             status[j] \in {"done", "dead"}, Holders(j) = {}
      PROVE  status'[j] = status[j]
  <2>1. TypeOK /\ \A w \in Workers : job[w] # j
    BY <1>1 DEF IInv, Holders
  <2>2. CASE \E w \in Workers : Work(w)
    <3>1. PICK w \in Workers : Work(w)
      BY <2>2
    <3>2. CASE \E k \in Jobs : Claim(w, k)
      BY <1>1, <2>1, <3>2 DEF Claim, TypeOK
    <3>3. CASE Rollback(w) \/ Return(w) \/ Raise(w)
      BY <3>3 DEF Rollback, Return, Raise, rows
    <3>4. CASE Decide(w) \/ Skip(w)
      BY <2>1, <3>4 DEF Decide, Skip, Complete, TypeOK
    <3>5. CASE Fails(w)
      BY <2>1, <3>5 DEF Fails, Fail, TypeOK
    <3>6. CASE Sweep(w)
      BY <1>1, <3>6 DEF Sweep, Stale
    <3>7. QED
      BY <3>1, <3>2, <3>3, <3>4, <3>5, <3>6 DEF Work
  <2>3. CASE \E w \in Workers : Lose(w) \/ SweepFallsDue(w) \/ Restart(w)
    BY <2>3 DEF Lose, SweepFallsDue, Restart, rows
  <2>4. CASE \E k \in Jobs : Enqueue(k) \/ RetryDue(k) \/ LockAges(k)
    BY <1>1, <2>1, <2>4 DEF Enqueue, RetryDue, LockAges, TypeOK
  <2>5. CASE UNCHANGED vars
    BY <2>5 DEF vars, rows
  <2>6. QED
    BY <1>1, <2>2, <2>3, <2>4, <2>5 DEF Next, Live
<1>2. IInv /\ [Next]_vars =>
        [\A j \in Jobs :
           /\ status[j] \in {"done", "dead"}
           /\ Holders(j) = {}
           => status'[j] = status[j]]_vars
  BY <1>1
<1>3. QED
  BY <1>2, Invariance, PTL DEF Spec, ClosedIsLeftAlone

-----------------------------------------------------------------------------
(* The promise, step by step.                                              *)

StateOf(s) == IF s \in {"pending", "processing"} THEN "open" ELSE s
States == [j \in Jobs |-> StateOf(status[j])]

\* A job that somebody holds was tried; one that was given up has no tries left.
HeldIsTried == \A w \in Workers : job[w] # NoJob => attempts[job[w]] > 0
DeadIsTried == \A j \in Jobs : status[j] = "dead" => attempts[j] >= MaxAttempts

TriesInv == IInv /\ HeldIsTried /\ DeadIsTried

\* The tries of a job are only counted up, and its status is "dead" only by the
\* hand of fail, when they are used up.
LEMMA TriesAreKept ==
  ASSUME TriesInv, [Next]_vars
  PROVE  HeldIsTried' /\ DeadIsTried'
<1> USE ConstantsAssumption DEF TriesInv, IInv, TypeOK
<1>1. ASSUME NEW w \in Workers, NEW j \in Jobs, Claim(w, j) PROVE HeldIsTried' /\ DeadIsTried'
  <2>1. /\ attempts'[j] = attempts[j] + 1 /\ status'[j] = "processing" /\ job'[w] = j
        /\ \A k \in Jobs : k # j => attempts'[k] = attempts[k] /\ status'[k] = status[k]
        /\ \A v \in Workers : v # w => job'[v] = job[v]
    BY <1>1 DEF Claim
  <2>2. QED
    BY <2>1 DEF HeldIsTried, DeadIsTried
<1>2. ASSUME NEW w \in Workers,
             \/ Decide(w) \/ Skip(w) \/ Rollback(w) \/ Return(w) \/ Raise(w) \/ Fails(w)
             \/ Sweep(w) \/ SweepFallsDue(w) \/ Lose(w) \/ Restart(w)
      PROVE  HeldIsTried' /\ DeadIsTried'
  <2>1. attempts' = attempts /\ \A v \in Workers : job'[v] \in {job[v], NoJob}
    BY <1>2 DEF Decide, Skip, Complete, Rollback, Return, Raise, Fails, Fail, Sweep, SweepFallsDue,
              Lose, Restart, Goto, Release, rows
  <2>2. \A j \in Jobs : status'[j] = "dead" => status[j] = "dead" \/ attempts[j] >= MaxAttempts
    BY <1>2 DEF Decide, Skip, Complete, Rollback, Return, Raise, Fails, Fail, Sweep, SweepFallsDue,
              Lose, Restart, rows
  <2>3. QED
    BY <2>1, <2>2 DEF HeldIsTried, DeadIsTried
<1>3. ASSUME NEW j \in Jobs, Enqueue(j) \/ RetryDue(j) \/ LockAges(j)
      PROVE  HeldIsTried' /\ DeadIsTried'
  BY <1>3 DEF Enqueue, RetryDue, LockAges, frame, HeldIsTried, DeadIsTried
<1>4. CASE UNCHANGED vars
  BY <1>4 DEF vars, rows, frame, HeldIsTried, DeadIsTried
<1>5. QED
  BY <1>1, <1>2, <1>3, <1>4 DEF Next, Live, Work

LEMMA TriesInvariance == Spec => []TriesInv
<1>1. Init => HeldIsTried /\ DeadIsTried
  BY DEF Init, HeldIsTried, DeadIsTried
<1>2. IInv /\ HeldIsTried /\ DeadIsTried /\ [Next]_vars => HeldIsTried' /\ DeadIsTried'
  BY TriesAreKept DEF TriesInv
<1>3. IInv /\ HeldIsTried /\ DeadIsTried => TriesInv
  BY DEF TriesInv
<1>4. QED
  BY <1>1, <1>2, <1>3, Invariance, PTL DEF Spec

\* The states follow the statuses.
LEMMA StatesStay ==
  ASSUME \A j \in Jobs : StateOf(status'[j]) = StateOf(status[j])
  PROVE  States' = States
BY DEF States

LEMMA OneStateMoves ==
  ASSUME TypeOK, NEW j \in Jobs, NEW s, status' = [status EXCEPT ![j] = s]
  PROVE  States' = [States EXCEPT ![j] = StateOf(s)]
BY DEF States, TypeOK

\* A worker with its job.
LEMMA HolderPromise ==
  ASSUME TriesInv, NEW w \in Workers, Decide(w) \/ Skip(w) \/ Fails(w)
  PROVE  [Promise!Next]_(Promise!vars)
<1> USE ConstantsAssumption DEF TriesInv, IInv, TypeOK
<1>1. PICK j : j = job[w]
  OBVIOUS
<1>2. j \in Jobs /\ attempts[j] > 0
  BY <1>1 DEF HoldsWhenBusy, HeldIsTried, Decide, Skip, Fails
<1>3. CASE Decide(w)
  <2>1. States' = [States EXCEPT ![j] = "done"]
    BY <1>1, <1>2, <1>3, OneStateMoves DEF Decide, Complete, StateOf
  <2>2. Promise!Decide(j)
    BY <1>1, <1>2, <1>3, <2>1 DEF Decide, ghosts, Promise!Decide, States, StateOf
  <2>3. QED
    BY <1>2, <2>2 DEF Promise!Next
<1>4. CASE Skip(w)
  <2>1. States' = [States EXCEPT ![j] = "done"]
    BY <1>1, <1>2, <1>4, OneStateMoves DEF Skip, Complete, StateOf
  <2>2. Promise!Skip(j)
    BY <1>1, <1>2, <1>4, <2>1 DEF Skip, Promise!Skip, States, StateOf
  <2>3. QED
    BY <1>2, <2>2 DEF Promise!Next
<1>5. CASE Fails(w)
  <2>1. UNCHANGED <<attempts, decided, skipped>>
    BY <1>5 DEF Fails, ghosts
  <2>2. CASE attempts[j] >= MaxAttempts
    <3>1. States' = [States EXCEPT ![j] = "dead"]
      BY <1>1, <1>2, <1>5, <2>2, OneStateMoves DEF Fails, Fail, StateOf
    <3>2. Promise!GiveUp(j)
      BY <2>1, <2>2, <3>1 DEF Promise!GiveUp, States, StateOf
    <3>3. QED
      BY <1>2, <3>2 DEF Promise!Next
  <2>3. CASE ~ attempts[j] >= MaxAttempts
    <3>1. States' = [States EXCEPT ![j] = "open"]
      BY <1>1, <1>2, <1>5, <2>3, OneStateMoves DEF Fails, Fail, StateOf
    <3>2. status[j] \in {"pending", "processing", "done"}
      BY <1>2, <2>3 DEF DeadIsTried, AbsentIsUntried, Statuses
    <3>3. CASE status[j] = "done"
      <4>1. Promise!Reopen(j)
        BY <1>2, <2>1, <2>3, <3>1, <3>3 DEF Promise!Reopen, States, StateOf
      <4>2. QED
        BY <1>2, <4>1 DEF Promise!Next
    <3>4. CASE status[j] # "done"
      <4>1. States' = States
        BY <1>2, <3>1, <3>2, <3>4 DEF States, StateOf
      <4>2. QED
        BY <2>1, <4>1 DEF Promise!vars, States, StateOf
    <3>5. QED
      BY <3>3, <3>4
  <2>4. QED
    BY <2>2, <2>3
<1>6. QED
  BY <1>3, <1>4, <1>5

\* Steps in which no holder closes or reopens its job.
LEMMA OtherPromise ==
  ASSUME TriesInv,
         \/ \E w \in Workers : Rollback(w) \/ Return(w) \/ Raise(w) \/ Sweep(w) \/ SweepFallsDue(w)
         \/ \E w \in Workers : Lose(w) \/ Restart(w)
         \/ \E j \in Jobs : RetryDue(j) \/ LockAges(j)
         \/ UNCHANGED vars
  PROVE  UNCHANGED Promise!vars
<1> USE DEF TriesInv, IInv, TypeOK
<1>1. UNCHANGED <<attempts, decided, skipped>>
  BY DEF Rollback, Return, Raise, Sweep, SweepFallsDue, Lose, Restart, RetryDue, LockAges,
         vars, rows, ghosts
<1>2. \A j \in Jobs : StateOf(status'[j]) = StateOf(status[j])
  BY DEF Rollback, Return, Raise, Sweep, SweepFallsDue, Stale, Lose, Restart, RetryDue, LockAges,
         vars, rows, StateOf
<1>3. States' = States
  BY <1>2, StatesStay
<1>4. QED
  BY <1>1, <1>3 DEF Promise!vars, States, StateOf

LEMMA AskOrTry ==
  ASSUME TriesInv, NEW j \in Jobs, Enqueue(j) \/ \E w \in Workers : Claim(w, j)
  PROVE  Promise!Next
<1> USE DEF TriesInv, IInv, TypeOK
<1>1. CASE Enqueue(j)
  <2>1. States' = [States EXCEPT ![j] = "open"]
    BY <1>1, OneStateMoves DEF Enqueue, StateOf
  <2>2. Promise!Ask(j)
    BY <1>1, <2>1 DEF Enqueue, ghosts, Promise!Ask, States, StateOf
  <2>3. QED
    BY <2>2 DEF Promise!Next
<1>2. CASE \E w \in Workers : Claim(w, j)
  <2>1. /\ status[j] = "pending" /\ status' = [status EXCEPT ![j] = "processing"]
        /\ attempts' = [attempts EXCEPT ![j] = @ + 1] /\ UNCHANGED <<decided, skipped>>
    BY <1>2 DEF Claim, ghosts
  <2>2. States' = States
    BY <2>1 DEF States, StateOf
  <2>3. Promise!Try(j)
    BY <2>1, <2>2 DEF Promise!Try, States, StateOf
  <2>4. QED
    BY <2>3 DEF Promise!Next
<1>3. QED
  BY <1>1, <1>2

\* The queue implements its promise: a message is decided at most once, a job is
\* done only if it was decided or skipped, opened again only with attempts left,
\* and not taken up again once it was given up (jobs/queue.py 83-125).
THEOREM ImplementsPromise == Spec => JobKeepsPromise
<1>1. Init => Promise!Init
  BY DEF Init, Promise!Init
<1>2. TriesInv /\ [Next]_vars => [Promise!Next]_(Promise!vars)
  <2> SUFFICES ASSUME TriesInv, [Next]_vars PROVE [Promise!Next]_(Promise!vars)
    OBVIOUS
  <2>1. ASSUME NEW w \in Workers, Work(w) \/ SweepFallsDue(w) \/ Lose(w) \/ Restart(w)
        PROVE [Promise!Next]_(Promise!vars)
    BY <2>1, HolderPromise, OtherPromise, AskOrTry DEF Work
  <2>2. ASSUME NEW j \in Jobs, Enqueue(j) \/ RetryDue(j) \/ LockAges(j) PROVE [Promise!Next]_(Promise!vars)
    BY <2>2, OtherPromise, AskOrTry
  <2>3. CASE UNCHANGED vars
    BY <2>3, OtherPromise
  <2>4. QED
    BY <2>1, <2>2, <2>3 DEF Next, Live
<1>3. QED
  BY <1>1, <1>2, TriesInvariance, PTL DEF Spec, JobKeepsPromise, Promise!Spec

------------------------------------------------------------------------------
(***************************************************************************)
(* The migrations.  A statement does to the objects what it does whatever  *)
(* rows there are: the rows only decide whether it is refused.  So every   *)
(* revision that is reached has the objects that building it from nothing  *)
(* gives, if the way down from it gives back those of the one before: an   *)
(* object that the way up only puts, into a place that was free, and the   *)
(* way down only takes.  The three checks that are rewritten are neither,  *)
(* and need to be known at the revisions in between.                       *)
(***************************************************************************)

(* Lists of statements run one after the other                             *)
LEMMA RunGoes ==
  ASSUME NEW s, NEW ops, Len(ops) \in Nat
  PROVE  /\ Run(s, ops)[0] = s
         /\ \A k \in 1 .. Len(ops) : Run(s, ops)[k] = Statement(Run(s, ops)[k - 1], ops[k])
<1> DEFINE n == Len(ops)
           Goes(f, k) == IF k = 0 THEN s ELSE Statement(f[k - 1], ops[k])
           Upto(f, m) == f = [k \in 0 .. m |-> Goes(f, k)]
           P == {m \in 0 .. n : \E f : Upto(f, m)}
<1>1. Run(s, ops) = CHOOSE f : Upto(f, n)
  BY DEF Run
<1>2. 0 \in P
  <2>1. PICK f : f = [k \in 0 .. 0 |-> s]
    OBVIOUS
  <2>2. Upto(f, 0)
    BY <2>1
  <2> HIDE DEF Upto
  <2> QED BY <2>2
<1>3. ASSUME NEW m \in 1 .. n, m - 1 \in P PROVE m \in P
  <2>1. PICK f : Upto(f, m - 1)
    BY <1>3
  <2>2. PICK top : top = Goes(f, m)
    OBVIOUS
  <2>3. PICK g : g = [k \in 0 .. m |-> IF k = m THEN top ELSE f[k]]
    OBVIOUS
  <2>4. \A k \in 0 .. (m - 1) : g[k] = f[k] /\ k # m
    BY <2>3
  <2>5. \A k \in 0 .. m : Goes(g, k) = Goes(f, k)
    <3> SUFFICES ASSUME NEW k \in 0 .. m, k # 0 PROVE g[k - 1] = f[k - 1]
      OBVIOUS
    <3>1. k - 1 \in 0 .. (m - 1)
      OBVIOUS
    <3> QED BY <3>1, <2>4
  <2>6. \A k \in 0 .. (m - 1) : f[k] = Goes(f, k)
    BY <2>1
  <2>7. \A k \in 0 .. m : g[k] = Goes(g, k)
    <3> SUFFICES ASSUME NEW k \in 0 .. m PROVE g[k] = Goes(g, k)
      OBVIOUS
    <3> HIDE DEF Goes
    <3>1. CASE k = m
      BY <3>1, <2>2, <2>3, <2>5
    <3>2. CASE k # m
      <4>1. k \in 0 .. (m - 1)
        BY <3>2
      <4> QED BY <4>1, <2>4, <2>5, <2>6
    <3> QED BY <3>1, <3>2
  <2>8. Upto(g, m)
    <3> HIDE DEF Goes
    <3>1. DOMAIN g = 0 .. m /\ g = [k \in DOMAIN g |-> g[k]]
      BY <2>3
    <3> QED BY <3>1, <2>7
  <2> HIDE DEF Upto
  <2> QED BY <2>8
<1>4. Upto(Run(s, ops), n)
  <2> HIDE DEF Upto
  <2>1. P = 0 .. n
    <3>1. P \in SUBSET (0 .. n)
      OBVIOUS
    <3> HIDE DEF P
    <3> QED BY <1>2, <1>3, <3>1, PlaceInduction
  <2>2. n \in P
    BY <2>1
  <2> QED BY <1>1, <2>2
<1>5. \A k \in 0 .. n : Run(s, ops)[k] = Goes(Run(s, ops), k)
  <2> HIDE DEF Goes
  <2> QED BY <1>4
<1> QED BY <1>5

LEMMA RevisionsGo ==
  ASSUME NEW s, NEW lists, Len(lists) \in Nat
  PROVE  /\ Revisions(s, lists)[0] = s
         /\ \A k \in 1 .. Len(lists) : Revisions(s, lists)[k] = Statements(Revisions(s, lists)[k - 1], lists[k])
<1> DEFINE n == Len(lists)
           Goes(f, k) == IF k = 0 THEN s ELSE Statements(f[k - 1], lists[k])
           Upto(f, m) == f = [k \in 0 .. m |-> Goes(f, k)]
           P == {m \in 0 .. n : \E f : Upto(f, m)}
<1>1. Revisions(s, lists) = CHOOSE f : Upto(f, n)
  BY DEF Revisions
<1>2. 0 \in P
  <2>1. PICK f : f = [k \in 0 .. 0 |-> s]
    OBVIOUS
  <2>2. Upto(f, 0)
    BY <2>1
  <2> HIDE DEF Upto
  <2> QED BY <2>2
<1>3. ASSUME NEW m \in 1 .. n, m - 1 \in P PROVE m \in P
  <2>1. PICK f : Upto(f, m - 1)
    BY <1>3
  <2>2. PICK top : top = Goes(f, m)
    OBVIOUS
  <2>3. PICK g : g = [k \in 0 .. m |-> IF k = m THEN top ELSE f[k]]
    OBVIOUS
  <2>4. \A k \in 0 .. (m - 1) : g[k] = f[k] /\ k # m
    BY <2>3
  <2>5. \A k \in 0 .. m : Goes(g, k) = Goes(f, k)
    <3> SUFFICES ASSUME NEW k \in 0 .. m, k # 0 PROVE g[k - 1] = f[k - 1]
      OBVIOUS
    <3>1. k - 1 \in 0 .. (m - 1)
      OBVIOUS
    <3> QED BY <3>1, <2>4
  <2>6. \A k \in 0 .. (m - 1) : f[k] = Goes(f, k)
    BY <2>1
  <2>7. \A k \in 0 .. m : g[k] = Goes(g, k)
    <3> SUFFICES ASSUME NEW k \in 0 .. m PROVE g[k] = Goes(g, k)
      OBVIOUS
    <3> HIDE DEF Goes
    <3>1. CASE k = m
      BY <3>1, <2>2, <2>3, <2>5
    <3>2. CASE k # m
      <4>1. k \in 0 .. (m - 1)
        BY <3>2
      <4> QED BY <4>1, <2>4, <2>5, <2>6
    <3> QED BY <3>1, <3>2
  <2>8. Upto(g, m)
    <3> HIDE DEF Goes
    <3>1. DOMAIN g = 0 .. m /\ g = [k \in DOMAIN g |-> g[k]]
      BY <2>3
    <3> QED BY <3>1, <2>7
  <2> HIDE DEF Upto
  <2> QED BY <2>8
<1>4. Upto(Revisions(s, lists), n)
  <2> HIDE DEF Upto
  <2>1. P = 0 .. n
    <3>1. P \in SUBSET (0 .. n)
      OBVIOUS
    <3> HIDE DEF P
    <3> QED BY <1>2, <1>3, <3>1, PlaceInduction
  <2>2. n \in P
    BY <2>1
  <2> QED BY <1>1, <2>2
<1>5. \A k \in 0 .. n : Revisions(s, lists)[k] = Goes(Revisions(s, lists), k)
  <2> HIDE DEF Goes
  <2> QED BY <1>4
<1> QED BY <1>5

LEMMA OneStatement ==
  ASSUME NEW s, NEW op
  PROVE  /\ ~s.ok => Statement(s, op) = s
         /\ s.ok => /\ Statement(s, op).db = DbAfter(s.db, op)
                    /\ DOMAIN Statement(s, op).rows = RowIds
                    /\ \A i \in RowIds : Statement(s, op).rows[i] = RowAfter(s.rows[i], op)
                    /\ Statement(s, op).ok <=> Allowed(s, op)
BY DEF Statement

LEMMA AllWentWell ==
  ASSUME NEW s, NEW ops, Len(ops) \in Nat, Statements(s, ops).ok
  PROVE  /\ \A k \in 0 .. Len(ops) : Run(s, ops)[k].ok
         /\ \A k \in 1 .. Len(ops) :
              /\ Allowed(Run(s, ops)[k - 1], ops[k])
              /\ Run(s, ops)[k].db = DbAfter(Run(s, ops)[k - 1].db, ops[k])
              /\ DOMAIN Run(s, ops)[k].rows = RowIds
              /\ \A i \in RowIds : Run(s, ops)[k].rows[i] = RowAfter(Run(s, ops)[k - 1].rows[i], ops[k])
<1>0. PICK n \in Nat : n = Len(ops)
  OBVIOUS
<1> DEFINE r == Run(s, ops)
           P == {k \in 0 .. n : r[n - k].ok}
<1>1. \A k \in 1 .. n : r[k] = Statement(r[k - 1], ops[k])
  BY <1>0, RunGoes
<1>2. r[n].ok
  BY <1>0 DEF Statements
<1> HIDE DEF r
<1>3. \A k \in 1 .. n : r[k].ok => r[k - 1].ok
  BY <1>1, OneStatement
<1>4. P = 0 .. n
  <2>1. 0 \in P
    BY <1>2
  <2>2. ASSUME NEW k \in 1 .. n, k - 1 \in P PROVE k \in P
    <3>1. PICK j \in 1 .. n : j = n - (k - 1)
      OBVIOUS
    <3>2. r[j].ok /\ j - 1 = n - k
      BY <2>2, <3>1
    <3> QED BY <3>2, <1>3
  <2>3. P \in SUBSET (0 .. n)
    OBVIOUS
  <2> HIDE DEF P
  <2> QED BY <2>1, <2>2, <2>3, PlaceInduction
<1>5. ASSUME NEW k \in 0 .. n PROVE r[k].ok
  <2>1. n - k \in 0 .. n /\ n - (n - k) = k
    OBVIOUS
  <2>2. n - k \in P
    <3> HIDE DEF P
    <3> QED BY <1>4, <2>1
  <2>3. r[n - (n - k)].ok
    BY <2>2
  <2> QED BY <2>1, <2>3
<1>6. ASSUME NEW k \in 1 .. n
      PROVE  /\ Allowed(r[k - 1], ops[k])
             /\ r[k].db = DbAfter(r[k - 1].db, ops[k])
             /\ DOMAIN r[k].rows = RowIds
             /\ \A i \in RowIds : r[k].rows[i] = RowAfter(r[k - 1].rows[i], ops[k])
  <2>1. k \in 0 .. n /\ k - 1 \in 0 .. n
    OBVIOUS
  <2>2. r[k - 1].ok /\ r[k].ok /\ r[k] = Statement(r[k - 1], ops[k])
    BY <1>1, <1>5, <2>1
  <2>3. PICK x : x = r[k - 1]
    OBVIOUS
  <2>4. x.ok /\ Statement(x, ops[k]).ok /\ r[k] = Statement(x, ops[k])
    BY <2>2, <2>3
  <2>5. /\ Statement(x, ops[k]).db = DbAfter(x.db, ops[k])
        /\ DOMAIN Statement(x, ops[k]).rows = RowIds
        /\ \A i \in RowIds : Statement(x, ops[k]).rows[i] = RowAfter(x.rows[i], ops[k])
        /\ Allowed(x, ops[k])
    BY <2>4, OneStatement
  <2> QED BY <2>3, <2>4, <2>5
<1> QED BY <1>0, <1>5, <1>6 DEF r

(* The rows decide whether a statement is refused, never what it does to   *)
(* the objects: where a list of statements ran over some rows it also runs *)
(* over none.                                                              *)
NoRows(s) == \A i \in RowIds : s.rows[i] = NoRow

LEMMA RowsOnlyRefuse ==
  ASSUME NEW s, NEW t, NEW ops, Len(ops) \in Nat,
         s.db = t.db, t.ok, NoRows(t), Statements(s, ops).ok
  PROVE  Statements(t, ops).db = Statements(s, ops).db /\ Statements(t, ops).ok /\ NoRows(Statements(t, ops))
<1>0. PICK n \in Nat : n = Len(ops)
  OBVIOUS
<1> DEFINE r == Run(s, ops)
           e == Run(t, ops)
           P == {k \in 0 .. n : e[k].ok /\ e[k].db = r[k].db /\ NoRows(e[k])}
<1>1. r[0] = s /\ e[0] = t /\ \A k \in 1 .. n : e[k] = Statement(e[k - 1], ops[k])
  BY <1>0, RunGoes
<1>2. \A k \in 1 .. n : Allowed(r[k - 1], ops[k]) /\ r[k].db = DbAfter(r[k - 1].db, ops[k])
  BY <1>0, AllWentWell
<1> HIDE DEF r, e
<1>3. 0 \in P
  BY <1>1
<1>4. ASSUME NEW k \in 1 .. n, k - 1 \in P PROVE k \in P
  <2>1. PICK x : x = e[k - 1]
    OBVIOUS
  <2>2. PICK y : y = r[k - 1]
    OBVIOUS
  <2>3. PICK op : op = ops[k]
    OBVIOUS
  <2>4. x.ok /\ x.db = y.db /\ NoRows(x) /\ Allowed(y, op)
    BY <1>2, <1>4, <2>1, <2>2, <2>3
  <2>5. Allowed(x, op)
    BY <2>4 DEF Allowed, NoRows
  <2>6. PICK z : z = Statement(x, op)
    OBVIOUS
  <2>7. z.ok /\ z.db = DbAfter(x.db, op) /\ \A i \in RowIds : z.rows[i] = RowAfter(x.rows[i], op)
    BY <2>4, <2>5, <2>6, OneStatement
  <2>8. NoRows(z)
    <3> SUFFICES ASSUME NEW i \in RowIds PROVE z.rows[i] = NoRow
      BY DEF NoRows
    <3>1. z.rows[i] = RowAfter(NoRow, op)
      BY <2>4, <2>7 DEF NoRows
    <3>2. RowAfter(NoRow, op) = NoRow
      BY DEF RowAfter
    <3> QED BY <3>1, <3>2
  <2>9. e[k] = z /\ r[k].db = DbAfter(y.db, op)
    BY <1>1, <1>2, <2>1, <2>2, <2>3, <2>6
  <2>10. e[k].ok /\ e[k].db = r[k].db /\ NoRows(e[k])
    BY <2>4, <2>7, <2>8, <2>9
  <2> QED BY <2>10
<1>5. n \in P
  <2>1. P \in SUBSET (0 .. n)
    OBVIOUS
  <2> HIDE DEF P
  <2> QED BY <1>3, <1>4, <2>1, PlaceInduction
<1> QED BY <1>0, <1>5 DEF Statements, r, e

------------------------------------------------------------------------------
(* What a statement touches, and what it may put                           *)
Touches(op, o) == (Puts(op) \/ Takes(op)) /\ Meant(op, o)

IsSound(op) ==
  /\ Puts(op) => \A o \in op.parts : Meant(op, o)
  /\ op.do = "remove" => op.kind # "table"
  /\ op.do = "update" => op.to[1] = op.row[1]

AreSound(ops) == Len(ops) \in Nat /\ \A k \in 1 .. Len(ops) : IsSound(ops[k])

LEMMA UntouchedStays ==
  ASSUME NEW db, NEW op, IsSound(op), NEW o, ~Touches(op, o)
  PROVE  o \in DbAfter(db, op) <=> o \in db
<1>1. CASE Puts(op)
  BY <1>1 DEF DbAfter, IsSound, Touches
<1>2. CASE Takes(op) /\ ~Puts(op)
  BY <1>2 DEF DbAfter, Touches
<1>3. CASE ~Takes(op) /\ ~Puts(op)
  BY <1>3 DEF DbAfter
<1> QED BY <1>1, <1>2, <1>3

(* From place j on, nothing happens to an object that is no more touched   *)
LEMMA Settled ==
  ASSUME NEW s, NEW ops, AreSound(ops), Statements(s, ops).ok, NEW o,
         NEW j \in 0 .. Len(ops), \A k \in j + 1 .. Len(ops) : ~Touches(ops[k], o)
  PROVE  o \in Statements(s, ops).db <=> o \in Run(s, ops)[j].db
<1>0. PICK n \in Nat : n = Len(ops)
  BY DEF AreSound
<1> DEFINE r == Run(s, ops)
           P == {k \in 0 .. n : k >= j => (o \in r[k].db <=> o \in r[j].db)}
<1>1. \A k \in 1 .. n : r[k].db = DbAfter(r[k - 1].db, ops[k]) /\ IsSound(ops[k])
  BY <1>0, AllWentWell DEF AreSound
<1> HIDE DEF r
<1>2. 0 \in P
  BY <1>0
<1>3. ASSUME NEW k \in 1 .. n, k - 1 \in P PROVE k \in P
  <2>1. CASE k <= j
    BY <2>1, <1>0
  <2>2. CASE k > j
    <3>1. k \in j + 1 .. n /\ k - 1 >= j
      BY <2>2, <1>0
    <3>2. o \in r[k - 1].db <=> o \in r[j].db
      BY <1>3, <3>1
    <3>3. ~Touches(ops[k], o)
      BY <1>0, <3>1
    <3>4. o \in DbAfter(r[k - 1].db, ops[k]) <=> o \in r[k - 1].db
      BY <1>1, <3>3, UntouchedStays
    <3> QED BY <3>2, <3>4, <1>1
  <2> QED BY <2>1, <2>2, <1>0
<1>4. n \in P
  <2>1. P \in SUBSET (0 .. n)
    OBVIOUS
  <2> HIDE DEF P
  <2> QED BY <1>2, <1>3, <2>1, PlaceInduction
<1>5. o \in r[n].db <=> o \in r[j].db
  BY <1>0, <1>4
<1> QED BY <1>0, <1>5 DEF Statements, r

LEMMA Untouched ==
  ASSUME NEW s, NEW ops, AreSound(ops), Statements(s, ops).ok, NEW o,
         \A k \in 1 .. Len(ops) : ~Touches(ops[k], o)
  PROVE  o \in Statements(s, ops).db <=> o \in s.db
<1>1. Len(ops) \in Nat /\ Run(s, ops)[0] = s
  BY RunGoes DEF AreSound
<1>2. 0 \in 0 .. Len(ops) /\ \A k \in 0 + 1 .. Len(ops) : k \in 1 .. Len(ops)
  BY <1>1
<1> QED BY <1>1, <1>2, Settled

(* The last statement that touches an object puts it there, or not         *)
LEMMA LastPut ==
  ASSUME NEW s, NEW ops, AreSound(ops), Statements(s, ops).ok, NEW o,
         NEW j \in 1 .. Len(ops), Puts(ops[j]), Touches(ops[j], o),
         \A k \in j + 1 .. Len(ops) : ~Touches(ops[k], o)
  PROVE  o \in Statements(s, ops).db <=> o \in ops[j].parts
<1>1. Len(ops) \in Nat /\ j \in 0 .. Len(ops)
  BY DEF AreSound
<1>2. o \in Statements(s, ops).db <=> o \in Run(s, ops)[j].db
  BY <1>1, Settled
<1>3. PICK db : db = Run(s, ops)[j - 1].db
  OBVIOUS
<1>4. Run(s, ops)[j].db = DbAfter(db, ops[j]) /\ Allowed(Run(s, ops)[j - 1], ops[j])
  BY <1>1, <1>3, AllWentWell
<1>5. o \notin db
  BY <1>3, <1>4 DEF Allowed, Touches
<1>6. DbAfter(db, ops[j]) = db \cup ops[j].parts
  BY DEF DbAfter, Puts, Takes, Touches
<1> QED BY <1>2, <1>4, <1>5, <1>6

(* Going up an object is put once, into a place that was free ...          *)
LEMMA PutOnce ==
  ASSUME NEW s, NEW ops, AreSound(ops), Statements(s, ops).ok, NEW o,
         \A k \in 1 .. Len(ops) : Touches(ops[k], o) => Puts(ops[k])
  PROVE  o \in s.db <=> /\ o \in Statements(s, ops).db
                        /\ \A k \in 1 .. Len(ops) : ~Touches(ops[k], o)
<1>0. PICK n \in Nat : n = Len(ops)
  BY DEF AreSound
<1> DEFINE r == Run(s, ops)
           P == {k \in 0 .. n : (\E i \in 1 .. k : Touches(ops[i], o)) => o \notin s.db}
<1>1. \A k \in 1 .. n : Allowed(r[k - 1], ops[k])
  BY <1>0, AllWentWell
<1>2. r[0] = s
  BY <1>0, RunGoes
<1>3. \A k \in 1 .. n : (\A i \in 1 .. k - 1 : ~Touches(ops[i], o)) /\ Touches(ops[k], o) => o \notin s.db
  <2> SUFFICES ASSUME NEW k \in 1 .. n, \A i \in 1 .. k - 1 : ~Touches(ops[i], o), Touches(ops[k], o)
               PROVE  o \notin s.db
    OBVIOUS
  <2>1. o \notin r[k - 1].db
    BY <1>0, <1>1 DEF Allowed, Touches
  <2> DEFINE Q == {j \in 0 .. k - 1 : o \in r[j].db <=> o \in s.db}
  <2>2. k - 1 \in Nat /\ \A j \in 1 .. k - 1 : j \in 1 .. n
    OBVIOUS
  <2>3. 0 \in Q
    BY <1>2, <2>2
  <2>4. ASSUME NEW j \in 1 .. k - 1, j - 1 \in Q PROVE j \in Q
    <3>1. r[j].db = DbAfter(r[j - 1].db, ops[j]) /\ IsSound(ops[j]) /\ ~Touches(ops[j], o)
      BY <1>0, <2>2, AllWentWell DEF AreSound
    <3>2. o \in DbAfter(r[j - 1].db, ops[j]) <=> o \in r[j - 1].db
      BY <3>1, UntouchedStays
    <3> HIDE DEF r
    <3> QED BY <3>1, <3>2, <2>4
  <2>5. k - 1 \in Q
    <3>1. Q \in SUBSET (0 .. k - 1)
      OBVIOUS
    <3> HIDE DEF Q
    <3>2. Q = 0 .. k - 1
      BY <2>2, <2>3, <2>4, <3>1, PlaceInduction
    <3> QED BY <2>2, <3>2
  <2> HIDE DEF r
  <2> QED BY <2>1, <2>5
<1> HIDE DEF r
<1>4. 0 \in P
  OBVIOUS
<1>5. ASSUME NEW k \in 1 .. n, k - 1 \in P PROVE k \in P
  <2>1. \A i \in 1 .. k : i = k \/ i \in 1 .. k - 1
    OBVIOUS
  <2>2. (\E i \in 1 .. k - 1 : Touches(ops[i], o)) => o \notin s.db
    BY <1>5
  <2> QED BY <1>3, <2>1, <2>2
<1>6. (\E i \in 1 .. n : Touches(ops[i], o)) => o \notin s.db
  <2>1. P \in SUBSET (0 .. n)
    OBVIOUS
  <2>2. n \in P
    <3> HIDE DEF P
    <3> QED BY <1>4, <1>5, <2>1, PlaceInduction
  <2> QED BY <2>2
<1>7. CASE \A k \in 1 .. n : ~Touches(ops[k], o)
  BY <1>0, <1>7, Untouched
<1> QED BY <1>0, <1>6, <1>7

(* ... and going down it is taken for good.                                *)
LEMMA TakenAway ==
  ASSUME NEW s, NEW ops, AreSound(ops), Statements(s, ops).ok, NEW o,
         \A k \in 1 .. Len(ops) : Touches(ops[k], o) => Takes(ops[k])
  PROVE  o \in Statements(s, ops).db <=> /\ o \in s.db
                                         /\ \A k \in 1 .. Len(ops) : ~Touches(ops[k], o)
<1>0. PICK n \in Nat : n = Len(ops)
  BY DEF AreSound
<1> DEFINE r == Run(s, ops)
<1>1. CASE \A k \in 1 .. n : ~Touches(ops[k], o)
  BY <1>0, <1>1, Untouched
<1>2. CASE \E k \in 1 .. n : Touches(ops[k], o)
  <2> DEFINE P == {k \in 0 .. n : (\E i \in 1 .. k : Touches(ops[i], o)) => o \notin r[k].db}
  <2>1. 0 \in P
    OBVIOUS
  <2>2. ASSUME NEW k \in 1 .. n, k - 1 \in P PROVE k \in P
    <3>1. r[k].db = DbAfter(r[k - 1].db, ops[k]) /\ IsSound(ops[k])
      BY <1>0, AllWentWell DEF AreSound
    <3> HIDE DEF r
    <3>2. \A i \in 1 .. k : i = k \/ i \in 1 .. k - 1
      OBVIOUS
    <3>3. CASE Touches(ops[k], o)
      <4>1. Takes(ops[k]) /\ Meant(ops[k], o) /\ ~Puts(ops[k])
        BY <1>0, <3>3 DEF Touches, Takes, Puts
      <4>2. o \notin DbAfter(r[k - 1].db, ops[k])
        BY <4>1 DEF DbAfter
      <4> QED BY <3>1, <4>2
    <3>4. CASE ~Touches(ops[k], o)
      <4>1. o \in DbAfter(r[k - 1].db, ops[k]) <=> o \in r[k - 1].db
        BY <3>1, <3>4, UntouchedStays
      <4>2. (\E i \in 1 .. k - 1 : Touches(ops[i], o)) => o \notin r[k - 1].db
        BY <2>2
      <4> QED BY <3>1, <3>2, <3>4, <4>1, <4>2
    <3> QED BY <3>3, <3>4
  <2>3. n \in P
    <3>1. P \in SUBSET (0 .. n)
      OBVIOUS
    <3> HIDE DEF P
    <3> QED BY <2>1, <2>2, <3>1, PlaceInduction
  <2>4. o \notin r[n].db
    BY <1>2, <2>3
  <2> QED BY <1>0, <1>2, <2>4 DEF Statements
<1> QED BY <1>1, <1>2

(* So the way down undoes the way up, of an object that the one only puts  *)
(* and the other only takes.                                               *)
AreTouched(ops, o) == \E k \in 1 .. Len(ops) : Touches(ops[k], o)

IsMirrored(ups, downs, o) ==
  /\ \A k \in 1 .. Len(ups) : Touches(ups[k], o) => Puts(ups[k])
  /\ \A k \in 1 .. Len(downs) : Touches(downs[k], o) => Takes(downs[k])
  /\ AreTouched(ups, o) <=> AreTouched(downs, o)

LEMMA MirroredIsUndone ==
  ASSUME NEW s, NEW ups, AreSound(ups), Statements(s, ups).ok,
         NEW t, NEW downs, AreSound(downs), Statements(t, downs).ok,
         t.db = Statements(s, ups).db, NEW o, IsMirrored(ups, downs, o)
  PROVE  o \in Statements(t, downs).db <=> o \in s.db
<1>1. o \in s.db <=> o \in Statements(s, ups).db /\ ~AreTouched(ups, o)
  BY PutOnce DEF AreTouched, IsMirrored
<1>2. o \in Statements(t, downs).db <=> o \in t.db /\ ~AreTouched(downs, o)
  BY TakenAway DEF AreTouched, IsMirrored
<1> QED BY <1>1, <1>2 DEF IsMirrored

------------------------------------------------------------------------------
(* Rows stay in tables that are there, and fit their checks                *)
RowsHold(s) ==
  /\ DOMAIN s.rows = RowIds
  /\ \A i \in RowIds : s.rows[i] # NoRow => <<"table", s.rows[i][1]>> \in s.db /\ IsChecked(s.rows[i], s.db)

LEMMA RowStillHolds ==
  ASSUME NEW s, NEW op, IsSound(op), Allowed(s, op), NEW i \in RowIds,
         NEW r, NEW to, r = s.rows[i], to = RowAfter(r, op), to # NoRow,
         r # NoRow => <<"table", r[1]>> \in s.db /\ IsChecked(r, s.db)
  PROVE  <<"table", to[1]>> \in DbAfter(s.db, op) /\ IsChecked(to, DbAfter(s.db, op))
<1>0. PICK db : db = s.db
  OBVIOUS
<1>1. r # NoRow
  BY DEF RowAfter
<1>2. <<"table", r[1]>> \in db /\ IsChecked(r, db)
  BY <1>0, <1>1
<1>3. CASE op.do = "create"
  <2>1. to = r
    BY <1>3 DEF RowAfter
  <2>2. ~Meant(op, <<"table", r[1]>>)
    BY <1>0, <1>2, <1>3 DEF Allowed, Puts
  <2>3. r[1] # op.table
    <3>1. <<"table", r[1]>>[2] = r[1]
      OBVIOUS
    <3> QED BY <2>2, <3>1, <1>3 DEF Meant
  <2>4. \A o \in op.parts : Fits(r, o)
    BY <2>3, <1>3 DEF Fits, IsSound, Puts, Meant
  <2>5. DbAfter(db, op) = db \cup op.parts
    BY <1>3 DEF DbAfter, Puts, Takes
  <2> QED BY <1>0, <1>2, <2>1, <2>4, <2>5 DEF IsChecked
<1>4. CASE op.do = "add"
  <2>1. to = r
    BY <1>4 DEF RowAfter
  <2>2. IsChecked(r, op.parts)
    BY <1>1, <1>4 DEF Allowed
  <2>3. DbAfter(db, op) = db \cup op.parts
    BY <1>4 DEF DbAfter, Puts, Takes
  <2> QED BY <1>0, <1>2, <2>1, <2>2, <2>3 DEF IsChecked
<1>5. CASE op.do = "drop"
  <2>1. to = r /\ r[1] # op.table
    BY <1>1, <1>5 DEF RowAfter
  <2>2. DbAfter(db, op) = {o \in db : ~Meant(op, o)}
    BY <1>5 DEF DbAfter, Puts, Takes
  <2>3. ~Meant(op, <<"table", r[1]>>)
    <3>1. <<"table", r[1]>>[2] = r[1]
      OBVIOUS
    <3> QED BY <2>1, <3>1 DEF Meant
  <2> QED BY <1>0, <1>2, <2>1, <2>2, <2>3 DEF IsChecked
<1>6. CASE op.do = "remove"
  <2>1. to = r
    BY <1>6 DEF RowAfter
  <2>2. DbAfter(db, op) = {o \in db : ~Meant(op, o)}
    BY <1>6 DEF DbAfter, Puts, Takes
  <2>3. ~Meant(op, <<"table", r[1]>>)
    <3>1. <<"table", r[1]>>[1] = "table"
      OBVIOUS
    <3> QED BY <1>6, <3>1 DEF Meant, IsSound
  <2> QED BY <1>0, <1>2, <2>1, <2>2, <2>3 DEF IsChecked
<1>7. CASE op.do = "update"
  <2>1. DbAfter(db, op) = db
    BY <1>7 DEF DbAfter, Puts, Takes
  <2>2. CASE r = op.row
    <3>1. to = op.to /\ to[1] = r[1]
      BY <1>1, <1>7, <2>2 DEF RowAfter, IsSound
    <3>2. IsChecked(to, db)
      BY <1>0, <1>1, <1>7, <2>2, <3>1 DEF Allowed
    <3> QED BY <1>0, <1>2, <2>1, <3>1, <3>2
  <2>3. CASE r # op.row
    <3>1. to = r
      BY <1>7, <2>3 DEF RowAfter
    <3> QED BY <1>0, <1>2, <2>1, <3>1
  <2> QED BY <2>2, <2>3
<1>8. CASE op.do \notin {"create", "add", "drop", "remove", "update"}
  <2>1. DbAfter(db, op) = db /\ to = r
    BY <1>8 DEF DbAfter, Puts, Takes, RowAfter
  <2> QED BY <1>0, <1>2, <2>1
<1> QED BY <1>3, <1>4, <1>5, <1>6, <1>7, <1>8

LEMMA RowsStillHold ==
  ASSUME NEW s, NEW ops, AreSound(ops), Statements(s, ops).ok, RowsHold(s)
  PROVE  RowsHold(Statements(s, ops))
<1>0. PICK n \in Nat : n = Len(ops)
  BY DEF AreSound
<1> DEFINE r == Run(s, ops)
           P == {k \in 0 .. n : RowsHold(r[k])}
<1>1. 0 \in P
  BY <1>0, RunGoes
<1>2. ASSUME NEW k \in 1 .. n, k - 1 \in P PROVE k \in P
  <2>1. PICK x : x = r[k - 1]
    OBVIOUS
  <2>2. PICK y : y = r[k]
    OBVIOUS
  <2>3. PICK op : op = ops[k]
    OBVIOUS
  <2>4. /\ IsSound(op) /\ Allowed(x, op) /\ y.db = DbAfter(x.db, op) /\ DOMAIN y.rows = RowIds
        /\ \A i \in RowIds : y.rows[i] = RowAfter(x.rows[i], op)
    BY <1>0, <2>1, <2>2, <2>3, AllWentWell DEF AreSound
  <2>5. RowsHold(x)
    BY <1>2, <2>1
  <2>6. RowsHold(y)
    <3> SUFFICES ASSUME NEW i \in RowIds, y.rows[i] # NoRow
                 PROVE  <<"table", y.rows[i][1]>> \in y.db /\ IsChecked(y.rows[i], y.db)
      BY <2>4 DEF RowsHold
    <3>1. PICK from : from = x.rows[i]
      OBVIOUS
    <3>2. PICK to : to = y.rows[i]
      OBVIOUS
    <3>3. from # NoRow => <<"table", from[1]>> \in x.db /\ IsChecked(from, x.db)
      BY <2>5, <3>1 DEF RowsHold
    <3>4. to = RowAfter(from, op) /\ to # NoRow
      BY <2>4, <3>1, <3>2
    <3>5. <<"table", to[1]>> \in DbAfter(x.db, op) /\ IsChecked(to, DbAfter(x.db, op))
      BY <2>4, <3>1, <3>3, <3>4, RowStillHolds
    <3> QED BY <2>4, <3>2, <3>5
  <2> HIDE DEF r
  <2> QED BY <2>2, <2>6
<1>3. n \in P
  <2>1. P \in SUBSET (0 .. n)
    OBVIOUS
  <2> HIDE DEF P
  <2> QED BY <1>1, <1>2, <2>1, PlaceInduction
<1> QED BY <1>0, <1>3 DEF Statements

------------------------------------------------------------------------------
(* The statements of the migrations, one constructor at a time             *)
LEMMA ACreate ==
  ASSUME NEW t, NEW columns, NEW refs, NEW names, NEW checks, NEW op, op = NewTable(t, columns, refs, names, checks)
  PROVE  Puts(op) /\ ~Takes(op) /\ IsSound(op) /\ \A o : Touches(op, o) <=> o[2] = t
<1>1. op.do = "create" /\ op.table = t
  BY DEF NewTable
<1>2. Puts(op) /\ ~Takes(op) /\ \A o : Meant(op, o) <=> o[2] = t
  BY <1>1 DEF Puts, Takes, Meant
<1>3. \A o \in op.parts : o[2] = t
  BY DEF NewTable, Columns, ValueCheck
<1> QED BY <1>1, <1>2, <1>3 DEF IsSound, Touches

LEMMA ADrop ==
  ASSUME NEW t, NEW op, op = DropTable(t)
  PROVE  Takes(op) /\ ~Puts(op) /\ IsSound(op) /\ \A o : Touches(op, o) <=> o[2] = t
BY DEF DropTable, Puts, Takes, Meant, Touches, IsSound

LEMMA AnAdd ==
  ASSUME NEW part, NEW op, op = AddPart(part)
  PROVE  /\ Puts(op) /\ ~Takes(op) /\ IsSound(op)
         /\ \A o : Touches(op, o) <=> o[2] = part[2] /\ o[1] = part[1] /\ o[3] = part[3]
BY DEF AddPart, Puts, Takes, Meant, Touches, IsSound

LEMMA ARemove ==
  ASSUME NEW kind, NEW t, NEW name, NEW op, op = TakeAway(kind, t, name)
  PROVE  /\ Takes(op) /\ ~Puts(op)
         /\ kind # "table" => IsSound(op)
         /\ \A o : Touches(op, o) <=> o[2] = t /\ o[1] = kind /\ o[3] = name
BY DEF TakeAway, Puts, Takes, Meant, Touches, IsSound

LEMMA ADelete ==
  ASSUME NEW t, NEW c, NEW v, NEW op, op = DeleteRow(t, c, v)
  PROVE  ~Puts(op) /\ ~Takes(op) /\ IsSound(op) /\ \A o : ~Touches(op, o)
BY DEF DeleteRow, Puts, Takes, Touches, IsSound

LEMMA AnUpdate ==
  ASSUME NEW t, NEW c, NEW v, NEW w, NEW op, op = UpdateRow(t, c, v, w)
  PROVE  ~Puts(op) /\ ~Takes(op) /\ IsSound(op) /\ \A o : ~Touches(op, o)
BY DEF UpdateRow, Puts, Takes, Touches, IsSound

------------------------------------------------------------------------------
(* The migrations, list by list                                            *)
IsCheck(t, name, o) == o[1] = "check" /\ o[2] = t /\ o[3] = name

(* The check that migration k replaces by another *)
IsRewritten(k, o) ==
  \/ k \in {8, 9} /\ IsCheck("message_media", "ck_message_media_kind", o)
  \/ k = 14 /\ IsCheck("model_usage", "ck_model_usage_purpose", o)
  \/ k = 16 /\ IsCheck("drafts", "ck_draft_status", o)

LEMMA SixteenMigrations ==
  /\ Newest = 16 /\ Newest \in Nat
  /\ Migrations[1].up = FirstTables /\ Migrations[1].down = FirstTablesUndone
  /\ Migrations[2].up = KnowledgeTables /\ Migrations[2].down = KnowledgeTablesUndone
  /\ Migrations[3].up = AiTables /\ Migrations[3].down = AiTablesUndone
  /\ Migrations[4].up = ResolvedBy /\ Migrations[4].down = ResolvedByUndone
  /\ Migrations[5].up = MemoryTables /\ Migrations[5].down = MemoryTablesUndone
  /\ Migrations[6].up = PanelTables /\ Migrations[6].down = PanelTablesUndone
  /\ Migrations[7].up = FileTables /\ Migrations[7].down = FileTablesUndone
  /\ Migrations[8].up = Pictures /\ Migrations[8].down = PicturesUndone
  /\ Migrations[9].up = Voices /\ Migrations[9].down = VoicesUndone
  /\ Migrations[10].up = UsageTable /\ Migrations[10].down = UsageTableUndone
  /\ Migrations[11].up = OutboxTable /\ Migrations[11].down = OutboxTableUndone
  /\ Migrations[12].up = HeartBeats /\ Migrations[12].down = HeartBeatsUndone
  /\ Migrations[13].up = PartsSent /\ Migrations[13].down = PartsSentUndone
  /\ Migrations[14].up = Expansion /\ Migrations[14].down = ExpansionUndone
  /\ Migrations[15].up = DraftRevision /\ Migrations[15].down = DraftRevisionUndone
  /\ Migrations[16].up = InChat /\ Migrations[16].down = InChatUndone
BY DEF Migrations, Newest

LEMMA ListsAreSound ==
  /\ AreSound(FirstTables) /\ AreSound(FirstTablesUndone)
  /\ AreSound(KnowledgeTables) /\ AreSound(KnowledgeTablesUndone)
  /\ AreSound(AiTables) /\ AreSound(AiTablesUndone)
  /\ AreSound(ResolvedBy) /\ AreSound(ResolvedByUndone)
  /\ AreSound(MemoryTables) /\ AreSound(MemoryTablesUndone)
  /\ AreSound(PanelTables) /\ AreSound(PanelTablesUndone)
  /\ AreSound(FileTables) /\ AreSound(FileTablesUndone)
  /\ AreSound(Pictures) /\ AreSound(PicturesUndone)
  /\ AreSound(Voices) /\ AreSound(VoicesUndone)
  /\ AreSound(UsageTable) /\ AreSound(UsageTableUndone)
  /\ AreSound(OutboxTable) /\ AreSound(OutboxTableUndone)
  /\ AreSound(HeartBeats) /\ AreSound(HeartBeatsUndone)
  /\ AreSound(PartsSent) /\ AreSound(PartsSentUndone)
  /\ AreSound(Expansion) /\ AreSound(ExpansionUndone)
  /\ AreSound(DraftRevision) /\ AreSound(DraftRevisionUndone)
  /\ AreSound(InChat) /\ AreSound(InChatUndone)
<1> USE ACreate, ADrop, AnAdd, ARemove, ADelete, AnUpdate DEF AreSound
<1>1. AreSound(FirstTables) /\ AreSound(FirstTablesUndone)
  BY DEF FirstTables, FirstTablesUndone
<1>2. AreSound(KnowledgeTables) /\ AreSound(KnowledgeTablesUndone)
  BY DEF KnowledgeTables, KnowledgeTablesUndone
<1>3. AreSound(AiTables) /\ AreSound(AiTablesUndone)
  BY DEF AiTables, AiTablesUndone
<1>4. AreSound(ResolvedBy) /\ AreSound(ResolvedByUndone)
  BY DEF ResolvedBy, ResolvedByUndone
<1>5. AreSound(MemoryTables) /\ AreSound(MemoryTablesUndone)
  BY DEF MemoryTables, MemoryTablesUndone
<1>6. AreSound(PanelTables) /\ AreSound(PanelTablesUndone)
  BY DEF PanelTables, PanelTablesUndone
<1>7. AreSound(FileTables) /\ AreSound(FileTablesUndone)
  BY DEF FileTables, FileTablesUndone
<1>8. AreSound(Pictures) /\ AreSound(PicturesUndone)
  BY DEF Pictures, PicturesUndone, Rewrite
<1>9. AreSound(Voices) /\ AreSound(VoicesUndone)
  BY DEF Voices, VoicesUndone, Rewrite
<1>10. AreSound(UsageTable) /\ AreSound(UsageTableUndone)
  BY DEF UsageTable, UsageTableUndone
<1>11. AreSound(OutboxTable) /\ AreSound(OutboxTableUndone)
  BY DEF OutboxTable, OutboxTableUndone
<1>12. AreSound(HeartBeats) /\ AreSound(HeartBeatsUndone)
  BY DEF HeartBeats, HeartBeatsUndone
<1>13. AreSound(PartsSent) /\ AreSound(PartsSentUndone)
  BY DEF PartsSent, PartsSentUndone
<1>14. AreSound(Expansion) /\ AreSound(ExpansionUndone)
  BY DEF Expansion, ExpansionUndone, Rewrite
<1>15. AreSound(DraftRevision) /\ AreSound(DraftRevisionUndone)
  BY DEF DraftRevision, DraftRevisionUndone
<1>16. AreSound(InChat) /\ AreSound(InChatUndone)
  BY DEF InChat, InChatUndone
<1> QED BY <1>1, <1>2, <1>3, <1>4, <1>5, <1>6, <1>7, <1>8, <1>9, <1>10, <1>11, <1>12, <1>13, <1>14, <1>15, <1>16

LEMMA MigrationsAreSound ==
  \A k \in 1 .. 16 : AreSound(Migrations[k].up) /\ AreSound(Migrations[k].down)
BY ListsAreSound, SixteenMigrations

LEMMA FirstTablesMirrored == \A o : IsMirrored(FirstTables, FirstTablesUndone, o)
BY ACreate, ADrop, AnAdd, ARemove, ADelete, AnUpdate DEF IsMirrored, AreTouched, FirstTables, FirstTablesUndone

LEMMA KnowledgeTablesMirrored == \A o : IsMirrored(KnowledgeTables, KnowledgeTablesUndone, o)
BY ACreate, ADrop, AnAdd, ARemove, ADelete, AnUpdate DEF IsMirrored, AreTouched, KnowledgeTables, KnowledgeTablesUndone

LEMMA AiTablesMirrored == \A o : IsMirrored(AiTables, AiTablesUndone, o)
BY ACreate, ADrop, AnAdd, ARemove, ADelete, AnUpdate DEF ValueCheck, IsMirrored, AreTouched, AiTables, AiTablesUndone

LEMMA ResolvedByMirrored == \A o : IsMirrored(ResolvedBy, ResolvedByUndone, o)
BY ACreate, ADrop, AnAdd, ARemove, ADelete, AnUpdate DEF IsMirrored, AreTouched, ResolvedBy, ResolvedByUndone

LEMMA MemoryTablesMirrored == \A o : IsMirrored(MemoryTables, MemoryTablesUndone, o)
BY ACreate, ADrop, AnAdd, ARemove, ADelete, AnUpdate DEF IsMirrored, AreTouched, MemoryTables, MemoryTablesUndone

LEMMA PanelTablesMirrored == \A o : IsMirrored(PanelTables, PanelTablesUndone, o)
BY ACreate, ADrop, AnAdd, ARemove, ADelete, AnUpdate DEF IsMirrored, AreTouched, PanelTables, PanelTablesUndone

LEMMA FileTablesMirrored == \A o : IsMirrored(FileTables, FileTablesUndone, o)
BY ACreate, ADrop, AnAdd, ARemove, ADelete, AnUpdate DEF IsMirrored, AreTouched, FileTables, FileTablesUndone

LEMMA PicturesMirrored == \A o : ~IsCheck("message_media", "ck_message_media_kind", o) => IsMirrored(Pictures, PicturesUndone, o)
BY ACreate, ADrop, AnAdd, ARemove, ADelete, AnUpdate DEF Rewrite, ValueCheck, IsCheck, IsMirrored, AreTouched, Pictures, PicturesUndone

LEMMA VoicesMirrored == \A o : ~IsCheck("message_media", "ck_message_media_kind", o) => IsMirrored(Voices, VoicesUndone, o)
BY ACreate, ADrop, AnAdd, ARemove, ADelete, AnUpdate DEF Rewrite, ValueCheck, IsCheck, IsMirrored, AreTouched, Voices, VoicesUndone

LEMMA UsageTableMirrored == \A o : IsMirrored(UsageTable, UsageTableUndone, o)
BY ACreate, ADrop, AnAdd, ARemove, ADelete, AnUpdate DEF IsMirrored, AreTouched, UsageTable, UsageTableUndone

LEMMA OutboxTableMirrored == \A o : IsMirrored(OutboxTable, OutboxTableUndone, o)
BY ACreate, ADrop, AnAdd, ARemove, ADelete, AnUpdate DEF IsMirrored, AreTouched, OutboxTable, OutboxTableUndone

LEMMA HeartBeatsMirrored == \A o : IsMirrored(HeartBeats, HeartBeatsUndone, o)
BY ACreate, ADrop, AnAdd, ARemove, ADelete, AnUpdate DEF IsMirrored, AreTouched, HeartBeats, HeartBeatsUndone

LEMMA PartsSentMirrored == \A o : IsMirrored(PartsSent, PartsSentUndone, o)
BY ACreate, ADrop, AnAdd, ARemove, ADelete, AnUpdate DEF IsMirrored, AreTouched, PartsSent, PartsSentUndone

LEMMA ExpansionMirrored == \A o : ~IsCheck("model_usage", "ck_model_usage_purpose", o) => IsMirrored(Expansion, ExpansionUndone, o)
BY ACreate, ADrop, AnAdd, ARemove, ADelete, AnUpdate DEF Rewrite, ValueCheck, IsCheck, IsMirrored, AreTouched, Expansion, ExpansionUndone

LEMMA DraftRevisionMirrored == \A o : IsMirrored(DraftRevision, DraftRevisionUndone, o)
BY ACreate, ADrop, AnAdd, ARemove, ADelete, AnUpdate DEF IsMirrored, AreTouched, DraftRevision, DraftRevisionUndone

LEMMA InChatMirrored == \A o : ~IsCheck("drafts", "ck_draft_status", o) => IsMirrored(InChat, InChatUndone, o)
BY ACreate, ADrop, AnAdd, ARemove, ADelete, AnUpdate DEF Rewrite, ValueCheck, IsCheck, IsMirrored, AreTouched, InChat, InChatUndone

LEMMA MigrationsAreMirrored ==
  ASSUME NEW k \in 1 .. 16, NEW o, ~IsRewritten(k, o)
  PROVE  IsMirrored(Migrations[k].up, Migrations[k].down, o)
<1>1. CASE k \in 1 .. 7
  BY <1>1, SixteenMigrations, FirstTablesMirrored, KnowledgeTablesMirrored, AiTablesMirrored, ResolvedByMirrored,
     MemoryTablesMirrored, PanelTablesMirrored, FileTablesMirrored
<1>2. CASE k \in {8, 9, 14, 16}
  BY <1>2, SixteenMigrations, PicturesMirrored, VoicesMirrored, ExpansionMirrored, InChatMirrored DEF IsRewritten
<1>3. CASE k \in {10, 11, 12, 13, 15}
  BY <1>3, SixteenMigrations, UsageTableMirrored, OutboxTableMirrored, HeartBeatsMirrored, PartsSentMirrored,
     DraftRevisionMirrored
<1> QED BY <1>1, <1>2, <1>3

------------------------------------------------------------------------------
(* The checks that are rewritten: their values at every revision           *)
CheckIs(db, t, name, values) == \A o : IsCheck(t, name, o) => (o \in db <=> o = ValueCheck(t, name, values))

\* Statement j puts the check with these values, and no later one touches it.
PutsCheck(ops, j, t, name, values) ==
  /\ j \in 1 .. Len(ops) /\ Puts(ops[j])
  /\ \A o : IsCheck(t, name, o) =>
       /\ Touches(ops[j], o)
       /\ o \in ops[j].parts <=> o = ValueCheck(t, name, values)
       /\ \A k \in j + 1 .. Len(ops) : ~Touches(ops[k], o)

KeepsCheck(ops, t, name) == \A o : IsCheck(t, name, o) => ~AreTouched(ops, o)

LEMMA CheckIsPut ==
  ASSUME NEW s, NEW ops, AreSound(ops), Statements(s, ops).ok,
         NEW j, NEW t, NEW name, NEW values, PutsCheck(ops, j, t, name, values)
  PROVE  CheckIs(Statements(s, ops).db, t, name, values)
<1> SUFFICES ASSUME NEW o, IsCheck(t, name, o)
             PROVE  o \in Statements(s, ops).db <=> o = ValueCheck(t, name, values)
  BY DEF CheckIs
<1>1. /\ j \in 1 .. Len(ops) /\ Puts(ops[j]) /\ Touches(ops[j], o)
      /\ o \in ops[j].parts <=> o = ValueCheck(t, name, values)
      /\ \A k \in j + 1 .. Len(ops) : ~Touches(ops[k], o)
  BY DEF PutsCheck
<1>2. o \in Statements(s, ops).db <=> o \in ops[j].parts
  BY <1>1, LastPut
<1> QED BY <1>1, <1>2

LEMMA CheckIsKept ==
  ASSUME NEW s, NEW ops, AreSound(ops), Statements(s, ops).ok,
         NEW t, NEW name, NEW values, KeepsCheck(ops, t, name), CheckIs(s.db, t, name, values)
  PROVE  CheckIs(Statements(s, ops).db, t, name, values)
<1> SUFFICES ASSUME NEW o, IsCheck(t, name, o)
             PROVE  o \in Statements(s, ops).db <=> o = ValueCheck(t, name, values)
  BY DEF CheckIs
<1>1. \A k \in 1 .. Len(ops) : ~Touches(ops[k], o)
  BY DEF KeepsCheck, AreTouched
<1>2. o \in Statements(s, ops).db <=> o \in s.db
  BY <1>1, Untouched
<1> QED BY <1>2 DEF CheckIs

LEMMA WhatRewritesPut ==
  /\ PutsCheck(Pictures, 2, "message_media", "ck_message_media_kind", FileKinds \cup {"image"})
  /\ PutsCheck(PicturesUndone, 2, "message_media", "ck_message_media_kind", FileKinds)
  /\ PutsCheck(VoicesUndone, 2, "message_media", "ck_message_media_kind", FileKinds \cup {"image"})
  /\ PutsCheck(ExpansionUndone, 3, "model_usage", "ck_model_usage_purpose", OldPurposes)
  /\ PutsCheck(InChatUndone, 3, "drafts", "ck_draft_status", OldStatuses)
<1>1. \A part, o : o \in AddPart(part).parts <=> o = part
  BY DEF AddPart
<1>2. ASSUME NEW t, NEW name, NEW values
      PROVE  PutsCheck(Rewrite(t, name, values), 2, t, name, values)
  BY <1>1, AnAdd DEF PutsCheck, Rewrite, ValueCheck, IsCheck
<1>3. PutsCheck(ExpansionUndone, 3, "model_usage", "ck_model_usage_purpose", OldPurposes)
  BY <1>1, AnAdd DEF PutsCheck, ExpansionUndone, ValueCheck, IsCheck
<1>4. PutsCheck(InChatUndone, 3, "drafts", "ck_draft_status", OldStatuses)
  BY <1>1, AnAdd, ARemove DEF PutsCheck, InChatUndone, ValueCheck, IsCheck
<1> QED BY <1>2, <1>3, <1>4 DEF Pictures, PicturesUndone, VoicesUndone

LEMMA WhatTablesPut ==
  /\ PutsCheck(FileTables, 1, "message_media", "ck_message_media_kind", FileKinds)
  /\ PutsCheck(UsageTable, 1, "model_usage", "ck_model_usage_purpose", OldPurposes)
  /\ PutsCheck(AiTables, 8, "drafts", "ck_draft_status", OldStatuses)
<1>1. ASSUME NEW t, NEW columns, NEW refs, NEW names, NEW name, NEW values, NEW o, IsCheck(t, name, o)
      PROVE  o \in NewTable(t, columns, refs, names, {<<name, values>>}).parts <=> o = ValueCheck(t, name, values)
  BY <1>1 DEF NewTable, Columns, ValueCheck, IsCheck
<1>2. PutsCheck(FileTables, 1, "message_media", "ck_message_media_kind", FileKinds)
  BY <1>1, ACreate DEF PutsCheck, FileTables, IsCheck
<1>3. PutsCheck(UsageTable, 1, "model_usage", "ck_model_usage_purpose", OldPurposes)
  BY <1>1, ACreate, AnAdd DEF PutsCheck, UsageTable, IsCheck
<1>4. PutsCheck(AiTables, 8, "drafts", "ck_draft_status", OldStatuses)
  BY <1>1, ACreate, AnAdd DEF PutsCheck, AiTables, IsCheck
<1> QED BY <1>2, <1>3, <1>4

LEMMA WhatMigrationsKeep ==
  /\ \A k \in 4 .. 15 : KeepsCheck(Migrations[k].up, "drafts", "ck_draft_status")
  /\ \A k \in 11 .. 13 : KeepsCheck(Migrations[k].up, "model_usage", "ck_model_usage_purpose")
<1>1. \A o : o[2] = "drafts" => ~AreTouched(ResolvedBy, o) /\ ~AreTouched(MemoryTables, o) /\ ~AreTouched(PanelTables, o)
  BY ACreate, AnAdd DEF AreTouched, ResolvedBy, MemoryTables, PanelTables
<1>2. \A o : o[2] = "drafts" => ~AreTouched(FileTables, o) /\ ~AreTouched(UsageTable, o)
  BY ACreate, AnAdd DEF AreTouched, FileTables, UsageTable
<1>3. \A o : o[2] = "drafts" => ~AreTouched(Pictures, o) /\ ~AreTouched(Voices, o) /\ ~AreTouched(Expansion, o)
  BY AnAdd, ARemove DEF AreTouched, Pictures, Voices, Expansion, Rewrite, ValueCheck
<1>4. \A o : o[2] \in {"drafts", "model_usage"} =>
        ~AreTouched(OutboxTable, o) /\ ~AreTouched(HeartBeats, o) /\ ~AreTouched(PartsSent, o)
  BY ACreate, AnAdd DEF AreTouched, OutboxTable, HeartBeats, PartsSent
<1>5. \A o : o[1] = "check" => ~AreTouched(DraftRevision, o)
  BY AnAdd DEF AreTouched, DraftRevision
<1> QED BY <1>1, <1>2, <1>3, <1>4, <1>5, SixteenMigrations DEF KeepsCheck, IsCheck

------------------------------------------------------------------------------
(* The revisions built from nothing                                        *)
LEMMA BuiltGoes ==
  Built[0] = Nothing /\ \A k \in 1 .. 16 : Built[k] = Statements(Built[k - 1], Migrations[k].up)
<1>1. PICK lists : lists = [k \in 1 .. Newest |-> Migrations[k].up]
  OBVIOUS
<1>2. Len(lists) = 16 /\ Len(lists) \in Nat /\ \A k \in 1 .. 16 : lists[k] = Migrations[k].up
  BY <1>1, SixteenMigrations
<1>3. PICK s : s = Nothing
  OBVIOUS
<1>4. Built = Revisions(s, lists)
  BY <1>1, <1>3 DEF Built
<1>5. /\ Revisions(s, lists)[0] = s
      /\ \A k \in 1 .. Len(lists) : Revisions(s, lists)[k] = Statements(Revisions(s, lists)[k - 1], lists[k])
  <2>1. Len(lists) \in Nat
    BY <1>2
  <2> QED BY <2>1, RevisionsGo
<1> QED BY <1>2, <1>3, <1>4, <1>5

LEMMA RefusedStaysRefused ==
  ASSUME NEW s, NEW ops, AreSound(ops), Statements(s, ops).ok
  PROVE  s.ok
<1>1. Len(ops) \in Nat /\ 0 \in 0 .. Len(ops)
  BY DEF AreSound
<1>2. Run(s, ops)[0].ok /\ Run(s, ops)[0] = s
  BY <1>1, AllWentWell, RunGoes
<1> QED BY <1>2

LEMMA BuiltStepByStep ==
  ASSUME NEW k \in 1 .. 16, Built[k].ok
  PROVE  /\ Built[k - 1].ok
         /\ Built[k] = Statements(Built[k - 1], Migrations[k].up)
         /\ Statements(Built[k - 1], Migrations[k].up).ok
<1>1. Built[k] = Statements(Built[k - 1], Migrations[k].up)
  BY BuiltGoes
<1>2. Statements(Built[k - 1], Migrations[k].up).ok
  BY <1>1
<1> QED BY <1>1, <1>2, MigrationsAreSound, RefusedStaysRefused

(* The checks of a revision that the way down from the next will put back  *)
ChecksAreAsWritten(n, db) ==
  /\ n = 7 => CheckIs(db, "message_media", "ck_message_media_kind", FileKinds)
  /\ n = 8 => CheckIs(db, "message_media", "ck_message_media_kind", FileKinds \cup {"image"})
  /\ n \in 10 .. 13 => CheckIs(db, "model_usage", "ck_model_usage_purpose", OldPurposes)
  /\ n \in 3 .. 15 => CheckIs(db, "drafts", "ck_draft_status", OldStatuses)

LEMMA BuiltChecks ==
  ASSUME NEW n \in 0 .. 16, Built[n].ok
  PROVE  ChecksAreAsWritten(n, Built[n].db)
<1> DEFINE P == {k \in 0 .. 16 : Built[k].ok => ChecksAreAsWritten(k, Built[k].db)}
<1>1. 0 \in P
  BY DEF ChecksAreAsWritten
<1>2. ASSUME NEW k \in 1 .. 16, k - 1 \in P PROVE k \in P
  <2> SUFFICES ASSUME Built[k].ok PROVE ChecksAreAsWritten(k, Built[k].db)
    OBVIOUS
  <2>1. PICK s : s = Built[k - 1]
    OBVIOUS
  <2>2. PICK ops : ops = Migrations[k].up
    OBVIOUS
  <2>3. PICK t : t = Built[k]
    OBVIOUS
  <2>4. s.ok /\ t = Statements(s, ops) /\ Statements(s, ops).ok /\ AreSound(ops)
    BY <2>1, <2>2, <2>3, BuiltStepByStep, MigrationsAreSound
  <2>5. ChecksAreAsWritten(k - 1, s.db)
    BY <1>2, <2>1, <2>4
  <2>6. k = 7 => CheckIs(t.db, "message_media", "ck_message_media_kind", FileKinds)
    BY <2>2, <2>4, SixteenMigrations, WhatTablesPut, CheckIsPut
  <2>7. k = 8 => CheckIs(t.db, "message_media", "ck_message_media_kind", FileKinds \cup {"image"})
    BY <2>2, <2>4, SixteenMigrations, WhatRewritesPut, CheckIsPut
  <2>8. k \in 10 .. 13 => CheckIs(t.db, "model_usage", "ck_model_usage_purpose", OldPurposes)
    <3>1. CASE k = 10
      BY <3>1, <2>2, <2>4, SixteenMigrations, WhatTablesPut, CheckIsPut
    <3>2. CASE k \in 11 .. 13
      <4>1. CheckIs(s.db, "model_usage", "ck_model_usage_purpose", OldPurposes)
        <5>1. k - 1 \in 10 .. 13
          BY <3>2
        <5> QED BY <5>1, <2>5 DEF ChecksAreAsWritten
      <4>2. KeepsCheck(ops, "model_usage", "ck_model_usage_purpose")
        BY <3>2, <2>2, WhatMigrationsKeep
      <4> QED BY <4>1, <4>2, <2>4, CheckIsKept
    <3> QED BY <3>1, <3>2
  <2>9. k \in 3 .. 15 => CheckIs(t.db, "drafts", "ck_draft_status", OldStatuses)
    <3>1. CASE k = 3
      BY <3>1, <2>2, <2>4, SixteenMigrations, WhatTablesPut, CheckIsPut
    <3>2. CASE k \in 4 .. 15
      <4>1. CheckIs(s.db, "drafts", "ck_draft_status", OldStatuses)
        <5>1. k - 1 \in 3 .. 15
          BY <3>2
        <5> QED BY <5>1, <2>5 DEF ChecksAreAsWritten
      <4>2. KeepsCheck(ops, "drafts", "ck_draft_status")
        BY <3>2, <2>2, WhatMigrationsKeep
      <4> QED BY <4>1, <4>2, <2>4, CheckIsKept
    <3> QED BY <3>1, <3>2
  <2> QED BY <2>3, <2>6, <2>7, <2>8, <2>9 DEF ChecksAreAsWritten
<1>3. n \in P
  <2>1. P \in SUBSET (0 .. 16)
    OBVIOUS
  <2> HIDE DEF P
  <2> QED BY <1>1, <1>2, <2>1, PlaceInduction
<1> QED BY <1>3

(* A revision is undone, object by object, whatever rows there are.        *)
LEMMA DownUndoesUp ==
  ASSUME NEW k \in 1 .. 16, Built[k].ok,
         NEW t, t.db = Built[k].db, Statements(t, Migrations[k].down).ok
  PROVE  Statements(t, Migrations[k].down).db = Built[k - 1].db
<1>1. PICK s : s = Built[k - 1]
  OBVIOUS
<1>2. PICK ups : ups = Migrations[k].up
  OBVIOUS
<1>3. PICK downs : downs = Migrations[k].down
  OBVIOUS
<1>4. /\ AreSound(ups) /\ AreSound(downs) /\ s.ok
      /\ Statements(s, ups).ok /\ t.db = Statements(s, ups).db /\ Statements(t, downs).ok
  BY <1>1, <1>2, <1>3, BuiltStepByStep, MigrationsAreSound
<1>5. ASSUME NEW o, ~IsRewritten(k, o)
      PROVE  o \in Statements(t, downs).db <=> o \in s.db
  BY <1>2, <1>3, <1>4, <1>5, MigrationsAreMirrored, MirroredIsUndone
<1>6. ASSUME NEW o, IsRewritten(k, o)
      PROVE  o \in Statements(t, downs).db <=> o \in s.db
  <2>1. k \in {8, 9, 14, 16} /\ k - 1 \in 0 .. 16
    BY <1>6 DEF IsRewritten
  <2>2. ChecksAreAsWritten(k - 1, s.db)
    BY <1>1, <1>4, <2>1, BuiltChecks
  <2>3. CASE k = 8
    <3>1. CheckIs(s.db, "message_media", "ck_message_media_kind", FileKinds)
      BY <2>2, <2>3 DEF ChecksAreAsWritten
    <3>2. CheckIs(Statements(t, downs).db, "message_media", "ck_message_media_kind", FileKinds)
      BY <1>3, <1>4, <2>3, SixteenMigrations, WhatRewritesPut, CheckIsPut
    <3> QED BY <3>1, <3>2, <2>3, <1>6 DEF CheckIs, IsRewritten
  <2>4. CASE k = 9
    <3>1. CheckIs(s.db, "message_media", "ck_message_media_kind", FileKinds \cup {"image"})
      BY <2>2, <2>4 DEF ChecksAreAsWritten
    <3>2. CheckIs(Statements(t, downs).db, "message_media", "ck_message_media_kind", FileKinds \cup {"image"})
      BY <1>3, <1>4, <2>4, SixteenMigrations, WhatRewritesPut, CheckIsPut
    <3> QED BY <3>1, <3>2, <2>4, <1>6 DEF CheckIs, IsRewritten
  <2>5. CASE k = 14
    <3>1. CheckIs(s.db, "model_usage", "ck_model_usage_purpose", OldPurposes)
      BY <2>2, <2>5 DEF ChecksAreAsWritten
    <3>2. CheckIs(Statements(t, downs).db, "model_usage", "ck_model_usage_purpose", OldPurposes)
      BY <1>3, <1>4, <2>5, SixteenMigrations, WhatRewritesPut, CheckIsPut
    <3> QED BY <3>1, <3>2, <2>5, <1>6 DEF CheckIs, IsRewritten
  <2>6. CASE k = 16
    <3>1. CheckIs(s.db, "drafts", "ck_draft_status", OldStatuses)
      BY <2>2, <2>6 DEF ChecksAreAsWritten
    <3>2. CheckIs(Statements(t, downs).db, "drafts", "ck_draft_status", OldStatuses)
      BY <1>3, <1>4, <2>6, SixteenMigrations, WhatRewritesPut, CheckIsPut
    <3> QED BY <3>1, <3>2, <2>6, <1>6 DEF CheckIs, IsRewritten
  <2> QED BY <2>1, <2>3, <2>4, <2>5, <2>6
<1>7. \A o : o \in Statements(t, downs).db <=> o \in s.db
  BY <1>5, <1>6
<1> QED BY <1>1, <1>3, <1>7

------------------------------------------------------------------------------
(* The columns of the newest revision                                      *)
Brings(ops, o) == \E k \in 1 .. Len(ops) : Puts(ops[k]) /\ o \in ops[k].parts

LEMMA ColumnsAreBrought ==
  ASSUME NEW s, NEW ops, AreSound(ops), Statements(s, ops).ok, NEW o,
         \A k \in 1 .. Len(ops) : Takes(ops[k]) => ~Meant(ops[k], o)
  PROVE  o \in Statements(s, ops).db <=> o \in s.db \/ Brings(ops, o)
<1>0. PICK n \in Nat : n = Len(ops)
  BY DEF AreSound
<1> DEFINE r == Run(s, ops)
           Earlier(k) == \E i \in 1 .. k : Puts(ops[i]) /\ o \in ops[i].parts
           P == {k \in 0 .. n : o \in r[k].db <=> o \in s.db \/ Earlier(k)}
<1>1. 0 \in P
  <2>1. r[0] = s
    BY <1>0, RunGoes
  <2> QED BY <2>1
<1>2. ASSUME NEW k \in 1 .. n, k - 1 \in P PROVE k \in P
  <2>1. r[k].db = DbAfter(r[k - 1].db, ops[k])
    BY <1>0, AllWentWell
  <2> HIDE DEF r
  <2>2. o \in r[k - 1].db <=> o \in s.db \/ Earlier(k - 1)
    BY <1>2
  <2>3. Earlier(k) <=> Earlier(k - 1) \/ (Puts(ops[k]) /\ o \in ops[k].parts)
    <3>1. \A i \in 1 .. k : i = k \/ i \in 1 .. k - 1
      OBVIOUS
    <3>2. k \in 1 .. k /\ \A i \in 1 .. k - 1 : i \in 1 .. k
      OBVIOUS
    <3> QED BY <3>1, <3>2
  <2> HIDE DEF Earlier
  <2>4. CASE Puts(ops[k])
    BY <2>1, <2>2, <2>3, <2>4 DEF DbAfter, Puts, Takes
  <2>5. CASE ~Puts(ops[k]) /\ Takes(ops[k])
    <3>1. ~Meant(ops[k], o)
      BY <1>0, <2>5
    <3> QED BY <2>1, <2>2, <2>3, <2>5, <3>1 DEF DbAfter
  <2>6. CASE ~Puts(ops[k]) /\ ~Takes(ops[k])
    BY <2>1, <2>2, <2>3, <2>6 DEF DbAfter
  <2> QED BY <2>4, <2>5, <2>6
<1>3. n \in P
  <2>1. P \in SUBSET (0 .. n)
    OBVIOUS
  <2> HIDE DEF P
  <2> QED BY <1>1, <1>2, <2>1, PlaceInduction
<1>4. o \in r[n].db <=> o \in s.db \/ Earlier(n)
  BY <1>3
<1> QED BY <1>0, <1>4 DEF Statements, Brings

LEMMA MigrationsTakeNoColumn ==
  ASSUME NEW k \in 1 .. 16, NEW o, o[1] = "column", NEW ops, ops = Migrations[k].up, NEW i \in 1 .. Len(ops)
  PROVE  Takes(ops[i]) => ~Meant(ops[i], o)
<1>1. CASE ~IsRewritten(k, o)
  <2>1. IsMirrored(ops, Migrations[k].down, o)
    BY <1>1, MigrationsAreMirrored
  <2> QED BY <2>1 DEF IsMirrored, Touches, Puts, Takes
<1> QED BY <1>1 DEF IsRewritten, IsCheck

LEMMA WhatListsBring ==
  /\ \A t, columns, refs, names, checks, o :
       o[1] = "column" => (o \in NewTable(t, columns, refs, names, checks).parts <=> o \in Columns(t, columns))
  /\ \A part, o : o \in AddPart(part).parts <=> o = part
BY DEF NewTable, AddPart, ValueCheck, Columns

LEMMA WhatListsAndClassesShare ==
  ASSUME NEW o, o[1] = "column"
  PROVE  /\ Brings(FirstTables, o) \/ o \in Columns("mentor_accounts", {"reply_mode", "control_chat_id"}) <=>
              \/ o \in MappedAccounts \/ o \in MappedStudents \/ o \in MappedConversations \/ o \in MappedWork
         /\ Brings(KnowledgeTables, o) <=> o \in MappedKnowledge \/ o = <<"column", "knowledge_chunks", "search_vector">>
         /\ \/ Brings(AiTables, o) \/ Brings(ResolvedBy, o) \/ Brings(DraftRevision, o) \/ Brings(InChat, o)
            <=> o \in MappedRuns \/ o \in Columns("mentor_accounts", {"reply_mode", "control_chat_id"})
         /\ Brings(MemoryTables, o) <=> o \in MappedMemory
         /\ Brings(PanelTables, o) <=> o \in MappedPanel
         /\ Brings(FileTables, o) \/ Brings(UsageTable, o) <=> o \in MappedFiles
         /\ ~Brings(Pictures, o) /\ ~Brings(Voices, o) /\ ~Brings(Expansion, o)
         /\ \/ Brings(OutboxTable, o) \/ Brings(HeartBeats, o) \/ Brings(PartsSent, o)
            <=> o \in MappedSendings \/ o = <<"column", "deliveries", "sent_parts">>
<1>1. Brings(FirstTables, o) \/ o \in Columns("mentor_accounts", {"reply_mode", "control_chat_id"}) <=>
        \/ o \in MappedAccounts \/ o \in MappedStudents \/ o \in MappedConversations \/ o \in MappedWork
  BY WhatListsBring, ACreate, AnAdd
  DEF Brings, FirstTables, MappedAccounts, MappedStudents, MappedConversations, MappedWork, Columns
<1>2. Brings(KnowledgeTables, o) <=> o \in MappedKnowledge \/ o = <<"column", "knowledge_chunks", "search_vector">>
  BY WhatListsBring, ACreate, AnAdd DEF Brings, KnowledgeTables, MappedKnowledge, Columns
<1>3. Brings(AiTables, o) \/ Brings(ResolvedBy, o) \/ Brings(DraftRevision, o) \/ Brings(InChat, o)
        <=> o \in MappedRuns \/ o \in Columns("mentor_accounts", {"reply_mode", "control_chat_id"})
  <2>1. Brings(ResolvedBy, o) <=> o = <<"column", "escalations", "resolved_by">>
    BY WhatListsBring, AnAdd DEF Brings, ResolvedBy
  <2>2. Brings(DraftRevision, o) <=> o = <<"column", "drafts", "revision">>
    BY WhatListsBring, AnAdd DEF Brings, DraftRevision
  <2>3. Brings(InChat, o) <=> o = <<"column", "drafts", "delivery">>
    BY WhatListsBring, AnAdd, ARemove DEF Brings, InChat, ValueCheck
  <2>4. \/ Brings(AiTables, o) \/ o = <<"column", "escalations", "resolved_by">>
        \/ o = <<"column", "drafts", "revision">> \/ o = <<"column", "drafts", "delivery">>
        <=> o \in MappedRuns \/ o \in Columns("mentor_accounts", {"reply_mode", "control_chat_id"})
    BY WhatListsBring, ACreate, AnAdd DEF Brings, AiTables, MappedRuns, Columns, ValueCheck
  <2> QED BY <2>1, <2>2, <2>3, <2>4
<1>4. Brings(MemoryTables, o) <=> o \in MappedMemory
  BY WhatListsBring, ACreate, AnAdd DEF Brings, MemoryTables, MappedMemory
<1>5. Brings(PanelTables, o) <=> o \in MappedPanel
  BY WhatListsBring, ACreate, AnAdd DEF Brings, PanelTables, MappedPanel
<1>6. Brings(FileTables, o) \/ Brings(UsageTable, o) <=> o \in MappedFiles
  BY WhatListsBring, ACreate, AnAdd DEF Brings, FileTables, UsageTable, MappedFiles
<1>7. ~Brings(Pictures, o) /\ ~Brings(Voices, o) /\ ~Brings(Expansion, o)
  BY WhatListsBring, ARemove DEF Brings, Pictures, Voices, Expansion, Rewrite, ValueCheck
<1>8. Brings(OutboxTable, o) \/ Brings(HeartBeats, o) \/ Brings(PartsSent, o)
        <=> o \in MappedSendings \/ o = <<"column", "deliveries", "sent_parts">>
  BY WhatListsBring, ACreate, AnAdd DEF Brings, OutboxTable, HeartBeats, PartsSent, MappedSendings
<1> QED BY <1>1, <1>2, <1>3, <1>4, <1>5, <1>6, <1>7, <1>8

LEMMA HeadHasTheMappedColumns ==
  ASSUME Built[16].ok, NEW o, o[1] = "column"
  PROVE  o \in Built[16].db <=> \/ o \in Mapped
                                \/ o \in {<<"column", "knowledge_chunks", "search_vector">>,
                                          <<"column", "deliveries", "sent_parts">>}
<1> DEFINE Within(n) == \E k \in 1 .. n : Brings(Migrations[k].up, o)
           P == {n \in 0 .. 16 : Built[n].ok => (o \in Built[n].db <=> Within(n))}
<1>1. 0 \in P
  BY BuiltGoes DEF Nothing
<1>2. ASSUME NEW n \in 1 .. 16, n - 1 \in P PROVE n \in P
  <2> SUFFICES ASSUME Built[n].ok PROVE o \in Built[n].db <=> Within(n)
    OBVIOUS
  <2>1. PICK ops : ops = Migrations[n].up
    OBVIOUS
  <2>2. /\ Built[n - 1].ok /\ Built[n] = Statements(Built[n - 1], ops)
        /\ Statements(Built[n - 1], ops).ok /\ AreSound(ops)
    BY <2>1, BuiltStepByStep, MigrationsAreSound
  <2>3. o \in Built[n - 1].db <=> Within(n - 1)
    BY <1>2, <2>2
  <2>4. o \in Built[n].db <=> o \in Built[n - 1].db \/ Brings(ops, o)
    BY <2>1, <2>2, MigrationsTakeNoColumn, ColumnsAreBrought
  <2>5. Within(n) <=> Within(n - 1) \/ Brings(ops, o)
    <3>1. \A i \in 1 .. n : i = n \/ i \in 1 .. n - 1
      OBVIOUS
    <3>2. n \in 1 .. n /\ \A i \in 1 .. n - 1 : i \in 1 .. n
      OBVIOUS
    <3> QED BY <2>1, <3>1, <3>2
  <2> QED BY <2>3, <2>4, <2>5
<1>3. 16 \in P
  <2>1. P \in SUBSET (0 .. 16)
    OBVIOUS
  <2> HIDE DEF P
  <2> QED BY <1>1, <1>2, <2>1, PlaceInduction
<1>4. o \in Built[16].db <=> Within(16)
  BY <1>3
<1>5. Within(16) <=>
        \/ Brings(FirstTables, o) \/ Brings(KnowledgeTables, o) \/ Brings(AiTables, o) \/ Brings(ResolvedBy, o)
        \/ Brings(MemoryTables, o) \/ Brings(PanelTables, o) \/ Brings(FileTables, o) \/ Brings(Pictures, o)
        \/ Brings(Voices, o) \/ Brings(UsageTable, o) \/ Brings(OutboxTable, o) \/ Brings(HeartBeats, o)
        \/ Brings(PartsSent, o) \/ Brings(Expansion, o) \/ Brings(DraftRevision, o) \/ Brings(InChat, o)
  BY SixteenMigrations
<1>6. o \in Columns("mentor_accounts", {"reply_mode", "control_chat_id"}) => o \in MappedAccounts
  BY DEF MappedAccounts, Columns
<1>7. o \in Built[16].db <=>
        \/ o \in MappedAccounts \/ o \in MappedStudents \/ o \in MappedConversations \/ o \in MappedWork
        \/ o \in MappedKnowledge \/ o \in MappedRuns \/ o \in MappedMemory \/ o \in MappedPanel
        \/ o \in MappedFiles \/ o \in MappedSendings
        \/ o = <<"column", "knowledge_chunks", "search_vector">> \/ o = <<"column", "deliveries", "sent_parts">>
  <2> HIDE DEF Within
  <2> QED BY <1>4, <1>5, <1>6, WhatListsAndClassesShare, Zenon
<1> QED BY <1>7 DEF Mapped

LEMMA MappedAreColumns == \A o \in Mapped : o[1] = "column"
<1>1. \A t, names : \A o \in Columns(t, names) : o[1] = "column"
  BY DEF Columns
<1> QED BY <1>1 DEF Mapped, MappedAccounts, MappedStudents, MappedConversations, MappedWork, MappedKnowledge,
       MappedRuns, MappedMemory, MappedPanel, MappedFiles, MappedSendings

------------------------------------------------------------------------------
(* Upgrades and downgrades                                                 *)
LEMMA BuiltHasNoRows ==
  ASSUME NEW n \in 0 .. 16, Built[n].ok
  PROVE  NoRows(Built[n])
<1> DEFINE P == {k \in 0 .. 16 : Built[k].ok => NoRows(Built[k])}
<1>1. 0 \in P
  BY BuiltGoes DEF Nothing, NoRows
<1>2. ASSUME NEW k \in 1 .. 16, k - 1 \in P, Built[k].ok PROVE NoRows(Built[k])
  <2>1. PICK ops : ops = Migrations[k].up
    OBVIOUS
  <2>2. PICK s : s = Built[k - 1]
    OBVIOUS
  <2>3. s.ok /\ Built[k] = Statements(s, ops) /\ Statements(s, ops).ok /\ Len(ops) \in Nat
    BY <1>2, <2>1, <2>2, BuiltStepByStep, MigrationsAreSound DEF AreSound
  <2>4. NoRows(s)
    BY <1>2, <2>2, <2>3
  <2>5. NoRows(Statements(s, ops))
    BY <2>3, <2>4, RowsOnlyRefuse
  <2> QED BY <2>3, <2>5
<1>3. n \in P
  <2>1. P \in SUBSET (0 .. 16)
    OBVIOUS
  <2>2. \A k \in 1 .. 16 : k - 1 \in P => k \in P
    BY <1>2
  <2> HIDE DEF P
  <2> QED BY <1>1, <2>1, <2>2, PlaceInduction
<1> QED BY <1>3

LEMMA RevisionsWentWell ==
  ASSUME NEW s, NEW lists, NEW m \in Nat, m = Len(lists), \A k \in 1 .. m : AreSound(lists[k]),
         Revisions(s, lists)[m].ok
  PROVE  \A k \in 0 .. m : Revisions(s, lists)[k].ok
<1> DEFINE r == Revisions(s, lists)
           P == {k \in 0 .. m : r[m - k].ok}
<1>1. \A k \in 1 .. m : r[k] = Statements(r[k - 1], lists[k])
  BY RevisionsGo
<1>2. \A k \in 1 .. m : r[k].ok => r[k - 1].ok
  BY <1>1, RefusedStaysRefused
<1>3. r[m].ok
  OBVIOUS
<1> HIDE DEF r
<1>4. 0 \in P
  BY <1>3
<1>5. ASSUME NEW k \in 1 .. m, k - 1 \in P PROVE k \in P
  <2>1. PICK j \in 1 .. m : j = m - (k - 1)
    <3>1. m - (k - 1) \in 1 .. m
      OBVIOUS
    <3> QED BY <3>1
  <2>2. r[j].ok /\ j - 1 = m - k
    BY <1>5, <2>1
  <2> QED BY <2>2, <1>2
<1>6. P = 0 .. m
  <2>1. P \in SUBSET (0 .. m)
    OBVIOUS
  <2> HIDE DEF P
  <2> QED BY <1>4, <1>5, <2>1, PlaceInduction
<1>7. ASSUME NEW k \in 0 .. m PROVE r[k].ok
  <2>1. m - k \in 0 .. m /\ m - (m - k) = k
    OBVIOUS
  <2>2. m - k \in P
    <3> HIDE DEF P
    <3> QED BY <1>6, <2>1
  <2>3. r[m - (m - k)].ok
    BY <2>2
  <2> QED BY <2>1, <2>3
<1> QED BY <1>7 DEF r

(* A database is at a revision                                             *)
IsAt(s, n) == Built[n].ok /\ s.db = Built[n].db /\ RowsHold(s)

LEMMA UpOneRevision ==
  ASSUME NEW k \in 1 .. 16, NEW s, s.ok, IsAt(s, k - 1), Statements(s, Migrations[k].up).ok
  PROVE  IsAt(Statements(s, Migrations[k].up), k)
<1>1. PICK ops : ops = Migrations[k].up
  OBVIOUS
<1>2. PICK b : b = Built[k - 1]
  OBVIOUS
<1>3. AreSound(ops) /\ Len(ops) \in Nat
  BY <1>1, MigrationsAreSound DEF AreSound
<1>4. b.ok /\ s.db = b.db /\ RowsHold(s)
  BY <1>2 DEF IsAt
<1>5. NoRows(b)
  <2>1. k - 1 \in 0 .. 16
    OBVIOUS
  <2> QED BY <1>2, <1>4, <2>1, BuiltHasNoRows
<1>6. Statements(b, ops).db = Statements(s, ops).db /\ Statements(b, ops).ok
  BY <1>1, <1>3, <1>4, <1>5, RowsOnlyRefuse
<1>7. Built[k] = Statements(b, ops)
  BY <1>1, <1>2, BuiltGoes
<1>8. RowsHold(Statements(s, ops))
  BY <1>1, <1>3, <1>4, RowsStillHold
<1> QED BY <1>1, <1>6, <1>7, <1>8 DEF IsAt

LEMMA DownOneRevision ==
  ASSUME NEW k \in 1 .. 16, NEW s, s.ok, IsAt(s, k), Statements(s, Migrations[k].down).ok
  PROVE  IsAt(Statements(s, Migrations[k].down), k - 1)
<1>1. PICK ops : ops = Migrations[k].down
  OBVIOUS
<1>2. AreSound(ops) /\ Built[k].ok /\ s.db = Built[k].db /\ RowsHold(s)
  BY <1>1, MigrationsAreSound DEF IsAt
<1>3. Statements(s, ops).db = Built[k - 1].db /\ Built[k - 1].ok
  BY <1>1, <1>2, DownUndoesUp, BuiltStepByStep
<1>4. RowsHold(Statements(s, ops))
  BY <1>1, <1>2, RowsStillHold
<1> QED BY <1>1, <1>3, <1>4 DEF IsAt

LEMMA ManyUp ==
  ASSUME NEW a \in 0 .. 16, NEW n \in a .. 16, NEW s, IsAt(s, a),
         NEW r, r = Revisions(s, [i \in 1 .. n - a |-> Migrations[a + i].up])[n - a], r.ok
  PROVE  IsAt(r, n)
<1>1. PICK m \in Nat : m = n - a
  OBVIOUS
<1>2. PICK lists : lists = [i \in 1 .. m |-> Migrations[a + i].up]
  OBVIOUS
<1>3. PICK run : run = Revisions(s, lists)
  OBVIOUS
<1>4. m = Len(lists) /\ \A i \in 1 .. m : lists[i] = Migrations[a + i].up /\ a + i \in 1 .. 16
  BY <1>1, <1>2
<1>5. r = run[m] /\ run[m].ok
  BY <1>1, <1>2, <1>3
<1>6. \A i \in 0 .. m : run[i].ok
  BY <1>3, <1>4, <1>5, MigrationsAreSound, RevisionsWentWell
<1>7. run[0] = s /\ \A i \in 1 .. m : run[i] = Statements(run[i - 1], lists[i])
  <2>1. Len(lists) \in Nat
    BY <1>4
  <2>2. /\ Revisions(s, lists)[0] = s
        /\ \A i \in 1 .. Len(lists) : Revisions(s, lists)[i] = Statements(Revisions(s, lists)[i - 1], lists[i])
    BY <2>1, RevisionsGo
  <2>3. m = Len(lists)
    BY <1>4
  <2> QED BY <1>3, <2>2, <2>3
<1> DEFINE P == {i \in 0 .. m : IsAt(run[i], a + i)}
<1>8. 0 \in P
  BY <1>7
<1>9. ASSUME NEW i \in 1 .. m, i - 1 \in P PROVE i \in P
  <2>1. PICK k \in 1 .. 16 : k = a + i
    BY <1>4
  <2>2. PICK x : x = run[i - 1]
    OBVIOUS
  <2>3. a + (i - 1) = k - 1 /\ i - 1 \in 0 .. m /\ i \in 0 .. m
    BY <2>1
  <2>4. x.ok /\ IsAt(x, k - 1)
    BY <1>6, <1>9, <2>2, <2>3
  <2>5. run[i] = Statements(x, Migrations[k].up) /\ run[i].ok
    BY <1>4, <1>6, <1>7, <2>1, <2>2, <2>3
  <2>6. IsAt(run[i], k)
    BY <2>4, <2>5, UpOneRevision
  <2> QED BY <2>1, <2>6
<1>10. m \in P
  <2>1. P \in SUBSET (0 .. m)
    OBVIOUS
  <2>2. \A i \in 1 .. m : i - 1 \in P => i \in P
    BY <1>9
  <2> HIDE DEF P
  <2>3. P = 0 .. m
    BY <1>8, <2>1, <2>2, PlaceInduction
  <2> QED BY <2>3
<1>11. IsAt(run[m], a + m) /\ a + m = n
  BY <1>1, <1>10
<1> QED BY <1>5, <1>11

LEMMA ManyDown ==
  ASSUME NEW a \in 0 .. 16, NEW n \in 0 .. a, NEW s, IsAt(s, a),
         NEW r, r = Revisions(s, [i \in 1 .. a - n |-> Migrations[a + 1 - i].down])[a - n], r.ok
  PROVE  IsAt(r, n)
<1>1. PICK m \in Nat : m = a - n
  OBVIOUS
<1>2. PICK lists : lists = [i \in 1 .. m |-> Migrations[a + 1 - i].down]
  OBVIOUS
<1>3. PICK run : run = Revisions(s, lists)
  OBVIOUS
<1>4. m = Len(lists) /\ \A i \in 1 .. m : lists[i] = Migrations[a + 1 - i].down /\ a + 1 - i \in 1 .. 16
  BY <1>1, <1>2
<1>5. r = run[m] /\ run[m].ok
  BY <1>1, <1>2, <1>3
<1>6. \A i \in 0 .. m : run[i].ok
  BY <1>3, <1>4, <1>5, MigrationsAreSound, RevisionsWentWell
<1>7. run[0] = s /\ \A i \in 1 .. m : run[i] = Statements(run[i - 1], lists[i])
  <2>1. Len(lists) \in Nat
    BY <1>4
  <2>2. /\ Revisions(s, lists)[0] = s
        /\ \A i \in 1 .. Len(lists) : Revisions(s, lists)[i] = Statements(Revisions(s, lists)[i - 1], lists[i])
    BY <2>1, RevisionsGo
  <2>3. m = Len(lists)
    BY <1>4
  <2> QED BY <1>3, <2>2, <2>3
<1> DEFINE P == {i \in 0 .. m : IsAt(run[i], a - i)}
<1>8. 0 \in P
  BY <1>7
<1>9. ASSUME NEW i \in 1 .. m, i - 1 \in P PROVE i \in P
  <2>1. PICK k \in 1 .. 16 : k = a + 1 - i
    BY <1>4
  <2>2. PICK x : x = run[i - 1]
    OBVIOUS
  <2>3. a - (i - 1) = k /\ i - 1 \in 0 .. m /\ i \in 0 .. m
    BY <2>1
  <2>4. x.ok /\ IsAt(x, k)
    BY <1>6, <1>9, <2>2, <2>3
  <2>5. run[i] = Statements(x, Migrations[k].down) /\ run[i].ok
    BY <1>4, <1>6, <1>7, <2>1, <2>2, <2>3
  <2>6. IsAt(Statements(x, Migrations[k].down), k - 1)
    BY <2>4, <2>5, DownOneRevision
  <2>7. k - 1 = a - i
    BY <2>1
  <2> QED BY <2>5, <2>6, <2>7
<1>10. m \in P
  <2>1. P \in SUBSET (0 .. m)
    OBVIOUS
  <2>2. \A i \in 1 .. m : i - 1 \in P => i \in P
    BY <1>9
  <2> HIDE DEF P
  <2>3. P = 0 .. m
    BY <1>8, <2>1, <2>2, PlaceInduction
  <2> QED BY <2>3
<1>11. IsAt(run[m], a - m) /\ a - m = n
  BY <1>1, <1>10
<1> QED BY <1>5, <1>11

------------------------------------------------------------------------------
(* The inductive invariant: the revision can be built from nothing, the    *)
(* database has its objects, and the rows are in tables and fit.           *)
SchemaInv == level \in 0 .. 16 /\ IsAt(Before, level)

(* The columns of db/models.py need the invariant at the head only.        *)
LEMMA SchemaInvIsEnough == SchemaInv => SchemaIsKept
<1> SUFFICES ASSUME SchemaInv PROVE SchemaIsKept
  OBVIOUS
<1>1. /\ Before.db = objects /\ Before.rows = tableRows
      /\ level \in 0 .. 16 /\ Built[level].ok /\ objects = Built[level].db /\ RowsHold(Before)
  BY DEF SchemaInv, IsAt, Before
<1>2. RevisionTellsTheSchema
  BY <1>1 DEF RevisionTellsTheSchema
<1>3. RowsFitTheirChecks
  BY <1>1 DEF RowsFitTheirChecks, RowsHold
<1>4. ClassesFitTheHead
  <2> SUFFICES ASSUME level = 16
               PROVE  /\ ColumnsOf(objects) \ Mapped \subseteq
                           {<<"column", "knowledge_chunks", "search_vector">>, <<"column", "deliveries", "sent_parts">>}
                      /\ Mapped \subseteq objects
    BY SixteenMigrations DEF ClassesFitTheHead
  <2>1. Built[16].ok /\ objects = Built[16].db
    BY <1>1
  <2>2. \A o : o[1] = "column" => (o \in objects <=>
          o \in Mapped \/ o \in {<<"column", "knowledge_chunks", "search_vector">>, <<"column", "deliveries", "sent_parts">>})
    BY <2>1, HeadHasTheMappedColumns
  <2>3. Mapped \subseteq objects
    BY <2>2, MappedAreColumns
  <2> QED BY <2>2, <2>3 DEF ColumnsOf
<1> QED BY <1>2, <1>3, <1>4 DEF SchemaIsKept

LEMMA SchemaInvAtFirst == SchemaInit => SchemaInv
<1> SUFFICES ASSUME SchemaInit PROVE SchemaInv
  OBVIOUS
<1>1. Built[0].ok /\ Built[0].db = {}
  BY BuiltGoes DEF Nothing
<1>2. Before.db = {} /\ Before.rows = [i \in RowIds |-> NoRow] /\ level = 0
  BY DEF SchemaInit, Before
<1>3. RowsHold(Before)
  BY <1>2 DEF RowsHold
<1> QED BY <1>1, <1>2, <1>3 DEF SchemaInv, IsAt

LEMMA CommitIsAt ==
  ASSUME NEW s, NEW n \in 0 .. 16, IsAt(s, n), CommitAs(s, n)
  PROVE  SchemaInv'
<1>1. level' = n /\ Before'.db = s.db /\ Before'.rows = s.rows
  BY DEF CommitAs, Before
<1>2. RowsHold(Before)'
  BY <1>1 DEF IsAt, RowsHold
<1> QED BY <1>1, <1>2 DEF SchemaInv, IsAt

LEMMA SchemaInvIsKept == SchemaInv /\ [SchemaNext]_schemaVars => SchemaInv'
<1> SUFFICES ASSUME SchemaInv, [SchemaNext]_schemaVars PROVE SchemaInv'
  OBVIOUS
<1>1. level \in 0 .. 16 /\ IsAt(Before, level) /\ Newest = 16
  BY SixteenMigrations DEF SchemaInv
<1>2. CASE Upgrade
  <2>1. PICK n \in {level + 1, Newest} :
          /\ n \in level + 1 .. Newest
          /\ CommitAs(Revisions(Before, [i \in 1 .. n - level |-> Migrations[level + i].up])[n - level], n)
    BY <1>2 DEF Upgrade
  <2>2. PICK r : r = Revisions(Before, [i \in 1 .. n - level |-> Migrations[level + i].up])[n - level]
    OBVIOUS
  <2>3. PICK s : s = Before
    OBVIOUS
  <2>4. CommitAs(r, n) /\ r.ok /\ n \in level .. 16 /\ n \in 0 .. 16
    BY <1>1, <2>1, <2>2 DEF CommitAs
  <2>5. IsAt(r, n)
    BY <1>1, <2>2, <2>3, <2>4, ManyUp
  <2> QED BY <2>4, <2>5, CommitIsAt
<1>3. CASE Downgrade
  <2>1. PICK n \in {level - 1, 0} :
          /\ n \in 0 .. level - 1
          /\ CommitAs(Revisions(Before, [i \in 1 .. level - n |-> Migrations[level + 1 - i].down])[level - n], n)
    BY <1>3 DEF Downgrade
  <2>2. PICK r : r = Revisions(Before, [i \in 1 .. level - n |-> Migrations[level + 1 - i].down])[level - n]
    OBVIOUS
  <2>3. PICK s : s = Before
    OBVIOUS
  <2>4. CommitAs(r, n) /\ r.ok /\ n \in 0 .. level /\ n \in 0 .. 16
    BY <1>1, <2>1, <2>2 DEF CommitAs
  <2>5. IsAt(r, n)
    BY <1>1, <2>2, <2>3, <2>4, ManyDown
  <2> QED BY <2>4, <2>5, CommitIsAt
<1>4. CASE InsertRow
  <2>1. PICK i \in RowIds, r \in RowValues :
          /\ <<"table", r[1]>> \in objects /\ IsChecked(r, objects)
          /\ tableRows' = [tableRows EXCEPT ![i] = r] /\ objects' = objects /\ level' = level
    BY <1>4 DEF InsertRow
  <2>2. DOMAIN tableRows = RowIds
        /\ \A j \in RowIds : tableRows[j] # NoRow => <<"table", tableRows[j][1]>> \in objects /\ IsChecked(tableRows[j], objects)
    BY <1>1 DEF IsAt, RowsHold, Before
  <2>3. DOMAIN tableRows' = RowIds /\ \A j \in RowIds : tableRows'[j] = IF j = i THEN r ELSE tableRows[j]
    BY <2>1, <2>2
  <2>4. RowsHold(Before)'
    BY <2>1, <2>2, <2>3 DEF RowsHold, Before
  <2> QED BY <1>1, <2>1, <2>4 DEF SchemaInv, IsAt, Before
<1>5. CASE InstallExtensions \/ UNCHANGED schemaVars
  <2>1. level' = level /\ objects' = objects /\ tableRows' = tableRows
    BY <1>5 DEF InstallExtensions, schemaVars
  <2> QED BY <1>1, <2>1 DEF SchemaInv, IsAt, Before, RowsHold
<1> QED BY <1>2, <1>3, <1>4, <1>5 DEF SchemaNext

(* A revision has the same objects on whatever way it was reached, the     *)
(* classes fit the newest, and no row is where its check forbids it.       *)
THEOREM SchemaHolds == SchemaSpec => []SchemaIsKept
<1>1. SchemaSpec => []SchemaInv
  BY SchemaInvAtFirst, SchemaInvIsKept, PTL DEF SchemaSpec
<1> QED BY <1>1, SchemaInvIsEnough, PTL
=============================================================================
