----------------------------- MODULE JobPromise -----------------------------
(***************************************************************************)
(* What the queue promises the message that a job is about, with no        *)
(* worker, lock, clock or transaction.  It is decided at most once, after  *)
(* it was tried; what is done was decided or needed no decision; only a    *)
(* job with tries left is opened again, and one is given up only when it   *)
(* has none.  A job that was given up may still be done, by a slow worker  *)
(* that had it all the time, but nobody tries it any more.                 *)
(***************************************************************************)
EXTENDS Naturals

CONSTANTS Jobs, MaxAttempts

VARIABLES state,      \* "absent", "open", "done" or "dead"
          tries,
          decided,    \* decisions about the message
          skipped     \* has it been found that none is needed

vars == <<state, tries, decided, skipped>>

Init ==
  /\ state = [j \in Jobs |-> "absent"]
  /\ tries = [j \in Jobs |-> 0]
  /\ decided = [j \in Jobs |-> 0]
  /\ skipped = [j \in Jobs |-> FALSE]

Ask(j) ==
  /\ state[j] = "absent"
  /\ state' = [state EXCEPT ![j] = "open"]
  /\ UNCHANGED <<tries, decided, skipped>>

Try(j) ==
  /\ state[j] = "open"
  /\ tries' = [tries EXCEPT ![j] = @ + 1]
  /\ UNCHANGED <<state, decided, skipped>>

\* Whoever tried it, and whatever others made of it since.
Decide(j) ==
  /\ tries[j] > 0
  /\ decided[j] = 0
  /\ decided' = [decided EXCEPT ![j] = 1]
  /\ state' = [state EXCEPT ![j] = "done"]
  /\ UNCHANGED <<tries, skipped>>

Skip(j) ==
  /\ tries[j] > 0
  /\ skipped' = [skipped EXCEPT ![j] = TRUE]
  /\ state' = [state EXCEPT ![j] = "done"]
  /\ UNCHANGED <<tries, decided>>

\* What followed the decision failed, and there are tries left.
Reopen(j) ==
  /\ state[j] = "done"
  /\ tries[j] < MaxAttempts
  /\ state' = [state EXCEPT ![j] = "open"]
  /\ UNCHANGED <<tries, decided, skipped>>

GiveUp(j) ==
  /\ tries[j] >= MaxAttempts
  /\ state' = [state EXCEPT ![j] = "dead"]
  /\ UNCHANGED <<tries, decided, skipped>>

Next == \E j \in Jobs : Ask(j) \/ Try(j) \/ Decide(j) \/ Skip(j) \/ Reopen(j) \/ GiveUp(j)

Spec == Init /\ [][Next]_vars
=============================================================================
