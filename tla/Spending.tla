------------------------------ MODULE Spending ------------------------------
(***************************************************************************)
(* The cap and those who spend: the worker's jobs (ai/runtime, memory/job) *)
(* check, call and record in the transaction of the job; an instruction of *)
(* the mentor (control/bot) checks in one transaction and records in       *)
(* another; the description of a picture (telegram/gateway) is recorded    *)
(* and never checked.  Rows of model_usage are summed per day.             *)
(*                                                                         *)
(* A row carries the time at which its transaction began (now() of         *)
(* PostgreSQL), the check is made by the clock of the process.             *)
(***************************************************************************)
EXTENDS Budget

CONSTANTS Workers,       \* handlers that run jobs: answers, extraction of memories
          Mentors,       \* handlers of instructions
          Dearest,       \* bound: cost of one call
          LastDay,       \* bound: days that are looked at
          MonthLength,   \* bound: days of a month
          MaxRows        \* bound: on the sum of a day

Callers == Workers \union Mentors

ASSUME SpendingAssumption ==
  /\ IsFiniteSet(Workers) /\ IsFiniteSet(Mentors) /\ Workers \intersect Mentors = {}
  /\ Dearest \in Nat /\ LastDay \in Nat /\ MonthLength \in Nat \ {0} /\ MaxRows \in Nat

VARIABLES today,      \* by the academy's time
          checked,    \* sum of the rows of those who check, per day
          pictures,   \* sum of the rows of image_description, per day
          caller      \* each handler: where it is, and the day of its transaction
spendingVars == <<today, checked, pictures, caller>>

Days == 0..LastDay
Resting == [pc |-> "idle", day |-> 0]

SpendingInit ==
  /\ today = 0
  /\ checked = [d \in Days |-> 0]
  /\ pictures = [d \in Days |-> 0]
  /\ caller = [c \in Callers |-> Resting]

(* current_spend *)
SpentOn(d) == checked[d] + pictures[d]
MonthOf(d) == d - (d % MonthLength)
SpentInMonth == MapThenSumSet(SpentOn, MonthOf(today)..today)

Begin(c) ==
  /\ c \in Workers
  /\ caller[c].pc = "idle"
  /\ caller' = [caller EXCEPT ![c] = [pc |-> "begun", day |-> today]]
  /\ UNCHANGED <<today, checked, pictures>>

\* Fault: nobody asks.
CheckNothing(c) ==
  /\ caller[c].pc = IF c \in Workers THEN "begun" ELSE "idle"
  /\ caller' = [caller EXCEPT ![c].pc = "calling"]
  /\ UNCHANGED <<today, checked, pictures>>

(* An instruction is checked at once; its check leaves no transaction open *)
Check(c) ==
  /\ caller[c].pc = IF c \in Workers THEN "begun" ELSE "idle"
  /\ caller' = [caller EXCEPT ![c] =
                  IF MayCall(SpentOn(today), SpentInMonth)
                  THEN [@ EXCEPT !.pc = "calling"] ELSE Resting]
  /\ UNCHANGED <<today, checked, pictures>>

(* The transaction in which the usage is recorded is committed *)
StampOf(c) == IF c \in Workers THEN caller[c].day ELSE today

RecordUsage(c) ==
  /\ caller[c].pc = "calling"
  /\ checked[StampOf(c)] < MaxRows
  /\ \E cost \in 0..Dearest : checked' = [checked EXCEPT ![StampOf(c)] = @ + cost]
  /\ caller' = [caller EXCEPT ![c] = Resting]
  /\ UNCHANGED <<today, pictures>>

(* It is not, whatever the call has cost: a later statement or the commit  *)
(* fails, or the process dies                                              *)
RollBack(c) ==
  /\ caller[c].pc \in {"begun", "calling"}
  /\ caller' = [caller EXCEPT ![c] = Resting]
  /\ UNCHANGED <<today, checked, pictures>>

DescribePicture ==
  /\ pictures[today] < MaxRows
  /\ \E cost \in 1..Dearest : pictures' = [pictures EXCEPT ![today] = @ + cost]
  /\ UNCHANGED <<today, checked, caller>>

Midnight ==
  /\ today < LastDay
  /\ today' = today + 1
  /\ UNCHANGED <<checked, pictures, caller>>

SpendingNext ==
  \/ \E c \in Callers : Begin(c) \/ Check(c) \/ RecordUsage(c) \/ RollBack(c)
  \/ DescribePicture
  \/ Midnight

SpendingSpec == SpendingInit /\ [][SpendingNext]_spendingVars

------------------------------------------------------------------------------
SpendingTypeOK ==
  /\ today \in Days
  /\ checked \in [Days -> Nat] /\ pictures \in [Days -> Nat]
  /\ caller \in [Callers -> [pc : {"idle", "begun", "calling"}, day : Days]]

(***************************************************************************)
(* How far the cap is passed.  budget.py:15 says that the last call may    *)
(* pass it; the check and the record of one caller enclose those of        *)
(* others, so it is the last call of each, and once more for every job     *)
(* whose transaction began before midnight and was checked after it.       *)
(***************************************************************************)
Excess == Dearest * (Cardinality(Callers) + Cardinality(Workers))

CapIsNearlyKept ==
  \A d \in Days : checked[d] <= AtLeastZero(DayCap - 1) + Excess

=============================================================================
