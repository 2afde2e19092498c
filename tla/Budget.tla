------------------------------- MODULE Budget -------------------------------
(***************************************************************************)
(* What a call of the model costs and whether another one may be made:     *)
(* the functions of ai/budget.py.  Amounts are micro-dollars, prices       *)
(* dollars per million tokens, so that a price times a number of tokens is *)
(* the cost, without rounding.                                             *)
(***************************************************************************)
EXTENDS Integers, FiniteSetsExt

CONSTANTS Models,        \* the models of the table PRICES
          InputPrice,    \* PRICES[m].input_usd
          OutputPrice,   \* PRICES[m].output_usd
          DayCap,        \* ai_daily_budget_usd, in micro-dollars
          MonthCap,      \* ai_monthly_budget_usd
          Alert,         \* ai_budget_alert_fraction, as <<numerator, denominator>>
          Hours,         \* bound: length of a day in the clock's units
          Offset         \* the academy's time is that many units ahead of UTC

ASSUME BudgetAssumption ==
  /\ IsFiniteSet(Models) /\ Models # {}
  /\ InputPrice \in [Models -> Nat] /\ OutputPrice \in [Models -> Nat]
  /\ DayCap \in Nat /\ MonthCap \in Nat
  /\ Alert \in (Nat \ {0}) \X (Nat \ {0}) /\ Alert[1] <= Alert[2]
  /\ Hours \in Nat \ {0} /\ Offset \in 0..Hours

(* The owner's prices of AI_MODEL, both or none, hide the table's *)
NoPrice == [model |-> "none"]

Fallback ==
  <<CHOOSE p \in {InputPrice[m] : m \in Models} : \A m \in Models : p >= InputPrice[m],
    CHOOSE p \in {OutputPrice[m] : m \in Models} : \A m \in Models : p >= OutputPrice[m]>>

PriceFor(model, owner) ==
  IF owner.model = model THEN <<owner.input, owner.output>>
  ELSE IF model \in Models THEN <<InputPrice[model], OutputPrice[model]>>
  ELSE Fallback

Priced(model, owner) == owner.model = model \/ model \in Models

(* A cached token is billed like one that was sent; nothing is negative *)
AtLeastZero(n) == IF n > 0 THEN n ELSE 0

CostMicros(model, owner, input, output, cached) ==
  (AtLeastZero(input) + AtLeastZero(cached)) * PriceFor(model, owner)[1]
    + AtLeastZero(output) * PriceFor(model, owner)[2]

(* _day_start and retry_after, on a clock that counts Hours to a day *)
DayStart(now) == now - ((now + Offset) % Hours)

RetryAfter(now) == DayStart(now) + Hours - now

(* evaluate: the month is looked at before the day *)
Evaluate(day, month) ==
  IF month >= MonthCap THEN <<"exhausted", "monthly">>
  ELSE IF day >= DayCap THEN <<"exhausted", "daily">>
  ELSE IF month * Alert[2] >= MonthCap * Alert[1] THEN <<"alert", "monthly">>
  ELSE IF day * Alert[2] >= DayCap * Alert[1] THEN <<"alert", "daily">>
  ELSE <<"ok", "none">>

MayCall(day, month) == Evaluate(day, month)[1] # "exhausted"

=============================================================================
