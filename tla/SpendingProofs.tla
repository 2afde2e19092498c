--------------------------- MODULE SpendingProofs ---------------------------
(***************************************************************************)
(* Why the cap is nearly kept, for any number of handlers, any prices and  *)
(* any caps, and why every single call is on the account.                  *)
(*                                                                         *)
(* The bound alone is not inductive: below the cap any number of calls may *)
(* be under way.  What holds is that each of them still has its share of   *)
(* the excess: once the day is over the cap no call is added to those      *)
(* under way, and a row that is added takes its caller from among them.    *)
(* At midnight the workers' open transactions get a second share, for they *)
(* may yet be checked by the new day and recorded on the old one.          *)
(***************************************************************************)
EXTENDS Spending, Client, FiniteSetTheorems, SequenceTheorems, WellFoundedInduction, TLAPS

Base == AtLeastZero(DayCap - 1)

UnderWay    == {c \in Callers : caller[c].pc = "calling"}
OpenOn(d)   == {c \in Workers : caller[c].pc # "idle" /\ caller[c].day = d}

(* The shares that are left *)
TodayShares ==
  \/ checked[today] < DayCap
  \/ checked[today] + Dearest * Cardinality(UnderWay) <= Base + Dearest * Cardinality(Callers)

PastShares ==
  \A d \in Days : d < today =>
    checked[d] + Dearest * Cardinality(OpenOn(d)) <= Base + Excess

FutureIsEmpty == \A d \in Days : d > today => checked[d] = 0

StampsArePast == \A c \in Callers : caller[c].day <= today

CapInv == SpendingTypeOK /\ TodayShares /\ PastShares /\ FutureIsEmpty /\ StampsArePast


------------------------------------------------------------------------------
LEMMA Times ==
  ASSUME NEW m \in Nat, NEW n \in Nat, m <= n
  PROVE  Dearest * m <= Dearest * n
<1>0. Dearest \in Nat
  BY SpendingAssumption
<1>1. PICK k \in Nat : n = m + k
  <2>1. n - m \in Nat /\ n = m + (n - m)
    OBVIOUS
  <2> QED BY <2>1
<1>2. Dearest * n = Dearest * m + Dearest * k
  BY <1>0, <1>1
<1>3. Dearest * k \in Nat /\ Dearest * m \in Nat
  BY <1>0
<1> QED BY <1>2, <1>3

(* What a smaller set of callers still has to come is no more *)
LEMMA Fewer ==
  ASSUME NEW S, NEW T, IsFiniteSet(S), T \subseteq S
  PROVE  /\ Dearest * Cardinality(T) \in Nat
         /\ Dearest * Cardinality(S) \in Nat
         /\ Dearest * Cardinality(T) <= Dearest * Cardinality(S)
<1>1. IsFiniteSet(T) /\ Cardinality(T) <= Cardinality(S)
  BY FS_Subset
<1>2. Cardinality(T) \in Nat /\ Cardinality(S) \in Nat
  BY <1>1, FS_CardinalityType
<1> QED BY <1>1, <1>2, Times, SpendingAssumption

(* ... and without one of them it is less by the cost of a call *)
LEMMA OneFewer ==
  ASSUME NEW S, NEW x \in S, NEW T, IsFiniteSet(S), T \subseteq S \ {x}
  PROVE  Dearest * Cardinality(T) + Dearest <= Dearest * Cardinality(S)
<1>1. /\ IsFiniteSet(S \ {x})
      /\ Cardinality(S \ {x}) = Cardinality(S) - 1
      /\ Cardinality(S) \in Nat /\ Cardinality(S \ {x}) \in Nat
  BY FS_RemoveElement, FS_CardinalityType
<1>2. Dearest * Cardinality(T) <= Dearest * Cardinality(S \ {x})
  BY <1>1, Fewer
<1>3. Dearest * Cardinality(S) = Dearest * Cardinality(S \ {x}) + Dearest
  BY <1>1, SpendingAssumption
<1>4. Dearest * Cardinality(T) \in Nat /\ Dearest * Cardinality(S \ {x}) \in Nat
  BY <1>1, Fewer
<1> QED BY <1>2, <1>3, <1>4, SpendingAssumption

LEMMA Finite ==
  /\ IsFiniteSet(Callers) /\ IsFiniteSet(Workers) /\ Workers \subseteq Callers
  /\ Cardinality(Callers) \in Nat /\ Cardinality(Workers) \in Nat
  /\ IsFiniteSet(UnderWay) /\ UnderWay \subseteq Callers
  /\ \A d : IsFiniteSet(OpenOn(d)) /\ OpenOn(d) \subseteq Workers
<1>1. IsFiniteSet(Callers) /\ IsFiniteSet(Workers)
  BY SpendingAssumption, FS_Union DEF Callers
<1>2. UnderWay \subseteq Callers /\ \A d : OpenOn(d) \subseteq Workers
  BY DEF UnderWay, OpenOn
<1> QED BY <1>1, <1>2, FS_Subset, FS_CardinalityType DEF Callers

LEMMA Sizes ==
  /\ Base \in Nat /\ Excess \in Nat
  /\ Excess = Dearest * Cardinality(Callers) + Dearest * Cardinality(Workers)
  /\ \A n \in Nat : n < DayCap => n <= Base
  /\ Dearest * Cardinality(Callers) \in Nat /\ Dearest * Cardinality(Workers) \in Nat
  BY Finite, SpendingAssumption, BudgetAssumption DEF Base, Excess, AtLeastZero

(* A handler that is let through found the day under the cap *)
LEMMA CheckLooks ==
  ASSUME SpendingTypeOK, MayCall(SpentOn(today), SpentInMonth)
  PROVE  checked[today] < DayCap
<1>1. checked[today] \in Nat /\ pictures[today] \in Nat /\ DayCap \in Nat
  BY BudgetAssumption DEF SpendingTypeOK
<1>2. ~(SpentOn(today) >= DayCap)
  BY DEF MayCall, Evaluate
<1> QED BY <1>1, <1>2 DEF SpentOn

(* No row is written and no call is begun: the shares stay what they were *)
LEMMA Quiet ==
  ASSUME CapInv, SpendingTypeOK', UNCHANGED <<today, checked>>,
         UnderWay' \subseteq UnderWay,
         \A d \in Days : d < today => OpenOn(d)' \subseteq OpenOn(d)
  PROVE  TodayShares' /\ PastShares' /\ FutureIsEmpty'
<1>1. Dearest * Cardinality(UnderWay') <= Dearest * Cardinality(UnderWay)
      /\ Dearest * Cardinality(UnderWay') \in Nat /\ Dearest * Cardinality(UnderWay) \in Nat
  BY Finite, Fewer
<1>2. \A d \in Days : d < today =>
        /\ Dearest * Cardinality(OpenOn(d)') <= Dearest * Cardinality(OpenOn(d))
        /\ Dearest * Cardinality(OpenOn(d)') \in Nat /\ Dearest * Cardinality(OpenOn(d)) \in Nat
  BY Finite, Fewer
<1>3. checked \in [Days -> Nat] /\ today \in Days
  BY DEF CapInv, SpendingTypeOK
<1>4. TodayShares'
  BY <1>1, <1>3, Sizes DEF CapInv, TodayShares, Base
<1>5. PastShares'
  <2> SUFFICES ASSUME NEW d \in Days, d < today
               PROVE  checked[d] + Dearest * Cardinality(OpenOn(d)') <= Base + Excess
    BY DEF PastShares, Base, Excess, Days
  <2>1. checked[d] + Dearest * Cardinality(OpenOn(d)) <= Base + Excess
    BY DEF CapInv, PastShares
  <2> QED BY <1>2, <1>3, <2>1, Sizes
<1> QED BY <1>4, <1>5 DEF CapInv, FutureIsEmpty

LEMMA TypeStep == SpendingTypeOK /\ [SpendingNext]_spendingVars => SpendingTypeOK'
<1> SUFFICES ASSUME SpendingTypeOK, [SpendingNext]_spendingVars PROVE SpendingTypeOK'
  OBVIOUS
<1> USE SpendingAssumption DEF SpendingTypeOK
<1>1. ASSUME NEW c \in Callers, Begin(c) PROVE SpendingTypeOK'
  BY <1>1 DEF Begin
<1>2. ASSUME NEW c \in Callers, Check(c) PROVE SpendingTypeOK'
  <2>1. Resting \in [pc : {"idle", "begun", "calling"}, day : Days]
    BY DEF Resting, Days
  <2>2. [caller[c] EXCEPT !.pc = "calling"] \in [pc : {"idle", "begun", "calling"}, day : Days]
    OBVIOUS
  <2> QED BY <1>2, <2>1, <2>2 DEF Check
<1>3. ASSUME NEW c \in Callers, RecordUsage(c) PROVE SpendingTypeOK'
  <2>1. PICK cost \in 0..Dearest : checked' = [checked EXCEPT ![StampOf(c)] = @ + cost]
    BY <1>3 DEF RecordUsage
  <2>2. StampOf(c) \in Days
    BY DEF StampOf
  <2>3. checked[StampOf(c)] + cost \in Nat
    BY <2>2
  <2>4. checked' \in [Days -> Nat]
    BY <2>1, <2>2, <2>3
  <2> QED BY <1>3, <2>4 DEF RecordUsage, Resting, Days
<1>4. ASSUME NEW c \in Callers, RollBack(c) PROVE SpendingTypeOK'
  BY <1>4 DEF RollBack, Resting, Days
<1>5. CASE DescribePicture
  <2>1. PICK cost \in 1..Dearest : pictures' = [pictures EXCEPT ![today] = @ + cost]
    BY <1>5 DEF DescribePicture
  <2>2. pictures[today] + cost \in Nat
    OBVIOUS
  <2> QED BY <1>5, <2>1, <2>2 DEF DescribePicture
<1>6. CASE Midnight
  BY <1>6 DEF Midnight, Days
<1>7. CASE UNCHANGED spendingVars
  BY <1>7 DEF spendingVars
<1> QED BY <1>1, <1>2, <1>3, <1>4, <1>5, <1>6, <1>7 DEF SpendingNext

LEMMA StampStep ==
  SpendingTypeOK /\ StampsArePast /\ [SpendingNext]_spendingVars => StampsArePast'
<1> SUFFICES ASSUME SpendingTypeOK, StampsArePast, [SpendingNext]_spendingVars
             PROVE  StampsArePast'
  OBVIOUS
<1>1. today \in Nat /\ today' \in Nat /\ today <= today'
  BY SpendingAssumption
     DEF SpendingTypeOK, Days, SpendingNext, spendingVars, Begin, Check, RecordUsage, RollBack,
         DescribePicture, Midnight
<1>2. \A c \in Callers : caller[c].day \in Nat
  BY SpendingAssumption DEF SpendingTypeOK, Days
<1>3. \A c \in Callers : caller'[c].day \in {caller[c].day, today, 0}
  BY DEF SpendingTypeOK, SpendingNext, spendingVars, Begin, Check, RecordUsage, RollBack,
         DescribePicture, Midnight, Resting
<1> QED BY <1>1, <1>2, <1>3 DEF StampsArePast

LEMMA CapStep == CapInv /\ [SpendingNext]_spendingVars => CapInv'
<1> SUFFICES ASSUME CapInv, [SpendingNext]_spendingVars PROVE CapInv'
  OBVIOUS
<1> USE DEF CapInv
<1>0. SpendingTypeOK' /\ StampsArePast'
  BY TypeStep, StampStep
<1>t. checked \in [Days -> Nat] /\ today \in Days /\ today \in Nat /\ Days \subseteq Nat
      /\ caller \in [Callers -> [pc : {"idle", "begun", "calling"}, day : Days]]
  BY SpendingAssumption DEF SpendingTypeOK, Days
<1>1. ASSUME NEW c \in Callers, Begin(c) PROVE CapInv'
  <2>1. UnderWay' \subseteq UnderWay
    BY <1>1, <1>t DEF Begin, UnderWay
  <2>2. \A d \in Days : d < today => OpenOn(d)' \subseteq OpenOn(d)
    BY <1>1, <1>t DEF Begin, OpenOn
  <2> QED BY <1>0, <1>1, <2>1, <2>2, Quiet DEF Begin
<1>2. ASSUME NEW c \in Callers, Check(c) PROVE CapInv'
  <2>1. UNCHANGED <<today, checked>>
    BY <1>2 DEF Check
  <2>2. \A d \in Days : d < today => OpenOn(d)' \subseteq OpenOn(d)
    BY <1>2, <1>t DEF Check, OpenOn, Resting
  <2>3. CASE MayCall(SpentOn(today), SpentInMonth)
    <3>1. TodayShares'
      BY <2>1, <2>3, CheckLooks DEF TodayShares
    <3>2. ASSUME NEW d \in Days, d < today
          PROVE  checked[d] + Dearest * Cardinality(OpenOn(d)') <= Base + Excess
      <4>1. /\ Dearest * Cardinality(OpenOn(d)') <= Dearest * Cardinality(OpenOn(d))
            /\ Dearest * Cardinality(OpenOn(d)') \in Nat
            /\ Dearest * Cardinality(OpenOn(d)) \in Nat
        BY <2>2, <3>2, Finite, Fewer
      <4>2. checked[d] + Dearest * Cardinality(OpenOn(d)) <= Base + Excess
        BY <3>2 DEF PastShares
      <4> QED BY <1>t, <4>1, <4>2, Sizes
    <3> QED BY <1>0, <2>1, <3>1, <3>2 DEF PastShares, FutureIsEmpty, Base, Excess, Days
  <2>4. CASE ~MayCall(SpentOn(today), SpentInMonth)
    <3>1. UnderWay' \subseteq UnderWay
      BY <1>2, <1>t, <2>4 DEF Check, UnderWay, Resting
    <3> QED BY <1>0, <2>1, <2>2, <3>1, Quiet
  <2> QED BY <2>3, <2>4
<1>3. ASSUME NEW c \in Callers, RecordUsage(c) PROVE CapInv'
  <2> DEFINE s == StampOf(c)
  <2>1. PICK cost \in 0..Dearest : checked' = [checked EXCEPT ![s] = @ + cost]
    BY <1>3 DEF RecordUsage
  <2>2. /\ s \in Days /\ s <= today /\ cost \in Nat /\ cost <= Dearest /\ Dearest \in Nat
        /\ c \in UnderWay /\ today' = today
        /\ caller' = [caller EXCEPT ![c] = Resting]
    BY <1>3, <1>t, SpendingAssumption DEF RecordUsage, StampOf, StampsArePast, UnderWay
  <2>3. UnderWay' \subseteq UnderWay \ {c}
    BY <1>t, <2>2 DEF UnderWay, Resting
  <2>4. \A d \in Days : OpenOn(d)' \subseteq OpenOn(d) \ {c}
    BY <1>t, <2>2 DEF OpenOn, Resting
  <2>5. /\ Dearest * Cardinality(UnderWay') + Dearest <= Dearest * Cardinality(UnderWay)
        /\ Dearest * Cardinality(UnderWay') + Dearest <= Dearest * Cardinality(Callers)
        /\ Dearest * Cardinality(UnderWay') \in Nat /\ Dearest * Cardinality(UnderWay) \in Nat
    <3>1. UnderWay' \subseteq Callers \ {c} /\ UnderWay' \subseteq UnderWay
      BY <2>3, Finite
    <3> QED BY <2>2, <2>3, <3>1, Finite, Fewer, OneFewer
  <2>6. TodayShares'
    <3>1. CASE s = today
      <4>1. checked'[today] = checked[today] + cost
        BY <1>t, <2>1, <3>1
      <4>2. CASE checked[today] < DayCap
        <5>1. checked[today] <= Base
          BY <1>t, <4>2, Sizes
        <5>2. checked'[today] + Dearest * Cardinality(UnderWay')
                <= Base + Dearest * Cardinality(Callers)
          BY <1>t, <2>2, <2>5, <4>1, <5>1, Sizes
        <5> QED BY <2>2, <5>2 DEF TodayShares, Base
      <4>3. CASE ~(checked[today] < DayCap)
        <5>1. checked[today] + Dearest * Cardinality(UnderWay)
                <= Base + Dearest * Cardinality(Callers)
          BY <4>3 DEF TodayShares
        <5>2. checked'[today] + Dearest * Cardinality(UnderWay')
                <= Base + Dearest * Cardinality(Callers)
          BY <1>t, <2>2, <2>5, <4>1, <5>1, Sizes
        <5> QED BY <2>2, <5>2 DEF TodayShares, Base
      <4> QED BY <4>2, <4>3
    <3>2. CASE s # today
      <4>1. checked'[today] = checked[today]
        BY <1>t, <2>1, <3>2
      <4>2. CASE checked[today] < DayCap
        BY <2>2, <4>1, <4>2 DEF TodayShares
      <4>3. CASE ~(checked[today] < DayCap)
        <5>1. checked[today] + Dearest * Cardinality(UnderWay)
                <= Base + Dearest * Cardinality(Callers)
          BY <4>3 DEF TodayShares
        <5>2. checked'[today] + Dearest * Cardinality(UnderWay')
                <= Base + Dearest * Cardinality(Callers)
          BY <1>t, <2>2, <2>5, <4>1, <5>1, Sizes
        <5> QED BY <2>2, <5>2 DEF TodayShares, Base
      <4> QED BY <4>2, <4>3
    <3> QED BY <3>1, <3>2
  <2>7. PastShares'
    <3> SUFFICES ASSUME NEW d \in Days, d < today
                 PROVE  checked'[d] + Dearest * Cardinality(OpenOn(d)') <= Base + Excess
      BY <2>2 DEF PastShares, Base, Excess, Days
    <3>1. checked[d] + Dearest * Cardinality(OpenOn(d)) <= Base + Excess
      BY DEF PastShares
    <3>2. /\ Dearest * Cardinality(OpenOn(d)') <= Dearest * Cardinality(OpenOn(d))
          /\ Dearest * Cardinality(OpenOn(d)') \in Nat /\ Dearest * Cardinality(OpenOn(d)) \in Nat
      BY <2>4, Finite, Fewer
    <3>3. CASE s = d
      <4>1. c \in OpenOn(d)
        BY <1>3, <1>t, <3>3 DEF StampOf, OpenOn, RecordUsage
      <4>2. Dearest * Cardinality(OpenOn(d)') + Dearest <= Dearest * Cardinality(OpenOn(d))
        BY <2>4, <4>1, Finite, OneFewer
      <4>3. checked'[d] = checked[d] + cost
        BY <1>t, <2>1, <3>3
      <4> QED BY <1>t, <2>2, <3>1, <3>2, <4>2, <4>3, Sizes
    <3>4. CASE s # d
      <4>1. checked'[d] = checked[d]
        BY <1>t, <2>1, <3>4
      <4> QED BY <1>t, <3>1, <3>2, <4>1, Sizes
    <3> QED BY <3>3, <3>4
  <2>8. FutureIsEmpty'
    BY <1>t, <2>1, <2>2 DEF FutureIsEmpty, Days
  <2> QED BY <1>0, <2>6, <2>7, <2>8
<1>4. ASSUME NEW c \in Callers, RollBack(c) PROVE CapInv'
  <2>1. UnderWay' \subseteq UnderWay
    BY <1>4, <1>t DEF RollBack, UnderWay, Resting
  <2>2. \A d \in Days : d < today => OpenOn(d)' \subseteq OpenOn(d)
    BY <1>4, <1>t DEF RollBack, OpenOn, Resting
  <2> QED BY <1>0, <1>4, <2>1, <2>2, Quiet DEF RollBack
<1>5. CASE DescribePicture
  BY <1>0, <1>5, Quiet DEF DescribePicture, UnderWay, OpenOn
<1>6. CASE Midnight
  <2>1. today' = today + 1 /\ today' \in Days /\ UnderWay' = UnderWay
        /\ UNCHANGED <<checked, caller>> /\ \A d : OpenOn(d)' = OpenOn(d)
    BY <1>6, <1>t, SpendingAssumption DEF Midnight, Days, UnderWay, OpenOn
  <2>2. checked[today'] = 0
    BY <1>t, <2>1 DEF FutureIsEmpty
  <2>3. TodayShares'
    <3>1. Dearest * Cardinality(UnderWay) <= Dearest * Cardinality(Callers)
          /\ Dearest * Cardinality(UnderWay) \in Nat
      BY Finite, Fewer
    <3>2. checked'[today'] + Dearest * Cardinality(UnderWay')
            <= Base + Dearest * Cardinality(Callers)
      BY <2>1, <2>2, <3>1, Sizes
    <3> QED BY <3>2 DEF TodayShares, Base
  <2>4. PastShares'
    <3> SUFFICES ASSUME NEW d \in Days, d < today'
                 PROVE  checked[d] + Dearest * Cardinality(OpenOn(d)) <= Base + Excess
      BY <2>1 DEF PastShares, Base, Excess, Days
    <3>1. CASE d < today
      BY <3>1 DEF PastShares
    <3>2. CASE d = today
      <4>1. Dearest * Cardinality(OpenOn(d)) <= Dearest * Cardinality(Workers)
            /\ Dearest * Cardinality(OpenOn(d)) \in Nat
        BY Finite, Fewer
      <4>2. Dearest * Cardinality(UnderWay) \in Nat
        BY Finite, Fewer
      <4>3. checked[d] <= Base + Dearest * Cardinality(Callers)
        <5>1. CASE checked[today] < DayCap
          BY <1>t, <3>2, <5>1, Sizes
        <5>2. CASE ~(checked[today] < DayCap)
          <6>1. checked[today] + Dearest * Cardinality(UnderWay)
                  <= Base + Dearest * Cardinality(Callers)
            BY <5>2 DEF TodayShares
          <6> QED BY <1>t, <3>2, <4>2, <6>1, Sizes
        <5> QED BY <5>1, <5>2
      <4> QED BY <1>t, <4>1, <4>3, Sizes
    <3> QED BY <1>t, <2>1, <3>1, <3>2
  <2>5. FutureIsEmpty'
    BY <1>t, <2>1 DEF FutureIsEmpty, Days
  <2> QED BY <1>0, <2>3, <2>4, <2>5
<1>7. CASE UNCHANGED spendingVars
  BY <1>0, <1>7, Quiet DEF spendingVars, UnderWay, OpenOn
<1> QED BY <1>1, <1>2, <1>3, <1>4, <1>5, <1>6, <1>7 DEF SpendingNext

LEMMA CapStart == SpendingInit => CapInv
<1> SUFFICES ASSUME SpendingInit PROVE CapInv
  OBVIOUS
<1>1. SpendingTypeOK
  BY SpendingAssumption DEF SpendingInit, SpendingTypeOK, Days, Resting
<1>2. today = 0 /\ 0 \in Days /\ Days \subseteq Nat /\ checked = [d \in Days |-> 0]
  BY SpendingAssumption DEF SpendingInit, Days
<1>3. TodayShares
  <2>1. Dearest * Cardinality(UnderWay) <= Dearest * Cardinality(Callers)
        /\ Dearest * Cardinality(UnderWay) \in Nat
    BY Finite, Fewer
  <2>2. checked[today] = 0
    BY <1>2
  <2> QED BY <2>1, <2>2, Sizes DEF TodayShares
<1>4. PastShares /\ FutureIsEmpty
  BY <1>2 DEF PastShares, FutureIsEmpty
<1>5. StampsArePast
  BY <1>2 DEF SpendingInit, StampsArePast, Resting
<1> QED BY <1>1, <1>3, <1>4, <1>5 DEF CapInv

LEMMA CapFollows == CapInv => CapIsNearlyKept
<1> SUFFICES ASSUME CapInv, NEW d \in Days PROVE checked[d] <= Base + Excess
  BY DEF CapIsNearlyKept, Base
<1>t. checked[d] \in Nat /\ d \in Nat /\ today \in Nat
  BY SpendingAssumption DEF CapInv, SpendingTypeOK, Days
<1>1. CASE d < today
  <2>1. checked[d] + Dearest * Cardinality(OpenOn(d)) <= Base + Excess
    BY <1>1 DEF CapInv, PastShares
  <2>2. Dearest * Cardinality(OpenOn(d)) \in Nat
    BY Finite, Fewer
  <2> QED BY <1>t, <2>1, <2>2, Sizes
<1>2. CASE d = today
  <2>1. Dearest * Cardinality(UnderWay) \in Nat
    BY Finite, Fewer
  <2>2. CASE checked[today] < DayCap
    BY <1>t, <1>2, <2>2, Sizes
  <2>3. CASE ~(checked[today] < DayCap)
    <3>1. checked[today] + Dearest * Cardinality(UnderWay) <= Base + Dearest * Cardinality(Callers)
      BY <2>3 DEF CapInv, TodayShares
    <3> QED BY <1>t, <1>2, <2>1, <3>1, Sizes
  <2> QED BY <2>2, <2>3
<1>3. CASE d > today
  <2>1. checked[d] = 0
    BY <1>3 DEF CapInv, FutureIsEmpty
  <2> QED BY <2>1, Sizes
<1> QED BY <1>t, <1>1, <1>2, <1>3

(* The types of the account and of its callers hold in every state *)
THEOREM SpendingTypeCorrect == SpendingSpec => []SpendingTypeOK
<1>1. CapInv => SpendingTypeOK
  BY DEF CapInv
<1> QED BY <1>1, CapStart, CapStep, PTL DEF SpendingSpec

(* ai/budget.py: however many handlers check before the others' rows are   *)
(* there, no day's rows of checked calls pass the cap by more than one     *)
(* call for each handler and one more for each worker.                     *)
THEOREM CapHolds == SpendingSpec => []CapIsNearlyKept
<1> QED BY CapStart, CapStep, CapFollows, PTL DEF SpendingSpec

(* A table of prices has a highest one: among the sets of models that have *)
(* none a smallest could be left out one model more.                       *)
LEMMA HighestPrice ==
  ASSUME NEW price \in [Models -> Nat]
  PROVE  \E top \in {price[m] : m \in Models} : \A m \in Models : top >= price[m]
<1> DEFINE Top(S) == \E h \in S : \A m \in S : price[h] >= price[m]
           Topless == {S \in SUBSET Models : S # {} /\ ~Top(S)}
<1>1. SUFFICES ASSUME Topless # {} PROVE FALSE
  <2>1. Models \notin Topless
    BY <1>1
  <2>2. Top(Models)
    BY <2>1, BudgetAssumption
  <2> QED BY <2>2
<1>2. FiniteSubsetsOf(Models) = SUBSET Models
  BY BudgetAssumption, FS_FiniteSubsetsOfFinite
<1>3. Topless \subseteq FiniteSubsetsOf(Models)
  BY <1>2
<1>4. IsWellFoundedOn(StrictSubsetOrdering(Models), FiniteSubsetsOf(Models))
  BY FS_StrictSubsetOrderingWellFounded
<1> HIDE DEF Topless
<1>5. PICK S \in Topless : \A U \in Topless : ~(<<U, S>> \in StrictSubsetOrdering(Models))
  BY <1>1, <1>3, <1>4, WFMin, Zenon
<1> USE DEF Topless
<1>6. PICK x \in S : TRUE
  OBVIOUS
<1>7. CASE S = {x}
  <2>1. price[x] \in Nat /\ price[x] >= price[x]
    OBVIOUS
  <2> QED BY <1>7, <2>1
<1>8. CASE S # {x}
  <2> DEFINE U == S \ {x}
  <2>1. U # {} /\ U \in SUBSET Models /\ S \in SUBSET Models /\ U \subseteq S /\ U # S
    BY <1>6, <1>8
  <2>2. <<U, S>> \in StrictSubsetOrdering(Models)
    BY <2>1 DEF StrictSubsetOrdering
  <2>3. U \notin Topless
    BY <1>5, <2>2
  <2>4. Top(U)
    BY <2>1, <2>3
  <2>5. PICK h \in U : \A m \in U : price[h] >= price[m]
    BY <2>4
  <2>6. price[h] \in Nat /\ price[x] \in Nat /\ h \in S /\ \A m \in S : price[m] \in Nat
    BY <2>1
  <2>7. CASE price[h] >= price[x]
    <3>1. \A m \in S : price[h] >= price[m]
      BY <2>5, <2>7
    <3> QED BY <2>6, <3>1
  <2>8. CASE ~(price[h] >= price[x])
    <3>1. \A m \in S : price[x] >= price[m]
      BY <2>5, <2>6, <2>8
    <3> QED BY <3>1
  <2> QED BY <2>7, <2>8
<1> QED BY <1>7, <1>8

(* budget.py:12-13: a model that is not in the table is billed with its    *)
(* highest prices, so that no model of the table would have cost more.     *)
THEOREM UnknownIsDearest ==
  ASSUME NEW known \in Models, NEW unknown, unknown \notin Models,
         NEW owner, owner.model # known, owner.model # unknown,
         NEW input \in Int, NEW output \in Int, NEW cached \in Int
  PROVE  CostMicros(known, owner, input, output, cached)
           <= CostMicros(unknown, owner, input, output, cached)
<1> DEFINE in  == AtLeastZero(input) + AtLeastZero(cached)
           out == AtLeastZero(output)
<1>1. in \in Nat /\ out \in Nat
  BY DEF AtLeastZero
<1>2. PriceFor(known, owner) = <<InputPrice[known], OutputPrice[known]>>
      /\ PriceFor(unknown, owner) = Fallback
  BY DEF PriceFor
<1>3. InputPrice[known] \in Nat /\ OutputPrice[known] \in Nat
  BY BudgetAssumption
<1>4. /\ Fallback[1] \in Nat /\ Fallback[1] >= InputPrice[known]
      /\ Fallback[2] \in Nat /\ Fallback[2] >= OutputPrice[known]
  BY BudgetAssumption, HighestPrice DEF Fallback
<1>5. \A n, p, q \in Nat : p <= q => n * p <= n * q
  <2> TAKE n, p, q \in Nat
  <2> HAVE p <= q
  <2>1. PICK k \in Nat : q = p + k
    <3>1. q - p \in Nat /\ q = p + (q - p)
      OBVIOUS
    <3> QED BY <3>1
  <2>2. n * q = n * p + n * k
    BY <2>1
  <2>3. n * k \in Nat /\ n * p \in Nat
    OBVIOUS
  <2> QED BY <2>2, <2>3
<1>6. /\ in * InputPrice[known] <= in * Fallback[1]
      /\ out * OutputPrice[known] <= out * Fallback[2]
  BY <1>1, <1>3, <1>4, <1>5
<1>7. /\ CostMicros(known, owner, input, output, cached)
           = in * InputPrice[known] + out * OutputPrice[known]
      /\ CostMicros(unknown, owner, input, output, cached)
           = in * Fallback[1] + out * Fallback[2]
  BY <1>2 DEF CostMicros
<1>8. /\ in * InputPrice[known] \in Nat /\ in * Fallback[1] \in Nat
      /\ out * OutputPrice[known] \in Nat /\ out * Fallback[2] \in Nat
  BY <1>1, <1>3, <1>4
<1> QED BY <1>6, <1>7, <1>8

------------------------------------------------------------------------------
(* One call.  While a request is out, only those before it can have been   *)
(* billed without an answer, and each of them was an attempt of the loop   *)
(* or of the library.                                                      *)
Errors == {"none", "reported", "cut", "refused", "status", "empty", "shape", "blank", "connection",
           "http", "not json", "not an object", "exception"}
Stops  == {"none", "error", "max_tokens", "incomplete", "refusal", "completed", "failed", "end_turn"}
Raw    == [text : {"text", "none"}, error : Errors, stop : Stops, tokens : {0, Cost}]

OneOrOther(raw) ==
  \/ raw.text # "none" /\ raw.error = "none"
  \/ raw.text = "none" /\ raw.error # "none"

ClientTypeOK ==
  /\ callPc \in {"ready", "posting", "waiting", "asking", "done"}
  /\ attempt \in 0..MaxRetries /\ again \in 0..LibraryRetries /\ pauses \in Seq(0..MaxBackoff)
  /\ result \in Raw /\ billed \in Nat

PausesAreCounted ==
  /\ callPc = "waiting" => Len(pauses) = attempt + 1 /\ attempt < MaxRetries
  /\ callPc # "waiting" => Len(pauses) = attempt

Before == attempt + again

BillIsKnown ==
  /\ callPc = "ready" => Before = 0 /\ billed = 0
  /\ callPc \in {"posting", "asking"} => billed <= Before * Cost
  /\ callPc = "waiting" => billed <= Before * Cost + Cost
  /\ callPc = "done" =>
       /\ result.tokens <= billed
       /\ billed <= result.tokens + Before * Cost + (IF result.stop = "none" THEN Cost ELSE 0)

ClientInv ==
  ClientTypeOK /\ PausesAreCounted /\ BillIsKnown /\ (callPc = "done" => OneOrOther(result))

(* What comes of a body or a response is a text or an error, with its tokens *)
LEMMA ReadIsWhole ==
  ASSUME NEW body \in Bodies
  PROVE  LET raw == ReadOutput(body)
         IN  raw \in Raw /\ OneOrOther(raw) /\ raw.tokens = body.tokens
<1>1. body.tokens \in {0, Cost} /\ body.status \in {"none", "completed", "incomplete", "failed"}
  BY DEF Bodies
<1>2. ASSUME NEW error \in Errors, NEW stop \in Stops
      PROVE  LET raw == Whole(body, error, stop)
             IN  raw \in Raw /\ OneOrOther(raw) /\ raw.tokens = body.tokens
  BY <1>1 DEF Whole, Raw, OneOrOther, Errors
<1>3. \E error \in Errors, stop \in Stops : ReadOutput(body) = Whole(body, error, stop)
  BY <1>1 DEF ReadOutput, Errors, Stops
<1> QED BY <1>2, <1>3

LEMMA FinishIsWhole ==
  ASSUME NEW response \in Responses
  PROVE  LET raw == Finish(response)
         IN  raw \in Raw /\ OneOrOther(raw) /\ raw.tokens = response.tokens
<1>1. response.tokens \in {0, Cost} /\ response.stop \in {"end_turn", "max_tokens", "refusal"}
  BY DEF Responses
<1>2. ASSUME NEW error \in Errors, NEW stop \in Stops
      PROVE  LET raw == Whole(response, error, stop)
             IN  raw \in Raw /\ OneOrOther(raw) /\ raw.tokens = response.tokens
  BY <1>1 DEF Whole, Raw, OneOrOther, Errors
<1>3. \E error \in Errors, stop \in Stops : Finish(response) = Whole(response, error, stop)
  BY <1>1 DEF Finish, Errors, Stops
<1> QED BY <1>2, <1>3

LEMMA UnderstoodIsWhole ==
  ASSUME NEW raw \in Raw, OneOrOther(raw), NEW shape, NEW consumer
  PROVE  LET answer == Understood(raw, shape, consumer)
         IN  answer \in Raw /\ OneOrOther(answer) /\ answer.tokens = raw.tokens
  BY DEF Understood, Raw, OneOrOther, Errors

LEMMA FailedIsWhole ==
  ASSUME NEW error \in Errors, error # "none"
  PROVE  /\ Failed(error) \in Raw /\ OneOrOther(Failed(error))
         /\ Failed(error).tokens = 0 /\ Failed(error).stop = "none"
<1>1. NoResult \in Raw /\ NoResult.text = "none" /\ NoResult.tokens = 0 /\ NoResult.stop = "none"
  BY DEF NoResult, Raw, Errors, Stops
<1> QED BY <1>1 DEF Failed, Raw, OneOrOther

LEMMA PauseIsShort ==
  ASSUME NEW n \in 0..MaxRetries
  PROVE  /\ Backoff(n) \in 0..MaxBackoff
         /\ \A advice \in Advice : RetryAfterHeader(advice, Backoff(n)) \in 0..MaxBackoff
<1>1. Backoff(n) \in 0..MaxBackoff
  BY ClientAssumption, PowersAssumption DEF Backoff, Smaller
<1>2. ASSUME NEW advice \in Advice
      PROVE  RetryAfterHeader(advice, Backoff(n)) \in 0..MaxBackoff
  <2>1. advice[1] = "none" \/ advice[2] \in Int
    BY ClientAssumption DEF Advice
  <2> QED BY <1>1, <2>1, ClientAssumption DEF RetryAfterHeader, Smaller, Larger
<1> QED BY <1>1, <1>2

LEMMA ClientStart == ClientInit => ClientInv
<1>1. NoResult \in Raw
  BY DEF NoResult, Raw, Errors, Stops
<1> QED BY <1>1, ClientAssumption
    DEF ClientInit, ClientInv, ClientTypeOK, PausesAreCounted, Before, BillIsKnown, OneOrOther

(* A call that ends, and one that goes round *)
LEMMA Numbers ==
  ASSUME ClientInv
  PROVE  /\ attempt \in Nat /\ again \in Nat /\ Before \in Nat /\ Before * Cost \in Nat
         /\ billed \in Nat /\ Cost \in Nat /\ MaxRetries \in Nat /\ LibraryRetries \in Nat
<1>1. attempt \in Nat /\ again \in Nat /\ Cost \in Nat /\ Before \in Nat
  BY ClientAssumption DEF ClientInv, ClientTypeOK, Before
<1>2. Before * Cost \in Nat
  BY <1>1
<1> QED BY <1>1, <1>2, ClientAssumption DEF ClientInv, ClientTypeOK

LEMMA EndKeeps ==
  ASSUME ClientInv, callPc # "waiting", NEW outcome \in Raw, OneOrOther(outcome), End(outcome),
         billed' \in Nat, outcome.tokens <= billed',
         billed' <= outcome.tokens + Before * Cost + (IF outcome.stop = "none" THEN Cost ELSE 0)
  PROVE  ClientInv'
<1>1. Before' = Before
  BY DEF End, Before
<1> QED BY <1>1 DEF ClientInv, ClientTypeOK, PausesAreCounted, BillIsKnown, OneOrOther, End

(* No answer: the request may have been charged for, and nothing is known  *)
LEMMA FailureKeeps ==
  ASSUME ClientInv, callPc \in {"posting", "asking"}, NEW error \in Errors, error # "none",
         End(Failed(error)), billed' \in {billed, billed + Cost}
  PROVE  ClientInv'
<1>1. billed <= Before * Cost
  BY DEF ClientInv, BillIsKnown
<1>2. billed' \in Nat /\ 0 <= billed' /\ billed' <= 0 + Before * Cost + Cost
  BY <1>1, Numbers
<1> QED BY <1>2, FailedIsWhole, EndKeeps

(* An answer: what it cost is in it                                        *)
LEMMA AnswerKeeps ==
  ASSUME ClientInv, callPc \in {"posting", "asking"}, NEW answer \in Raw, OneOrOther(answer),
         End(answer), billed' = billed + answer.tokens
  PROVE  ClientInv'
<1>1. billed <= Before * Cost
  BY DEF ClientInv, BillIsKnown
<1>2. answer.tokens \in Nat
  BY Numbers DEF Raw
<1>3. /\ billed' \in Nat /\ answer.tokens <= billed'
      /\ billed' <= answer.tokens + Before * Cost + (IF answer.stop = "none" THEN Cost ELSE 0)
  BY <1>1, <1>2, Numbers
<1> QED BY <1>3, EndKeeps

LEMMA AgainKeeps ==
  ASSUME ClientInv, callPc = "posting", NEW error \in Errors, error # "none",
         NEW wait \in 0..MaxBackoff, TryAgain(error, wait), billed' \in {billed, billed + Cost}
  PROVE  ClientInv'
<1>1. CASE attempt < MaxRetries
  <2>1. /\ callPc' = "waiting" /\ pauses' = Append(pauses, wait)
        /\ result' = Failed(error) /\ UNCHANGED <<attempt, again>> /\ Before' = Before
    BY <1>1 DEF TryAgain, Before
  <2>2. pauses' \in Seq(0..MaxBackoff) /\ Len(pauses') = attempt + 1
    BY <2>1 DEF ClientInv, ClientTypeOK, PausesAreCounted
  <2>3. billed' \in Nat /\ billed' <= Before * Cost + Cost
    BY Numbers DEF ClientInv, BillIsKnown
  <2> QED BY <1>1, <2>1, <2>2, <2>3, FailedIsWhole
          DEF ClientInv, ClientTypeOK, PausesAreCounted, BillIsKnown
<1>2. CASE ~(attempt < MaxRetries)
  BY <1>2, FailureKeeps DEF TryAgain
<1> QED BY <1>1, <1>2

LEMMA OneMoreBefore ==
  ASSUME ClientInv, Before' = Before + 1
  PROVE  Before' * Cost = Before * Cost + Cost
  BY Numbers

LEMMA ClientStep ==
  ASSUME ClientInv, [ClientNext]_clientVars
  PROVE  ClientInv'
<1>1. ASSUME Post \/ AskAnthropic PROVE ClientInv'
  <2>1. Before = 0 /\ billed = 0 /\ Before' = 0 /\ 0 * Cost = 0
    BY <1>1, Numbers DEF Post, AskAnthropic, ClientInv, BillIsKnown, Before
  <2> QED BY <1>1, <2>1
          DEF Post, AskAnthropic, ClientInv, ClientTypeOK, PausesAreCounted, BillIsKnown
<1>2. CASE Disconnect
  BY <1>2, AgainKeeps, PauseIsShort DEF Disconnect, Errors, ClientInv, ClientTypeOK
<1>3. CASE Busy
  BY <1>3, AgainKeeps, PauseIsShort DEF Busy, Errors, ClientInv, ClientTypeOK
<1>4. CASE Refuse
  BY <1>4, FailureKeeps DEF Refuse, Errors
<1>5. CASE Garble
  BY <1>5, FailureKeeps DEF Garble, Errors
<1>6. CASE Respond
  <2>1. PICK body \in Bodies, shape \in Shapes, consumer \in Consumers :
          /\ End(Understood(ReadOutput(body), shape, consumer))
          /\ billed' = billed + body.tokens
    BY <1>6 DEF Respond
  <2> DEFINE answer == Understood(ReadOutput(body), shape, consumer)
  <2>2. answer \in Raw /\ OneOrOther(answer) /\ answer.tokens = body.tokens
    BY ReadIsWhole, UnderstoodIsWhole
  <2>3. callPc = "posting" /\ End(answer)
    BY <1>6, <2>1 DEF Respond
  <2> HIDE DEF answer
  <2> QED BY <2>1, <2>2, <2>3, AnswerKeeps
<1>7. CASE WakeUp
  <2>1. Before' = Before + 1
    BY <1>7, Numbers DEF WakeUp, Before
  <2>2. attempt' \in 0..MaxRetries
    BY <1>7, Numbers DEF WakeUp, ClientInv, PausesAreCounted
  <2> QED BY <1>7, <2>1, <2>2, OneMoreBefore
          DEF WakeUp, ClientInv, ClientTypeOK, PausesAreCounted, BillIsKnown
<1>8. CASE LibraryAsksAgain
  <2>1. Before' = Before + 1
    BY <1>8, Numbers DEF LibraryAsksAgain, Before
  <2>2. again' \in 0..LibraryRetries
    BY <1>8, Numbers DEF LibraryAsksAgain
  <2>3. callPc' = "asking" /\ billed' \in Nat /\ billed' <= Before' * Cost
    BY <1>8, <2>1, OneMoreBefore, Numbers DEF LibraryAsksAgain, ClientInv, BillIsKnown
  <2> QED BY <1>8, <2>2, <2>3
          DEF LibraryAsksAgain, ClientInv, ClientTypeOK, PausesAreCounted, BillIsKnown
<1>9. CASE LibraryRaises
  BY <1>9, FailureKeeps DEF LibraryRaises, Errors
<1>10. CASE LibraryReturns
  <2>1. PICK response \in Responses, shape \in Shapes, consumer \in Consumers :
          /\ End(Understood(Finish(response), shape, consumer))
          /\ billed' = billed + response.tokens
    BY <1>10 DEF LibraryReturns
  <2> DEFINE answer == Understood(Finish(response), shape, consumer)
  <2>2. answer \in Raw /\ OneOrOther(answer) /\ answer.tokens = response.tokens
    BY FinishIsWhole, UnderstoodIsWhole
  <2>3. callPc = "asking" /\ End(answer)
    BY <1>10, <2>1 DEF LibraryReturns
  <2> HIDE DEF answer
  <2> QED BY <2>1, <2>2, <2>3, AnswerKeeps
<1>11. CASE UNCHANGED clientVars
  BY <1>11 DEF clientVars, ClientInv, ClientTypeOK, PausesAreCounted, BillIsKnown, Before
<1> QED BY <1>1, <1>2, <1>3, <1>4, <1>5, <1>6, <1>7, <1>8, <1>9, <1>10, <1>11 DEF ClientNext

(* ai/openai_client.py and ai/client.py: a call ends with a text or an     *)
(* error, within its retries and pauses or those of the library, and what  *)
(* it reports falls short of the bill by one request at most for each that *)
(* was never answered, for any number of retries of either, any limit of a *)
(* pause and any cost.                                                     *)
THEOREM CallsAreAccounted == ClientSpec => []CallIsAccounted
<1>1. ClientInv => CallIsAccounted
  <2> SUFFICES ASSUME ClientInv PROVE CallIsAccounted
    OBVIOUS
  <2>1. callPc = "done" => (result.text = "none" <=> result.error # "none")
    <3>1. callPc = "done" => OneOrOther(result)
      BY DEF ClientInv
    <3> QED BY <3>1 DEF OneOrOther
  <2>2. \A k \in 1..Len(pauses) : pauses[k] \in 0..MaxBackoff
    <3>1. pauses \in Seq(0..MaxBackoff)
      BY DEF ClientInv, ClientTypeOK
    <3>2. \A k \in 1..Len(pauses) : pauses[k] \in 0..MaxBackoff
      BY <3>1, ElementOfSeq
    <3> QED BY <3>2
  <2>3. attempt <= MaxRetries /\ again <= LibraryRetries
    BY ClientAssumption DEF ClientInv, ClientTypeOK
  <2>4. Len(pauses) = attempt + (IF callPc = "waiting" THEN 1 ELSE 0)
    BY ClientAssumption DEF ClientInv, ClientTypeOK, PausesAreCounted
  <2>5. ShortByTheUnanswered
    <3> SUFFICES ASSUME callPc = "done"
                 PROVE  result.tokens <= billed /\ billed <= result.tokens + Unanswered * Cost
      BY DEF ShortByTheUnanswered
    <3>1. /\ result.tokens <= billed
          /\ billed <= result.tokens + Before * Cost + (IF result.stop = "none" THEN Cost ELSE 0)
      BY DEF ClientInv, BillIsKnown
    <3>2. Unanswered * Cost = Before * Cost + (IF result.stop = "none" THEN Cost ELSE 0)
      <4>1. CASE result.stop = "none"
        BY <4>1, Numbers DEF Unanswered, Before
      <4>2. CASE result.stop # "none"
        BY <4>2, Numbers DEF Unanswered, Before
      <4> QED BY <4>1, <4>2
    <3>3. result.tokens \in Nat
      BY Numbers DEF ClientInv, ClientTypeOK, Raw
    <3> QED BY <3>1, <3>2, <3>3, Numbers
  <2> QED BY <2>1, <2>2, <2>3, <2>4, <2>5 DEF CallIsAccounted, TextOrError
<1> QED BY ClientStart, ClientStep, <1>1, PTL DEF ClientSpec

=============================================================================
