------------------------------- MODULE MCAnswer -------------------------------
(* Two sources, one with a sum in thousands, and answers that state a sum as  *)
(* the source does, out of its scale, or put together from several terms.     *)
EXTENDS Answer

CONSTANTS toman, thousand, million

OneUnit == {toman}
TwoScales == <<thousand, million>>
Factors == [s \in {thousand, million} |-> IF s = thousand THEN 10 ELSE 100]

Two  == Number(2, 1, 0, 0)
Nine == Number(9, 1, 0, 0)

SourceTexts == {<<Word, Two, Scale(thousand), Unit(toman)>>, <<Nine, Unit(toman), Word>>}
AnswerTexts ==
  {<<>>, <<Word>>, <<Two, Scale(thousand), Unit(toman)>>, <<Two, Unit(toman)>>,
   <<Unit(toman), Nine>>, <<Nine, Two, Unit(toman)>>,
   <<Nine, Scale(million), And, Two, Scale(thousand), Unit(toman)>>}
MarkedTexts == {{}, {"money"}, {"price"}, {"price", "academy"}, {"bot", "address"}, {"complaint"}}

OnePrice == [m \in Models |-> 1]
FourFifths == <<4, 5>>
================================================================================
