-------------------------------- MODULE Guard --------------------------------
(***************************************************************************)
(* The last gate before a text reaches a student: ai/guard.py.  A sum of   *)
(* money may be said only if an official source, or the mentor himself,    *)
(* has said the same sum.                                                  *)
(*                                                                         *)
(* A text is a sequence of tokens, what text/persian.py leaves of the      *)
(* characters: digits of one alphabet, one spelling per letter, single     *)
(* blanks.  What the code finds with a regular expression, a number, any   *)
(* scale words and a unit, is found here by looking back from the unit.    *)
(***************************************************************************)
EXTENDS Integers, SequencesExt

CONSTANTS Units,     \* currencies, the spellings of one already mapped to it
          Scales,    \* the words for a thousand, a million, ..., as they are listed
          Factor     \* what a scale multiplies by

ASSUME GuardAssumption ==
  /\ Scales \in Seq(Range(Scales)) /\ IsInjective(Scales)
  /\ Factor \in [Range(Scales) -> Nat]

Number(digits, width, dots, tail) ==
  [kind |-> "number", digits |-> digits, width |-> width, dots |-> dots, tail |-> tail]
Scale(s) == [kind |-> "scale", scale |-> s]
Unit(u)  == [kind |-> "unit", unit |-> u]
And      == [kind |-> "and"]
Word     == [kind |-> "word"]

Tokens ==
  [kind : {"number"}, digits : Nat, width : Nat, dots : Nat, tail : Nat]
    \union {Scale(s) : s \in Range(Scales)} \union {Unit(u) : u \in Units} \union {And, Word}

(* How many tokens of one kind end right before position i *)
RunBefore(text, i, kind) ==
  Max({n \in 0..(i - 1) : \A k \in (i - n)..(i - 1) : text[k].kind = kind})

(***************************************************************************)
(* _value, in hundredths.  A single dot with one or two digits behind it   *)
(* is a decimal point; every other dot groups digits.  Blanks inside a     *)
(* number are dropped, so that two numbers in a row are read as one.       *)
(***************************************************************************)
NumberOf(n) ==
  IF n.dots = 1 /\ n.tail = 1 THEN n.digits * 10
  ELSE IF n.dots = 1 /\ n.tail = 2 THEN n.digits
  ELSE n.digits * 100

TenTo(width) ==
  LET power[k \in 0..width] == IF k = 0 THEN 1 ELSE 10 * power[k - 1]
  IN  power[width]

Digits(m, n) ==
  Number(m.digits * TenTo(n.width) + n.digits, m.width + n.width, m.dots + n.dots,
         IF n.dots > 0 THEN n.tail ELSE m.tail + n.width)

(* The numbers from a to b, read as one *)
Joined(text, a, b) ==
  LET number[k \in 0..(b - a)] ==
        IF k = 0 THEN text[a] ELSE Digits(number[k - 1], text[a + k])
  IN  number[b - a]

(* What stands before the unit at i: how many scale words, how many numbers *)
ScalesBefore(text, i)  == RunBefore(text, i, "scale")
NumbersBefore(text, i) == RunBefore(text, i - ScalesBefore(text, i), "number")
IsRead(text, i) == text[i].kind = "unit" /\ NumbersBefore(text, i) > 0

(* money_amounts: every scale of the list that is there counts once *)
Scaled(value, words) ==
  LET product[k \in 0..Len(Scales)] ==
        IF k = 0 THEN value
        ELSE product[k - 1] * (IF Scales[k] \in words THEN Factor[Scales[k]] ELSE 1)
  IN  product[Len(Scales)]

Amount(text, i) ==
  LET s == i - ScalesBefore(text, i)
      n == s - NumbersBefore(text, i)
  IN  <<Scaled(NumberOf(Joined(text, n, s - 1)), {text[k].scale : k \in s..(i - 1)}),
        text[i].unit>>

Amounts(text) == {Amount(text, i) : i \in {k \in 1..Len(text) : IsRead(text, k)}}

HasUnreadable(text) ==
  \E i \in 1..Len(text) : text[i].kind = "unit" /\ ~IsRead(text, i)

(* hits: records of a class and a content *)

\* Fault: the sums of every source count.
AllSources(hits) == UNION {Amounts(h.content) : h \in hits}

Official(hits) == UNION {Amounts(h.content) : h \in {g \in hits : g.class = "official"}}

Ungrounded(answer, hits, mentor) ==
  \/ HasUnreadable(answer)
  \/ ~(Amounts(answer) \subseteq Amounts(mentor) \union Official(hits))

------------------------------------------------------------------------------
(***************************************************************************)
(* What a reader takes a sum to be: all that is written of it, as in       *)
(* "one million and two hundred thousand tomans".  Not in the code.        *)
(***************************************************************************)
Chained(text, a, i) ==
  /\ text[a].kind = "number"
  /\ \A k \in a..(i - 1) : text[k].kind \in {"number", "scale", "and"}
  /\ \A k \in a..(i - 1) :
        text[k].kind = "and" => text[k - 1].kind = "scale" /\ text[k + 1].kind = "number"

Start(text, i) == Min({a \in 1..(i - 1) : Chained(text, a, i)})

(* The sum so far: what of it is done, and the term that is being read    *)
Term(acc, token) ==
  CASE token.kind = "number" /\ acc.last = "number" ->
         [acc EXCEPT !.number = Digits(@, token), !.open = NumberOf(Digits(acc.number, token))]
    [] token.kind = "number" /\ acc.last # "number" ->
         [done |-> acc.done + acc.open, open |-> NumberOf(token), number |-> token,
          last |-> "number"]
    [] token.kind = "scale" -> [acc EXCEPT !.open = @ * Factor[token.scale], !.last = "scale"]
    [] OTHER -> [acc EXCEPT !.last = "and"]

Unread == [done |-> 0, open |-> 0, number |-> Number(0, 0, 0, 0), last |-> "and"]

Reading(text, a, b) ==
  LET sum[k \in 0..(b - a + 1)] ==
        IF k = 0 THEN Unread ELSE Term(sum[k - 1], text[a + k - 1])
  IN  sum[b - a + 1]

Meant(text, i) ==
  LET r == Reading(text, Start(text, i), i - 1)
  IN  <<r.done + r.open, text[i].unit>>

Said(text) == {Meant(text, i) : i \in {k \in 1..Len(text) : IsRead(text, k)}}

(* Sums of one term, with no scale written twice *)
Plain(text) ==
  \A i \in 1..Len(text) :
    IsRead(text, i) =>
      LET s == i - ScalesBefore(text, i)
      IN  /\ Start(text, i) = s - NumbersBefore(text, i)
          /\ \A j, k \in s..(i - 1) : j # k => text[j].scale # text[k].scale

==============================================================================
