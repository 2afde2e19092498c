--------------------------- MODULE KnowledgeProofs ---------------------------
(***************************************************************************)
(* The knowledge base and its search, the comparison of models and the     *)
(* tools of the knowledge base, for all values of their constants.         *)
(* The base is written row by row, the hits are sorted by a sum of         *)
(* fractions, a comparison is summed over its candidates and the export    *)
(* claims questions record by record: hence the lemmas of Lists.           *)
(***************************************************************************)
EXTENDS Knowledge, Trial, Publishing, Lists, SequenceTheorems

------------------------------------------------------------------------------
(* Fractions, compared by cross multiplication *)
Fractions == {<<p, q>> : p \in Nat, q \in Nat \ {0}}

LEMMA ProductsGrow ==
  ASSUME NEW a \in Nat, NEW b \in Nat, NEW c \in Nat \ {0}
  PROVE  /\ a > b <=> a * c > b * c
         /\ a * c \in Nat
  OBVIOUS

LEMMA FractionParts ==
  ASSUME NEW p \in Fractions
  PROVE  p[1] \in Nat /\ p[2] \in Nat \ {0}
  BY DEF Fractions

LEMMA FractionsTransitive ==
  ASSUME NEW p \in Fractions, NEW q \in Fractions, NEW r \in Fractions
  PROVE  /\ Higher(p, q) => ~Higher(q, p)
         /\ Higher(p, q) /\ ~Higher(r, q) => Higher(p, r)
         /\ ~Higher(q, p) /\ Higher(q, r) => Higher(p, r)
         /\ ~Higher(q, p) /\ ~Higher(r, q) => ~Higher(r, p)
<1> DEFINE a == p[1]
           b == p[2]
           c == q[1]
           d == q[2]
           e == r[1]
           f == r[2]
<1>1. /\ a \in Nat /\ c \in Nat /\ e \in Nat
      /\ b \in Nat \ {0} /\ d \in Nat \ {0} /\ f \in Nat \ {0}
  BY FractionParts
<1>2. /\ Higher(p, q) <=> a * d > c * b
      /\ Higher(q, p) <=> c * b > a * d
      /\ Higher(q, r) <=> c * f > e * d
      /\ Higher(r, q) <=> e * d > c * f
      /\ Higher(p, r) <=> a * f > e * b
      /\ Higher(r, p) <=> e * b > a * f
  BY DEF Higher
<1> HIDE DEF a, b, c, d, e, f
<1>3. /\ a * d \in Nat /\ c * b \in Nat /\ c * f \in Nat /\ e * d \in Nat /\ a * f \in Nat
      /\ e * b \in Nat
  BY <1>1, ProductsGrow
<1>4. /\ (a * d) * f = (a * f) * d
      /\ (c * b) * f = (c * f) * b
      /\ (e * d) * b = (e * b) * d
  BY <1>1
<1>5. /\ a * d > c * b <=> (a * d) * f > (c * b) * f
      /\ c * b > a * d <=> (c * b) * f > (a * d) * f
      /\ c * f > e * d <=> (c * f) * b > (e * d) * b
      /\ e * d > c * f <=> (e * d) * b > (c * f) * b
      /\ a * f > e * b <=> (a * f) * d > (e * b) * d
      /\ e * b > a * f <=> (e * b) * d > (a * f) * d
  BY <1>1, <1>3, ProductsGrow
<1>6. (a * f) * d \in Nat /\ (e * b) * d \in Nat /\ (c * f) * b \in Nat
  BY <1>1, <1>3, ProductsGrow
<1> DEFINE x == (a * f) * d
           y == (c * f) * b
           z == (e * b) * d
<1>7. /\ Higher(p, q) <=> x > y
      /\ Higher(q, p) <=> y > x
      /\ Higher(q, r) <=> y > z
      /\ Higher(r, q) <=> z > y
      /\ Higher(p, r) <=> x > z
      /\ Higher(r, p) <=> z > x
  BY <1>2, <1>4, <1>5
<1>8. x \in Nat /\ y \in Nat /\ z \in Nat
  BY <1>6
<1> HIDE DEF x, y, z
<1> QED BY <1>7, <1>8

(* A sum is no less than another if its parts are, and more if one is *)
LEMMA SumsOfFractions ==
  ASSUME NEW p \in Fractions, NEW q \in Fractions, NEW r \in Fractions, NEW s \in Fractions,
         ~Higher(r, p), ~Higher(s, q)
  PROVE  /\ Plus(p, q) \in Fractions
         /\ ~Higher(Plus(r, s), Plus(p, q))
         /\ Higher(p, r) \/ Higher(q, s) => Higher(Plus(p, q), Plus(r, s))
<1> DEFINE a == p[1]
           b == p[2]
           c == q[1]
           d == q[2]
           e == r[1]
           f == r[2]
           g == s[1]
           h == s[2]
<1>1. /\ a \in Nat /\ c \in Nat /\ e \in Nat /\ g \in Nat
      /\ b \in Nat \ {0} /\ d \in Nat \ {0} /\ f \in Nat \ {0} /\ h \in Nat \ {0}
  BY FractionParts
<1>2. Plus(p, q) = <<a * d + c * b, b * d>> /\ Plus(r, s) = <<e * h + g * f, f * h>>
  BY DEF Plus
<1>3. /\ ~(e * b > a * f) /\ ~(g * d > c * h)
      /\ Higher(p, r) <=> a * f > e * b
      /\ Higher(q, s) <=> c * h > g * d
  BY DEF Higher
<1>4. /\ Higher(Plus(p, q), Plus(r, s))
           <=> (a * d + c * b) * (f * h) > (e * h + g * f) * (b * d)
      /\ Higher(Plus(r, s), Plus(p, q))
           <=> (e * h + g * f) * (b * d) > (a * d + c * b) * (f * h)
  BY <1>2 DEF Higher
<1> HIDE DEF a, b, c, d, e, f, g, h
<1>5. /\ a * f \in Nat /\ e * b \in Nat /\ c * h \in Nat /\ g * d \in Nat
      /\ a * d \in Nat /\ c * b \in Nat
  BY <1>1, ProductsGrow
<1>6. d * h \in Nat \ {0} /\ b * f \in Nat \ {0} /\ b * d \in Nat \ {0}
  <2>1. \A m, n \in Nat \ {0} : m * n \in Nat \ {0}
    OBVIOUS
  <2> QED BY <2>1, <1>1
<1>7. /\ (a * d + c * b) * (f * h) = (a * f) * (d * h) + (c * h) * (b * f)
      /\ (e * h + g * f) * (b * d) = (e * b) * (d * h) + (g * d) * (b * f)
  BY <1>1
<1>8. /\ a * f > e * b <=> (a * f) * (d * h) > (e * b) * (d * h)
      /\ e * b > a * f <=> (e * b) * (d * h) > (a * f) * (d * h)
      /\ c * h > g * d <=> (c * h) * (b * f) > (g * d) * (b * f)
      /\ g * d > c * h <=> (g * d) * (b * f) > (c * h) * (b * f)
  BY <1>5, <1>6, ProductsGrow
<1> DEFINE x == (a * f) * (d * h)
           y == (e * b) * (d * h)
           z == (c * h) * (b * f)
           w == (g * d) * (b * f)
<1>9. x \in Nat /\ y \in Nat /\ z \in Nat /\ w \in Nat
  BY <1>5, <1>6, ProductsGrow
<1>10. /\ ~(y > x) /\ ~(w > z)
       /\ Higher(p, r) <=> x > y
       /\ Higher(q, s) <=> z > w
       /\ Higher(Plus(p, q), Plus(r, s)) <=> x + z > y + w
       /\ Higher(Plus(r, s), Plus(p, q)) <=> y + w > x + z
  BY <1>3, <1>4, <1>7, <1>8
<1>11. Plus(p, q) \in Fractions
  <2>1. a * d + c * b \in Nat
    BY <1>5
  <2> QED BY <2>1, <1>2, <1>6 DEF Fractions
<1> HIDE DEF x, y, z, w
<1> QED BY <1>9, <1>10, <1>11

(* A better rank is a greater fraction *)
LEMMA BetterRanks ==
  ASSUME NEW a \in Nat, NEW b \in Nat
  PROVE  /\ Part(a) \in Fractions
         /\ NoBetter(a, b) => ~Higher(Part(b), Part(a))
         /\ NoBetter(a, b) /\ a # b => Higher(Part(a), Part(b))
<1> USE KnowledgeAssumption
<1>1. \A k \in Nat : Part(k) \in Fractions
  <2> SUFFICES ASSUME NEW k \in Nat PROVE Part(k) \in Fractions
    OBVIOUS
  <2>1. CASE k = 0
    <3>1. Part(k) = <<0, 1>>
      BY <2>1 DEF Part
    <3>2. 0 \in Nat /\ 1 \in Nat \ {0}
      OBVIOUS
    <3> QED BY <3>1, <3>2 DEF Fractions
  <2>2. CASE k # 0
    <3>1. Part(k) = <<1, RrfK + k>>
      BY <2>2 DEF Part
    <3>2. 1 \in Nat /\ RrfK + k \in Nat \ {0}
      BY <2>2
    <3> QED BY <3>1, <3>2 DEF Fractions
  <2> QED BY <2>1, <2>2
<1>2. CASE a = 0 /\ b = 0
  <2>1. ~Higher(Part(0), Part(0))
    BY DEF Part, Higher
  <2> QED BY <1>1, <1>2, <2>1
<1>3. CASE a # 0 /\ b = 0
  BY <1>1, <1>3 DEF Part, NoBetter, Higher
<1>4. CASE a = 0 /\ b # 0
  BY <1>1, <1>4 DEF NoBetter
<1>5. CASE a # 0 /\ b # 0
  <2>1. Part(a) = <<1, RrfK + a>> /\ Part(b) = <<1, RrfK + b>>
    BY <1>5 DEF Part
  <2>2. /\ Higher(Part(a), Part(b)) <=> RrfK + b > RrfK + a
        /\ Higher(Part(b), Part(a)) <=> RrfK + a > RrfK + b
    BY <2>1 DEF Higher
  <2>3. NoBetter(a, b) <=> a <= b
    BY <1>5 DEF NoBetter
  <2> QED BY <2>2, <2>3, <1>1
<1> QED BY <1>2, <1>3, <1>4, <1>5

------------------------------------------------------------------------------
(* The fusion.  Documents are told apart by their pieces, so score and     *)
(* piece order them strictly, and the places of the hits are their ranks.  *)
IsRanking(list) == \E n \in Nat : list \in [1..n -> Range(list)] /\ IsInjective(list)

Together(words, vectors) == Range(words) \union Range(vectors)

PiecesDiffer(set) ==
  \A d, e \in set : d.piece \in Nat /\ (d.piece = e.piece => d = e)

LEMMA RankIsAPlace ==
  ASSUME NEW list, IsRanking(list), NEW d
  PROVE  /\ Rank(list, d) \in Nat
         /\ d \in Range(list) => Rank(list, d) # 0 /\ list[Rank(list, d)] = d
         /\ d \notin Range(list) => Rank(list, d) = 0
<1>1. PICK n \in Nat : list \in [1..n -> Range(list)] /\ IsInjective(list)
  BY DEF IsRanking
<1>2. CASE d \in Range(list)
  <2>1. \E k \in DOMAIN list : list[k] = d
    BY <1>2 DEF Range
  <2>2. Rank(list, d) \in DOMAIN list /\ list[Rank(list, d)] = d
    BY <1>2, <2>1 DEF Rank
  <2> QED BY <1>1, <1>2, <2>2
<1>3. CASE d \notin Range(list)
  BY <1>3 DEF Rank
<1> QED BY <1>2, <1>3

LEMMA RanksDiffer ==
  ASSUME NEW list, IsRanking(list), NEW d, NEW e, Rank(list, d) = Rank(list, e)
  PROVE  d = e \/ (d \notin Range(list) /\ e \notin Range(list))
  BY RankIsAPlace

LEMMA RankingIsFinite ==
  ASSUME NEW list, IsRanking(list)
  PROVE  IsFiniteSet(Range(list))
<1>1. PICK n \in Nat : list \in [1..n -> Range(list)] /\ IsInjective(list)
  BY DEF IsRanking
<1>2. list \in Surjection(1..n, Range(list))
  <2>1. \A t \in Range(list) : \E k \in 1..n : list[k] = t
    BY <1>1 DEF Range
  <2> QED BY <1>1, <2>1 DEF Surjection
<1>3. IsFiniteSet(1..n)
  BY <1>1, FS_Interval
<1> QED BY <1>2, <1>3, FS_Surjection

LEMMA ScoreIsAFraction ==
  ASSUME NEW words, NEW vectors, IsRanking(words), IsRanking(vectors), NEW d
  PROVE  Score(d, words, vectors) \in Fractions
<1>1. Rank(words, d) \in Nat /\ Rank(vectors, d) \in Nat
  BY RankIsAPlace
<1> DEFINE p == Part(Rank(words, d))
           q == Part(Rank(vectors, d))
<1>2. p \in Fractions /\ q \in Fractions
  BY <1>1, BetterRanks
<1>3. \A f \in Fractions : ~Higher(f, f)
  BY FractionsTransitive
<1> HIDE DEF p, q
<1>4. Plus(p, q) \in Fractions
  BY <1>2, <1>3, SumsOfFractions
<1> QED BY <1>4 DEF p, q, Score

Order(words, vectors) ==
  {p \in Together(words, vectors) \X Together(words, vectors) :
     Precedes(p[1], p[2], words, vectors)}

LEMMA OrderIsPrecedence ==
  ASSUME NEW words, NEW vectors, NEW d \in Together(words, vectors),
         NEW e \in Together(words, vectors)
  PROVE  <<d, e>> \in Order(words, vectors) <=> Precedes(d, e, words, vectors)
  BY DEF Order

LEMMA FusionIsAnOrder ==
  ASSUME NEW words, NEW vectors, IsRanking(words), IsRanking(vectors),
         PiecesDiffer(Together(words, vectors))
  PROVE  IsStrictOrder(Together(words, vectors), Order(words, vectors))
<1> DEFINE S == Together(words, vectors)
           R == Order(words, vectors)
           H(d, e) == Higher(Score(d, words, vectors), Score(e, words, vectors))
<1>1. \A d, e \in S : <<d, e>> \in R <=> H(d, e) \/ (~H(e, d) /\ d.piece < e.piece)
  BY OrderIsPrecedence DEF Precedes
<1>2. \A d \in S : d.piece \in Nat
  BY DEF PiecesDiffer
<1>3. ASSUME NEW d \in S, NEW e \in S, NEW f \in S
      PROVE  /\ H(d, e) => ~H(e, d)
             /\ H(d, e) /\ ~H(f, e) => H(d, f)
             /\ ~H(e, d) /\ H(e, f) => H(d, f)
             /\ ~H(e, d) /\ ~H(f, e) => ~H(f, d)
  BY ScoreIsAFraction, FractionsTransitive
<1> HIDE DEF S, R, H
<1>4. \A d \in S : <<d, d>> \notin R
  BY <1>1, <1>2, <1>3
<1>5. ASSUME NEW d \in S, NEW e \in S, NEW f \in S, <<d, e>> \in R, <<e, f>> \in R
      PROVE  <<d, f>> \in R
  <2>1. H(d, e) \/ (~H(e, d) /\ d.piece < e.piece)
    BY <1>1, <1>5
  <2>2. H(e, f) \/ (~H(f, e) /\ e.piece < f.piece)
    BY <1>1, <1>5
  <2>3. H(d, f) \/ (~H(f, d) /\ d.piece < e.piece /\ e.piece < f.piece)
    BY <2>1, <2>2, <1>3
  <2>4. d.piece < e.piece /\ e.piece < f.piece => d.piece < f.piece
    BY <1>2
  <2> QED BY <2>3, <2>4, <1>1
<1>6. ASSUME NEW d \in S, NEW e \in S, d # e, <<d, e>> \notin R PROVE <<e, d>> \in R
  <2>1. d.piece # e.piece
    BY <1>6 DEF S, PiecesDiffer
  <2>2. d.piece < e.piece \/ e.piece < d.piece
    BY <2>1, <1>2
  <2>3. ~H(d, e) /\ (H(e, d) \/ ~(d.piece < e.piece))
    BY <1>1, <1>6
  <2> QED BY <2>2, <2>3, <1>1
<1>7. IsStrictOrder(S, R)
  BY <1>4, <1>5, <1>6 DEF IsStrictOrder
<1> QED BY <1>7 DEF S, R

(* The hit at place k is the document that has k - 1 before it *)
LEMMA HitsAreRanked ==
  ASSUME NEW words, NEW vectors, IsRanking(words), IsRanking(vectors),
         PiecesDiffer(Together(words, vectors))
  PROVE  LET all  == Together(words, vectors)
             hits == Fused(words, vectors)
         IN  /\ \E n \in Nat : hits \in [1..n -> all]
             /\ \A k \in DOMAIN hits :
                  /\ hits[k] \in all
                  /\ Cardinality(InFront(hits[k], all, Order(words, vectors))) = k - 1
             /\ \A k \in DOMAIN hits : \A d \in all :
                  Precedes(d, hits[k], words, vectors) => \E j \in 1..k : hits[j] = d
<1> DEFINE all == Together(words, vectors)
           R == Order(words, vectors)
           n == Cardinality(all)
           m == IF n < Limit THEN n ELSE Limit
           Before(d) == {e \in all : Precedes(e, d, words, vectors)}
           hits == Fused(words, vectors)
<1>1. IsFiniteSet(all)
  BY RankingIsFinite, FS_Union DEF Together
<1>2. IsStrictOrder(all, R)
  BY FusionIsAnOrder
<1>3. \A d \in all : Before(d) = InFront(d, all, R)
  BY OrderIsPrecedence DEF InFront
<1>4. hits = [k \in 1..m |-> CHOOSE d \in all : Cardinality(Before(d)) = k - 1]
  BY DEF Fused, Together
<1>5. n \in Nat /\ m \in Nat /\ m <= n
  BY <1>1, FS_CardinalityType, KnowledgeAssumption
<1> HIDE DEF all, R, n, Before, hits
<1>6. ASSUME NEW k \in 1..m
      PROVE  hits[k] \in all /\ Cardinality(InFront(hits[k], all, R)) = k - 1
  <2>1. k \in 1..n
    BY <1>5
  <2>2. \E d \in all : Cardinality(InFront(d, all, R)) = k - 1
    BY <2>1, <1>1, <1>2, OneForEachPlace DEF n
  <2>3. \E d \in all : Cardinality(Before(d)) = k - 1
    BY <2>2, <1>3
  <2>4. hits[k] = CHOOSE d \in all : Cardinality(Before(d)) = k - 1
    BY <1>4
  <2>5. hits[k] \in all /\ Cardinality(Before(hits[k])) = k - 1
    BY <2>3, <2>4
  <2> QED BY <2>5, <1>3
<1>7. DOMAIN hits = 1..m /\ hits \in [1..m -> all]
  <2> DEFINE at(k) == CHOOSE d \in all : Cardinality(Before(d)) = k - 1
  <2>1. hits = [k \in 1..m |-> at(k)]
    BY <1>4
  <2> HIDE DEF at, m
  <2>2. \A k \in 1..m : at(k) \in all
    BY <2>1, <1>6
  <2> QED BY <2>1, <2>2
<1>8. ASSUME NEW k \in 1..m, NEW d \in all, Precedes(d, hits[k], words, vectors)
      PROVE  \E j \in 1..k : hits[j] = d
  <2>1. hits[k] \in all /\ Cardinality(InFront(hits[k], all, R)) = k - 1
    BY <1>6
  <2>2. <<d, hits[k]>> \in R
    BY <1>8, <2>1, OrderIsPrecedence DEF all, R
  <2> DEFINE j == Cardinality(InFront(d, all, R)) + 1
  <2>3. Cardinality(InFront(d, all, R)) < Cardinality(InFront(hits[k], all, R))
    BY <1>1, <1>2, <2>1, <2>2, EarlierHasFewer
  <2>4. Cardinality(InFront(d, all, R)) \in Nat
    BY <1>1, <1>2, AheadIsBounded
  <2>5. j \in 1..k /\ j \in 1..m /\ j \in 1..n /\ j - 1 = Cardinality(InFront(d, all, R))
    BY <2>1, <2>3, <2>4, <1>5
  <2> HIDE DEF j
  <2>6. hits[j] \in all /\ Cardinality(InFront(hits[j], all, R)) = j - 1
    BY <2>5, <1>6
  <2>7. hits[j] = d
    BY <2>5, <2>6, <1>1, <1>2, OneForEachPlace DEF n
  <2> QED BY <2>5, <2>7
<1>9. /\ \E i \in Nat : hits \in [1..i -> all]
      /\ \A k \in DOMAIN hits :
           hits[k] \in all /\ Cardinality(InFront(hits[k], all, R)) = k - 1
      /\ \A k \in DOMAIN hits : \A d \in all :
           Precedes(d, hits[k], words, vectors) => \E j \in 1..k : hits[j] = d
  BY <1>5, <1>6, <1>7, <1>8
<1> QED BY <1>9 DEF all, R, hits

(* A document that neither ranking puts behind another does not follow it *)
LEMMA BetterRanksPrecede ==
  ASSUME NEW words, NEW vectors, IsRanking(words), IsRanking(vectors),
         NEW d \in Together(words, vectors), NEW h \in Together(words, vectors), d # h,
         NoBetter(Rank(words, d), Rank(words, h)), NoBetter(Rank(vectors, d), Rank(vectors, h))
  PROVE  Precedes(d, h, words, vectors)
<1> DEFINE a == Rank(words, d)
           b == Rank(words, h)
           c == Rank(vectors, d)
           e == Rank(vectors, h)
<1>1. a \in Nat /\ b \in Nat /\ c \in Nat /\ e \in Nat
  BY RankIsAPlace
<1>2. a # b \/ c # e
  BY RanksDiffer DEF Together
<1> HIDE DEF a, b, c, e
<1>3. NoBetter(a, b) /\ NoBetter(c, e)
  BY DEF a, b, c, e
<1>4. /\ Part(a) \in Fractions /\ Part(b) \in Fractions /\ Part(c) \in Fractions
      /\ Part(e) \in Fractions
      /\ ~Higher(Part(b), Part(a)) /\ ~Higher(Part(e), Part(c))
      /\ Higher(Part(a), Part(b)) \/ Higher(Part(c), Part(e))
  BY <1>1, <1>2, <1>3, BetterRanks
<1>5. Higher(Plus(Part(a), Part(c)), Plus(Part(b), Part(e)))
  BY <1>4, SumsOfFractions
<1> QED BY <1>5 DEF Precedes, Score, a, b, c, e

------------------------------------------------------------------------------
(* The base.  Every document comes from a row, under a piece of its own.   *)
NewDocument(row, piece, embed) ==
  [key |-> Key(row), answer |-> row.answer, until |-> row.until, piece |-> piece,
   vector |-> embed]

Documents == {NewDocument(row, piece, embed) : row \in KbRows, piece \in Nat, embed \in BOOLEAN}

(* No question is there twice, and no piece after the n-th is written yet *)
BaseOK(base, n) ==
  /\ base \in SUBSET Documents /\ IsFiniteSet(base)
  /\ PiecesDiffer(base)
  /\ \A d \in base : d.piece <= n
  /\ \A d, e \in base : d.key = e.key => d = e

(* Row k of a file is in the base, unless a later row has its key *)
RowIsKept(base, rows, k, upTo) ==
  /\ Complete(rows[k])
  /\ \A j \in (k + 1)..upTo : Key(rows[j]) = Key(rows[k]) => ~Complete(rows[j])
  => \E d \in base : d.key = Key(rows[k]) /\ d.answer = rows[k].answer

LEMMA DocumentFields ==
  ASSUME NEW d \in Documents
  PROVE  d.piece \in Nat /\ d.until \in Nat
  BY KnowledgeAssumption DEF Documents, NewDocument

LEMMA UpsertKeepsBase ==
  ASSUME NEW base, NEW n \in Nat, BaseOK(base, n), NEW row \in KbRows, NEW piece \in Nat,
         piece > n, NEW embed \in BOOLEAN
  PROVE  BaseOK(Upsert(base, row, piece, embed), piece)
<1> DEFINE kept == {d \in base : d.key # Key(row)}
           new == NewDocument(row, piece, embed)
           out == Upsert(base, row, piece, embed)
<1>1. out = kept \union {new}
  BY DEF Upsert, NewDocument
<1>2. new \in Documents /\ new.piece = piece /\ new.key = Key(row)
  BY DEF Documents, NewDocument
<1>3. kept \in SUBSET base /\ \A d \in kept : d.key # Key(row)
  OBVIOUS
<1>4. \A d \in kept : d \in Documents /\ d.piece \in Nat /\ d.piece < piece
  <2> SUFFICES ASSUME NEW d \in kept PROVE d \in Documents /\ d.piece \in Nat /\ d.piece < piece
    OBVIOUS
  <2>1. d \in Documents /\ d.piece <= n
    BY <1>3 DEF BaseOK
  <2>2. d.piece \in Nat
    BY <2>1, DocumentFields
  <2> QED BY <2>1, <2>2
<1>5. IsFiniteSet(kept)
  BY <1>3, FS_Subset DEF BaseOK
<1> HIDE DEF kept, new, out
<1>6. IsFiniteSet(out)
  BY <1>1, <1>5, FS_AddElement
<1>7. out \in SUBSET Documents
  BY <1>1, <1>2, <1>4
<1>8. PiecesDiffer(out)
  BY <1>1, <1>2, <1>3, <1>4 DEF PiecesDiffer, BaseOK
<1>9. \A d \in out : d.piece <= piece
  BY <1>1, <1>2, <1>4
<1>10. \A d, e \in out : d.key = e.key => d = e
  BY <1>1, <1>2, <1>3 DEF BaseOK
<1> QED BY <1>6, <1>7, <1>8, <1>9, <1>10 DEF BaseOK, out

(* What an import leaves, row by row *)
RowByRow(after, base, rows, n, first, embed) ==
  /\ after \in [0..n -> SUBSET Documents]
  /\ after[0] = base
  /\ \A k \in 1..n :
       after[k] = IF Complete(rows[k]) THEN Upsert(after[k - 1], rows[k], first + k, embed)
                  ELSE after[k - 1]
  /\ Ingested(base, rows, first, embed) = after[n]

LEMMA IngestedRows ==
  ASSUME NEW base \in SUBSET Documents, NEW n \in Nat, NEW rows \in [1..n -> KbRows],
         NEW first \in Nat, NEW embed \in BOOLEAN
  PROVE  \E after : RowByRow(after, base, rows, n, first, embed)
<1> DEFINE after[k \in 0..Len(rows)] ==
             IF k = 0 THEN base
             ELSE IF Complete(rows[k]) THEN Upsert(after[k - 1], rows[k], first + k, embed)
             ELSE after[k - 1]
           S == SUBSET Documents
           step == [p \in (1..n) \X S |->
                      IF Complete(rows[p[1]]) THEN Upsert(p[2], rows[p[1]], first + p[1], embed)
                      ELSE p[2]]
           Body(f, k) == IF k = 0 THEN base
                         ELSE IF Complete(rows[k])
                              THEN Upsert(f[k - 1], rows[k], first + k, embed)
                              ELSE f[k - 1]
<1>1. Len(rows) = n
  <2>1. rows \in Seq(KbRows)
    BY SeqDef
  <2>2. DOMAIN rows = 1..Len(rows) /\ Len(rows) \in Nat
    BY <2>1, LenProperties
  <2> QED BY <2>2
<1>2. Ingested(base, rows, first, embed) = after[n]
  BY <1>1 DEF Ingested
<1>3. after = CHOOSE f : f = [k \in 0..n |-> Body(f, k)]
  BY <1>1
<1> HIDE DEF after
<1>4. step \in [(1..n) \X S -> S]
  <2>1. ASSUME NEW k \in 1..n, NEW b \in S PROVE Upsert(b, rows[k], first + k, embed) \in S
    <3>1. rows[k] \in KbRows /\ first + k \in Nat
      OBVIOUS
    <3>2. NewDocument(rows[k], first + k, embed) \in Documents
      BY <3>1 DEF Documents
    <3> QED BY <3>2 DEF Upsert, NewDocument
  <2> QED BY <2>1
<1> HIDE DEF S
<1>5. base \in S
  BY DEF S
<1>6. PICK f : Follows(f, step, base, n, S)
  <2>1. IsStep(step, n, S)
    BY <1>4 DEF IsStep
  <2> HIDE DEF step, Body
  <2> QED BY <2>1, <1>5, Recursion
<1> USE <1>6 DEF Follows
<1>7. \A k \in 1..n : f[k] = Body(f, k)
  <2> SUFFICES ASSUME NEW k \in 1..n PROVE f[k] = Body(f, k)
    OBVIOUS
  <2>1. k - 1 \in 0..n /\ k # 0
    OBVIOUS
  <2>2. <<k, f[k - 1]>> \in (1..n) \X S
    BY <2>1
  <2>3. f[k] = IF Complete(rows[k]) THEN Upsert(f[k - 1], rows[k], first + k, embed)
               ELSE f[k - 1]
    BY <2>2, <1>6
  <2> QED BY <2>1, <2>3
<1>8. f = [k \in 0..n |-> Body(f, k)]
  <2>1. \A k \in 0..n : f[k] = Body(f, k)
    <3>1. f[0] = Body(f, 0)
      BY <1>6
    <3> HIDE DEF Body
    <3> QED BY <1>7, <3>1
  <2> HIDE DEF Body
  <2> QED BY <2>1
<1>9. after = [k \in 0..n |-> Body(after, k)]
  <2> HIDE DEF Body
  <2> QED BY <1>3, <1>8
<1>10. after[0] = base /\ \A k \in 1..n : after[k] = Body(after, k)
  <2>1. after[0] = Body(after, 0)
    <3> HIDE DEF Body
    <3> QED BY <1>9
  <2>2. \A k \in 1..n : after[k] = Body(after, k)
    <3> HIDE DEF Body
    <3> QED BY <1>9
  <2> QED BY <2>1, <2>2
<1>11. after \in [0..n -> S]
  <2> DEFINE P == {k \in 0..n : after[k] \in S}
  <2>1. 0 \in P
    BY <1>10, <1>5
  <2>2. \A k \in 1..n : k - 1 \in P => k \in P
    <3> SUFFICES ASSUME NEW k \in 1..n, k - 1 \in P PROVE k \in P
      OBVIOUS
    <3>1. <<k, after[k - 1]>> \in (1..n) \X S
      OBVIOUS
    <3>2. step[<<k, after[k - 1]>>] = Body(after, k)
      BY <3>1
    <3>3. step[<<k, after[k - 1]>>] \in S
      <4> HIDE DEF step
      <4> QED BY <3>1, <1>4
    <3>4. after[k] \in S
      <4> HIDE DEF step, Body
      <4> QED BY <3>2, <3>3, <1>10
    <3> QED BY <3>4
  <2>3. P = 0..n
    <3>1. P \in SUBSET (0..n)
      OBVIOUS
    <3> HIDE DEF P
    <3> QED BY <2>1, <2>2, <3>1, PlaceInduction
  <2>4. \A k \in 0..n : after[k] \in S
    BY <2>3
  <2> HIDE DEF Body
  <2> QED BY <2>4, <1>9
<1>12. \A k \in 1..n :
         after[k] = IF Complete(rows[k]) THEN Upsert(after[k - 1], rows[k], first + k, embed)
                    ELSE after[k - 1]
  BY <1>10
<1> QED BY <1>2, <1>10, <1>11, <1>12 DEF S, RowByRow

(* An import keeps the base as it must be, writes only new pieces, and     *)
(* keeps every row of its file that no later row replaces.                 *)
LEMMA ImportKeepsBase ==
  ASSUME NEW base, NEW first \in Nat, BaseOK(base, first),
         NEW n \in Nat, NEW rows \in [1..n -> KbRows], NEW embed \in BOOLEAN
  PROVE  LET out == Ingested(base, rows, first, embed)
         IN  /\ BaseOK(out, first + n)
             /\ \A d \in out : d \in base \/ d.piece > first
             /\ \A k \in 1..n : RowIsKept(out, rows, k, n)
<1>1. PICK after : RowByRow(after, base, rows, n, first, embed)
  BY IngestedRows DEF BaseOK
<1> USE <1>1 DEF RowByRow
<1> DEFINE Good(k) ==
             /\ BaseOK(after[k], first + k)
             /\ \A d \in after[k] : d \in base \/ d.piece > first
             /\ \A j \in 1..k : RowIsKept(after[k], rows, j, k)
           P == {k \in 0..n : Good(k)}
<1>2. 0 \in P
  <2>1. Good(0)
    BY <1>1
  <2> HIDE DEF Good
  <2> QED BY <2>1
<1>3. ASSUME NEW k \in 1..n, k - 1 \in P PROVE k \in P
  <2>1. /\ k - 1 \in 0..n /\ rows[k] \in KbRows /\ first + k \in Nat /\ first + (k - 1) \in Nat
        /\ first + k > first + (k - 1) /\ first + k > first
    OBVIOUS
  <2>2. Good(k - 1)
    BY <1>3
  <2> DEFINE old == after[k - 1]
             new == NewDocument(rows[k], first + k, embed)
  <2>3. BaseOK(old, first + (k - 1))
    BY <2>2
  <2>4. CASE Complete(rows[k])
    <3>1. after[k] = Upsert(old, rows[k], first + k, embed)
      BY <1>1, <2>4
    <3>2. after[k] = {d \in old : d.key # Key(rows[k])} \union {new}
      BY <3>1 DEF Upsert, NewDocument
    <3>3. new.piece = first + k /\ new.key = Key(rows[k]) /\ new.answer = rows[k].answer
      BY DEF NewDocument
    <3> HIDE DEF new
    <3>4. BaseOK(after[k], first + k)
      BY <3>1, <2>1, <2>3, UpsertKeepsBase
    <3>5. \A d \in after[k] : d \in base \/ d.piece > first
      BY <2>1, <2>2, <3>2, <3>3
    <3>6. ASSUME NEW j \in 1..k PROVE RowIsKept(after[k], rows, j, k)
      <4>1. CASE j = k
        BY <3>2, <3>3, <4>1 DEF RowIsKept
      <4>2. CASE j # k
        <5>1. j \in 1..(k - 1) /\ k \in (j + 1)..k /\ \A i \in (j + 1)..(k - 1) : i \in (j + 1)..k
          BY <4>2
        <5>2. RowIsKept(old, rows, j, k - 1)
          BY <5>1, <2>2
        <5>3. SUFFICES ASSUME Complete(rows[j]),
                              \A i \in (j + 1)..k : Key(rows[i]) = Key(rows[j]) => ~Complete(rows[i])
                       PROVE  \E d \in after[k] : d.key = Key(rows[j]) /\ d.answer = rows[j].answer
          BY DEF RowIsKept
        <5>4. Key(rows[k]) # Key(rows[j])
          BY <5>1, <5>3, <2>4
        <5>5. PICK d \in old : d.key = Key(rows[j]) /\ d.answer = rows[j].answer
          BY <5>1, <5>2, <5>3 DEF RowIsKept
        <5>6. d \in after[k]
          BY <5>4, <5>5, <3>2
        <5> QED BY <5>5, <5>6
      <4> QED BY <4>1, <4>2
    <3>7. Good(k)
      BY <3>4, <3>5, <3>6
    <3> HIDE DEF Good
    <3> QED BY <3>7
  <2>5. CASE ~Complete(rows[k])
    <3>1. after[k] = old
      BY <1>1, <2>5
    <3>2. BaseOK(after[k], first + k)
      <4>1. \A d \in old : d.piece \in Nat
        BY <2>3 DEF BaseOK, PiecesDiffer
      <4>2. \A d \in old : d.piece <= first + k
        BY <4>1, <2>1, <2>3 DEF BaseOK
      <4> QED BY <3>1, <4>2, <2>3 DEF BaseOK
    <3>3. ASSUME NEW j \in 1..k PROVE RowIsKept(after[k], rows, j, k)
      <4>1. CASE j = k
        BY <4>1, <2>5 DEF RowIsKept
      <4>2. CASE j # k
        <5>1. j \in 1..(k - 1) /\ \A i \in (j + 1)..(k - 1) : i \in (j + 1)..k
          BY <4>2
        <5>2. RowIsKept(old, rows, j, k - 1)
          BY <5>1, <2>2
        <5> QED BY <5>1, <5>2, <3>1 DEF RowIsKept
      <4> QED BY <4>1, <4>2
    <3>4. Good(k)
      BY <3>1, <3>2, <3>3, <2>2
    <3> HIDE DEF Good
    <3> QED BY <3>4
  <2> QED BY <2>4, <2>5
<1>4. P = 0..n
  <2>1. P \in SUBSET (0..n)
    OBVIOUS
  <2> HIDE DEF P
  <2> QED BY <1>2, <1>3, <2>1, PlaceInduction
<1>5. n \in 0..n
  OBVIOUS
<1>6. Good(n)
  BY <1>4, <1>5
<1> QED BY <1>1, <1>6

------------------------------------------------------------------------------
(* The inductive invariant.  A search keeps what its first statement found *)
(* while imports replace documents; what was found has a piece that no     *)
(* document written since has.                                             *)
Files == Seq(KbRows)

Searches ==
  [at : {"none", "words", "found"}, since : Nat, imports : Nat, words : Seq(Documents),
   hits : Seq(Documents), vectors : Seq(Documents)]

KnowledgeTypeOK ==
  /\ imported \in Seq(Files)
  /\ pieces \in Nat /\ kbDay \in Nat
  /\ BaseOK(docs, pieces)
  /\ search \in Searches

SearchIsPast == search.since <= kbDay /\ search.imports <= Len(imported)

WordsWereFound ==
  search.at = "words" =>
    /\ IsRanking(search.words)
    /\ \A d \in Range(search.words) : d.until = Forever \/ d.until >= search.since
    /\ search.imports = Len(imported) => Range(search.words) \subseteq docs

WordsAreOld ==
  search.at = "words" =>
    /\ PiecesDiffer(docs \union Range(search.words))
    /\ \A d \in Range(search.words) : d.piece <= pieces

SearchInv ==
  /\ KnowledgeTypeOK /\ SearchIsPast /\ WordsWereFound /\ WordsAreOld
  /\ SearchIsSound

LEMMA NoDocuments ==
  BaseOK({}, 0) /\ <<>> \in Seq(Documents) /\ <<>> \in Seq(Files) /\ IsRanking(<<>>)
<1>1. BaseOK({}, 0)
  BY FS_EmptySet DEF BaseOK, PiecesDiffer
<1>2. IsRanking(<<>>)
  <2>1. 0 \in Nat /\ <<>> \in [1..0 -> Range(<<>>)] /\ IsInjective(<<>>)
    BY DEF IsInjective
  <2> QED BY <2>1 DEF IsRanking
<1> QED BY <1>1, <1>2

LEMMA KnowledgeStart == KnowledgeInit => SearchInv
<1> SUFFICES ASSUME KnowledgeInit PROVE SearchInv
  OBVIOUS
<1>1. NoSearch \in Searches /\ NoSearch.at = "none" /\ NoSearch.since = 0 /\ NoSearch.imports = 0
  BY NoDocuments DEF Searches, NoSearch
<1>2. KnowledgeTypeOK
  BY <1>1, NoDocuments DEF KnowledgeInit, KnowledgeTypeOK
<1>3. SearchIsPast
  BY <1>1 DEF KnowledgeInit, SearchIsPast
<1>4. SearchIsSound
  BY <1>1
  DEF KnowledgeInit, SearchIsSound, HitsAreCurrent, LastFileIsKept, ExpiredStaysOut,
      FusionFollowsTheRanks
<1> QED BY <1>1, <1>2, <1>3, <1>4 DEF KnowledgeInit, SearchInv, WordsWereFound, WordsAreOld

(* What is said of the search under way does not depend on the base, once  *)
(* an import has come after it.                                            *)
LEMMA ImportStep ==
  ASSUME SearchInv, Import
  PROVE  SearchInv'
<1> USE DEF SearchInv, KnowledgeTypeOK
<1>1. PICK n \in 1..MaxKbRows, embed \in BOOLEAN : \E rows \in [1..n -> KbRows] :
        /\ docs' = Ingested(docs, rows, pieces, embed)
        /\ imported' = Append(imported, rows)
        /\ pieces' = pieces + n
  BY DEF Import
<1>2. PICK rows \in [1..n -> KbRows] :
        /\ docs' = Ingested(docs, rows, pieces, embed)
        /\ imported' = Append(imported, rows)
        /\ pieces' = pieces + n
  BY <1>1
<1>3. n \in Nat /\ kbDay' = kbDay /\ search' = search
  BY DEF Import
<1>4. /\ BaseOK(docs', pieces + n)
      /\ \A d \in docs' : d \in docs \/ d.piece > pieces
      /\ \A k \in 1..n : RowIsKept(docs', rows, k, n)
  BY <1>2, <1>3, ImportKeepsBase
<1>5. rows \in Files /\ Len(rows) = n /\ DOMAIN rows = 1..n
  <2>1. rows \in Seq(KbRows)
    BY <1>3, SeqDef
  <2> QED BY <2>1, <1>3, LenProperties DEF Files
<1>6. /\ imported' \in Seq(Files) /\ Len(imported') = Len(imported) + 1 /\ Len(imported) \in Nat
      /\ Last(imported') = rows
  BY <1>2, <1>5, AppendProperties, LenProperties DEF Last
<1>7. KnowledgeTypeOK'
  BY <1>2, <1>3, <1>4, <1>6
<1>8. SearchIsPast' /\ search.imports # Len(imported')
  <2>1. search.imports \in Nat
    BY DEF Searches
  <2> QED BY <2>1, <1>3, <1>6 DEF SearchIsPast
<1>9. WordsWereFound'
  BY <1>3, <1>8 DEF WordsWereFound
<1>10. WordsAreOld'
  <2> SUFFICES ASSUME search.at = "words"
               PROVE  /\ PiecesDiffer(docs' \union Range(search.words))
                      /\ \A d \in Range(search.words) : d.piece <= pieces + n
    BY <1>2, <1>3 DEF WordsAreOld
  <2>1. /\ PiecesDiffer(docs \union Range(search.words))
        /\ \A d \in Range(search.words) : d.piece <= pieces /\ d.piece \in Nat
    BY DEF WordsAreOld, PiecesDiffer
  <2>2. \A d \in Range(search.words) : d.piece <= pieces + n
    BY <1>3, <2>1
  <2>3. \A d \in docs', e \in Range(search.words) : d.piece = e.piece => d = e
    <3> SUFFICES ASSUME NEW d \in docs', NEW e \in Range(search.words), d.piece = e.piece
                 PROVE  d = e
      OBVIOUS
    <3>1. d \in docs
      BY <1>4, <2>1
    <3> QED BY <2>1, <3>1 DEF PiecesDiffer
  <2>4. PiecesDiffer(docs') /\ PiecesDiffer(Range(search.words))
    BY <1>4, <2>1 DEF PiecesDiffer, BaseOK
  <2> QED BY <2>2, <2>3, <2>4 DEF PiecesDiffer
<1>11. HitsAreCurrent' /\ ExpiredStaysOut' /\ FusionFollowsTheRanks'
  BY <1>3, <1>8 DEF SearchIsSound, HitsAreCurrent, ExpiredStaysOut, FusionFollowsTheRanks
<1>12. LastFileIsKept'
  <2>1. \A d, e \in docs' : d.key = e.key => d = e
    BY <1>4 DEF BaseOK
  <2>2. ASSUME NEW k \in 1..n, Complete(rows[k]),
               \A j \in (k + 1)..Len(rows) : Key(rows[j]) = Key(rows[k]) => ~Complete(rows[j])
        PROVE  \E d \in docs' : d.key = Key(rows[k]) /\ d.answer = rows[k].answer
    BY <2>2, <1>4, <1>5 DEF RowIsKept
  <2> QED BY <2>1, <2>2, <1>5, <1>6 DEF LastFileIsKept
<1> QED BY <1>7, <1>8, <1>9, <1>10, <1>11, <1>12 DEF SearchIsSound

LEMMA NextDayStep ==
  ASSUME SearchInv, NextDay
  PROVE  SearchInv'
<1>1. /\ kbDay' = kbDay + 1 /\ kbDay \in Nat
      /\ UNCHANGED <<imported, docs, pieces, search>>
  BY DEF NextDay, SearchInv, KnowledgeTypeOK
<1>2. search.since \in Nat
  BY DEF SearchInv, KnowledgeTypeOK, Searches
<1>3. KnowledgeTypeOK' /\ SearchIsPast'
  BY <1>1, <1>2 DEF SearchInv, KnowledgeTypeOK, SearchIsPast
<1>4. WordsWereFound' /\ WordsAreOld' /\ SearchIsSound'
  BY <1>1
  DEF SearchInv, WordsWereFound, WordsAreOld, SearchIsSound, HitsAreCurrent, LastFileIsKept,
      ExpiredStaysOut, FusionFollowsTheRanks
<1> QED BY <1>3, <1>4 DEF SearchInv

LEMMA RankingsAreSequences ==
  ASSUME NEW base, NEW n, BaseOK(base, n), NEW set \in SUBSET base, NEW list \in Rankings(set)
  PROVE  IsRanking(list) /\ list \in Seq(Documents) /\ Range(list) \subseteq set
<1>1. IsFiniteSet(set)
  BY FS_Subset DEF BaseOK
<1>2. Cardinality(set) \in Nat
  BY <1>1, FS_CardinalityType
<1> DEFINE m == Cardinality(set)
<1>3. list \in [1..m -> set] /\ IsInjective(list)
  BY DEF Rankings
<1> HIDE DEF m
<1>4. list \in [1..m -> Range(list)] /\ Range(list) \subseteq set
  BY <1>3 DEF Range
<1>5. list \in Seq(Documents)
  <2>1. m \in Nat /\ list \in [1..m -> Documents]
    BY <1>2, <1>3 DEF m, BaseOK
  <2> QED BY <2>1, SeqDef
<1>6. IsRanking(list)
  BY <1>2, <1>3, <1>4 DEF IsRanking, m
<1> QED BY <1>4, <1>5, <1>6

LEMMA SearchWordsStep ==
  ASSUME SearchInv, SearchWords
  PROVE  SearchInv'
<1> USE DEF SearchInv, KnowledgeTypeOK
<1>1. UNCHANGED <<imported, docs, pieces, kbDay>>
  BY DEF SearchWords
<1>2. PICK found \in SUBSET Findable : \E words \in Rankings(found) :
        search' = [NoSearch EXCEPT !.at = "words", !.since = kbDay,
                                   !.imports = Len(imported), !.words = words]
  BY DEF SearchWords
<1>3. PICK words \in Rankings(found) :
        search' = [NoSearch EXCEPT !.at = "words", !.since = kbDay,
                                   !.imports = Len(imported), !.words = words]
  BY <1>2
<1>4. /\ search'.at = "words" /\ search'.since = kbDay /\ search'.imports = Len(imported)
      /\ search'.words = words /\ search'.hits = <<>> /\ search'.vectors = <<>>
      /\ search' = [at |-> "words", since |-> kbDay, imports |-> Len(imported), words |-> words,
                    hits |-> <<>>, vectors |-> <<>>]
  BY <1>3 DEF NoSearch
<1>5. Findable \subseteq docs /\ \A d \in Findable : d.until = Forever \/ d.until >= kbDay
  BY DEF Findable
<1>6. IsRanking(words) /\ words \in Seq(Documents) /\ Range(words) \subseteq found
  BY <1>5, RankingsAreSequences
<1>7. Len(imported) \in Nat
  BY LenProperties
<1>8. KnowledgeTypeOK'
  <2>1. search' \in Searches
    BY <1>4, <1>6, <1>7, NoDocuments DEF Searches
  <2> QED BY <1>1, <2>1
<1>9. SearchIsPast'
  BY <1>1, <1>4, <1>7 DEF SearchIsPast
<1>10. WordsWereFound'
  <2>1. /\ Range(words) \subseteq docs
        /\ \A d \in Range(words) : d.until = Forever \/ d.until >= kbDay
    BY <1>5, <1>6
  <2> QED BY <2>1, <1>1, <1>4, <1>6 DEF WordsWereFound
<1>11. WordsAreOld'
  <2>1. docs \union Range(words) = docs
    BY <1>5, <1>6
  <2>2. PiecesDiffer(docs) /\ \A d \in docs : d.piece <= pieces
    BY DEF BaseOK
  <2> QED BY <2>1, <2>2, <1>1, <1>4, <1>5, <1>6 DEF WordsAreOld
<1>12. SearchIsSound'
  BY <1>1, <1>4
  DEF SearchIsSound, HitsAreCurrent, LastFileIsKept, ExpiredStaysOut, FusionFollowsTheRanks
<1> QED BY <1>8, <1>9, <1>10, <1>11, <1>12

(* The hits are documents of either ranking, each at the place of its rank *)
LEMMA SearchVectorsStep ==
  ASSUME SearchInv, SearchVectors
  PROVE  SearchInv'
<1> USE DEF SearchInv, KnowledgeTypeOK
<1>1. search.at = "words" /\ UNCHANGED <<imported, docs, pieces, kbDay>>
  BY DEF SearchVectors
<1>2. PICK vectors \in Rankings({d \in Findable : d.vector}) \union {<<>>} :
        search' = [search EXCEPT !.at = "found", !.vectors = vectors,
                                 !.hits = Fused(search.words, vectors)]
  BY DEF SearchVectors
<1> DEFINE words == search.words
           all == Together(words, vectors)
           hits == Fused(words, vectors)
<1>3. /\ search'.at = "found" /\ search'.vectors = vectors /\ search'.hits = hits
      /\ search'.words = words /\ search'.since = search.since
      /\ search'.imports = search.imports
      /\ search' = [at |-> "found", since |-> search.since, imports |-> search.imports,
                    words |-> words, hits |-> hits, vectors |-> vectors]
  BY <1>2 DEF Searches
<1>4. Findable \subseteq docs /\ \A d \in Findable : d.until = Forever \/ d.until >= kbDay
  BY DEF Findable
<1>5. IsRanking(vectors) /\ vectors \in Seq(Documents) /\ Range(vectors) \subseteq Findable
  <2>1. CASE vectors \in Rankings({d \in Findable : d.vector})
    BY <2>1, <1>4, RankingsAreSequences
  <2>2. CASE vectors = <<>>
    BY <2>2, NoDocuments DEF Range
  <2> QED BY <1>2, <2>1, <2>2
<1>6. /\ IsRanking(words) /\ words \in Seq(Documents)
      /\ \A d \in Range(words) : d.until = Forever \/ d.until >= search.since
      /\ search.imports = Len(imported) => Range(words) \subseteq docs
      /\ PiecesDiffer(docs \union Range(words))
  BY <1>1 DEF WordsWereFound, WordsAreOld, Searches
<1>7. PiecesDiffer(all)
  BY <1>4, <1>5, <1>6 DEF PiecesDiffer, Together
<1>8. /\ \E n \in Nat : hits \in [1..n -> all]
      /\ \A k \in DOMAIN hits :
           hits[k] \in all /\ Cardinality(InFront(hits[k], all, Order(words, vectors))) = k - 1
      /\ \A k \in DOMAIN hits : \A d \in all :
           Precedes(d, hits[k], words, vectors) => \E j \in 1..k : hits[j] = d
  BY <1>5, <1>6, <1>7, HitsAreRanked
<1>9. all \subseteq Documents
  BY <1>5, <1>6, RangeOfSeq DEF Together
<1>10. hits \in Seq(Documents)
  <2> HIDE DEF hits
  <2>1. PICK n \in Nat : hits \in [1..n -> all]
    BY <1>8
  <2>2. hits \in [1..n -> Documents]
    BY <2>1, <1>9
  <2> QED BY <2>2, SeqDef
<1> HIDE DEF hits, words, all
<1>11. KnowledgeTypeOK'
  <2>1. search' \in Searches
    BY <1>3, <1>5, <1>6, <1>10 DEF Searches
  <2> QED BY <1>1, <2>1
<1>12. SearchIsPast' /\ WordsWereFound' /\ WordsAreOld'
  BY <1>1, <1>3 DEF SearchIsPast, WordsWereFound, WordsAreOld
<1>13. HitsAreCurrent'
  <2> SUFFICES ASSUME search.imports = Len(imported)
               PROVE  /\ Range(hits) \subseteq docs
                      /\ \A j, k \in DOMAIN hits : hits[j].key = hits[k].key => j = k
    BY <1>1, <1>3 DEF HitsAreCurrent
  <2>1. all \subseteq docs
    BY <1>4, <1>5, <1>6 DEF all, Together
  <2>2. ASSUME NEW j \in DOMAIN hits, NEW k \in DOMAIN hits, hits[j].key = hits[k].key
        PROVE  j = k
    <3>1. hits[j] = hits[k]
      BY <2>1, <2>2, <1>8 DEF BaseOK
    <3>2. PICK n \in Nat : hits \in [1..n -> all]
      BY <1>8
    <3>3. j \in Nat /\ k \in Nat
      BY <3>2
    <3>4. j - 1 = k - 1
      BY <3>1, <1>8
    <3> QED BY <3>3, <3>4
  <2>3. Range(hits) \subseteq docs
    BY <2>1, <1>8 DEF Range
  <2> QED BY <2>2, <2>3
<1>14. ExpiredStaysOut'
  <2> SUFFICES ASSUME NEW k \in DOMAIN hits
               PROVE  hits[k].until = Forever \/ hits[k].until >= search.since
    BY <1>3 DEF ExpiredStaysOut
  <2>1. hits[k] \in Range(words) \/ hits[k] \in Findable
    BY <1>5, <1>8 DEF all, Together
  <2>2. hits[k].until \in Nat
    BY <1>8, <1>9, DocumentFields
  <2>3. search.since \in Nat /\ search.since <= kbDay
    BY DEF Searches, SearchIsPast
  <2> QED BY <2>1, <2>2, <2>3, <1>4, <1>6
<1>15. FusionFollowsTheRanks'
  <2> SUFFICES ASSUME NEW k \in DOMAIN hits, NEW d \in all,
                      NoBetter(Rank(words, d), Rank(words, hits[k])),
                      NoBetter(Rank(vectors, d), Rank(vectors, hits[k]))
               PROVE  \E j \in 1..k : hits[j] = d
    BY <1>3 DEF FusionFollowsTheRanks, all, Together
  <2>1. CASE d = hits[k]
    <3>1. PICK n \in Nat : hits \in [1..n -> all]
      BY <1>8
    <3>2. k \in 1..k
      BY <3>1
    <3> QED BY <2>1, <3>2
  <2>2. CASE d # hits[k]
    <3>1. hits[k] \in all
      BY <1>8
    <3>2. Precedes(d, hits[k], words, vectors)
      BY <2>2, <3>1, <1>5, <1>6, BetterRanksPrecede DEF all
    <3> QED BY <3>2, <1>8
  <2> QED BY <2>1, <2>2
<1>16. LastFileIsKept'
  BY <1>1 DEF LastFileIsKept, SearchIsSound
<1> QED BY <1>11, <1>12, <1>13, <1>14, <1>15, <1>16 DEF SearchIsSound

LEMMA AnsweredStep ==
  ASSUME SearchInv, Answered
  PROVE  SearchInv'
<1>1. search' = NoSearch /\ UNCHANGED <<imported, docs, pieces, kbDay>>
  BY DEF Answered
<1>2. NoSearch \in Searches /\ NoSearch.at = "none" /\ NoSearch.since = 0 /\ NoSearch.imports = 0
  BY NoDocuments DEF Searches, NoSearch
<1>3. Len(imported) \in Nat /\ kbDay \in Nat
  BY LenProperties DEF SearchInv, KnowledgeTypeOK
<1>4. KnowledgeTypeOK' /\ SearchIsPast'
  BY <1>1, <1>2, <1>3 DEF SearchInv, KnowledgeTypeOK, SearchIsPast
<1>5. WordsWereFound' /\ WordsAreOld'
  BY <1>1, <1>2 DEF WordsWereFound, WordsAreOld
<1>6. SearchIsSound'
  BY <1>1, <1>2
  DEF SearchInv, SearchIsSound, HitsAreCurrent, LastFileIsKept, ExpiredStaysOut,
      FusionFollowsTheRanks
<1> QED BY <1>4, <1>5, <1>6 DEF SearchInv

LEMMA KnowledgeStep == SearchInv /\ [KnowledgeNext]_knowledgeVars => SearchInv'
<1> SUFFICES ASSUME SearchInv, [KnowledgeNext]_knowledgeVars PROVE SearchInv'
  OBVIOUS
<1>1. CASE UNCHANGED knowledgeVars
  BY <1>1
  DEF knowledgeVars, SearchInv, KnowledgeTypeOK, SearchIsPast, WordsWereFound, WordsAreOld,
      SearchIsSound, HitsAreCurrent, LastFileIsKept, ExpiredStaysOut, FusionFollowsTheRanks
<1> QED
  BY <1>1, ImportStep, NextDayStep, SearchWordsStep, SearchVectorsStep, AnsweredStep
  DEF KnowledgeNext

(* A search brings no document twice and none of an older text, unless an  *)
(* import fell between its two statements; nothing that had expired; and   *)
(* no document before another that both rankings prefer.  The base holds   *)
(* the last file and each question once (ingest.py, retrieval.py).         *)
THEOREM SearchHolds == KnowledgeSpec => []SearchIsSound
<1>1. SearchInv => SearchIsSound
  BY DEF SearchInv
<1> QED BY <1>1, KnowledgeStart, KnowledgeStep, PTL DEF KnowledgeSpec

------------------------------------------------------------------------------
(* The comparison of models.  What a question costs is bounded, candidate  *)
(* by candidate.                                                           *)
LEMMA SumStepByStep ==
  ASSUME NEW results \in [DOMAIN entrants -> Replies],
         Len(entrants) \in Nat, DOMAIN entrants = 1..Len(entrants)
  PROVE  \E sum : /\ sum \in [0..Len(entrants) -> Nat]
                  /\ sum[0] = 0
                  /\ \A k \in 1..Len(entrants) : sum[k] = sum[k - 1] + results[k].cost
                  /\ SumOf(results) = sum[Len(entrants)]
<1> DEFINE n == Len(entrants)
           sum[k \in 0..Len(entrants)] == IF k = 0 THEN 0 ELSE sum[k - 1] + results[k].cost
           step == [p \in (1..n) \X Nat |-> p[2] + results[p[1]].cost]
           Body(f, k) == IF k = 0 THEN 0 ELSE f[k - 1] + results[k].cost
<1>1. SumOf(results) = sum[n]
  BY DEF SumOf
<1>2. sum = CHOOSE f : f = [k \in 0..n |-> Body(f, k)]
  OBVIOUS
<1> HIDE DEF sum
<1>3. n \in Nat /\ \A k \in 1..n : results[k] \in Replies /\ results[k].cost \in Nat
  BY TrialAssumption
<1> HIDE DEF n
<1>4. IsStep(step, n, Nat)
  <2>1. \A k \in 1..n, m \in Nat : m + results[k].cost \in Nat
    BY <1>3
  <2> QED BY <2>1 DEF IsStep
<1>5. PICK f : Follows(f, step, 0, n, Nat)
  <2> HIDE DEF step, Body
  <2> QED BY <1>3, <1>4, Recursion
<1>6. \A k \in 1..n : f[k] = Body(f, k)
  <2> SUFFICES ASSUME NEW k \in 1..n PROVE f[k] = Body(f, k)
    OBVIOUS
  <2>1. k - 1 \in 0..n /\ k # 0
    BY <1>3
  <2>2. f[k - 1] \in Nat
    BY <2>1, <1>5 DEF Follows
  <2>3. f[k] = f[k - 1] + results[k].cost
    BY <2>2, <1>5 DEF Follows
  <2> QED BY <2>1, <2>3
<1>7. f[0] = 0 /\ f \in [0..n -> Nat]
  BY <1>5 DEF Follows
<1>8. f = [k \in 0..n |-> Body(f, k)]
  <2>1. \A k \in 0..n : f[k] = Body(f, k)
    <3>1. f[0] = Body(f, 0)
      BY <1>7
    <3> HIDE DEF Body
    <3> QED BY <1>6, <3>1, <1>3
  <2> HIDE DEF Body
  <2> QED BY <2>1, <1>7
<1>9. sum = [k \in 0..n |-> Body(sum, k)]
  <2> HIDE DEF Body
  <2> QED BY <1>2, <1>8
<1>10. sum[0] = 0 /\ \A k \in 1..n : sum[k] = sum[k - 1] + results[k].cost
  <2>1. \A k \in 0..n : sum[k] = Body(sum, k)
    <3> HIDE DEF Body
    <3> QED BY <1>9
  <2>2. 0 \in 0..n /\ \A k \in 1..n : k \in 0..n /\ k # 0
    BY <1>3
  <2> QED BY <2>1, <2>2
<1>11. \A k \in 0..n : sum[k] \in Nat
  <2> DEFINE P == {k \in 0..n : sum[k] \in Nat}
  <2>1. 0 \in P
    BY <1>3, <1>10
  <2>2. \A k \in 1..n : k - 1 \in P => k \in P
    BY <1>3, <1>10
  <2>3. P = 0..n
    <3>1. P \in SUBSET (0..n)
      OBVIOUS
    <3> HIDE DEF P
    <3> QED BY <2>1, <2>2, <3>1, <1>3, PlaceInduction
  <2> QED BY <2>3
<1>12. sum \in [0..n -> Nat]
  <2> HIDE DEF Body
  <2> QED BY <1>9, <1>11
<1> QED BY <1>1, <1>10, <1>12 DEF n

LEMMA DearestExists ==
  /\ DearestReply \in Nat
  /\ \A r \in Replies : r.cost \in Nat /\ DearestReply >= r.cost
<1>1. PICK d \in Replies : \A r \in Replies : d.cost >= r.cost
  BY TrialAssumption
<1>2. d.cost \in {r.cost : r \in Replies}
  OBVIOUS
<1>3. /\ DearestReply \in {r.cost : r \in Replies}
      /\ \A r \in Replies : DearestReply >= r.cost
  BY <1>1, <1>2 DEF DearestReply
<1> QED BY <1>3, TrialAssumption

LEMMA BillIsBounded ==
  ASSUME NEW results \in [DOMAIN entrants -> Replies],
         Len(entrants) \in Nat, DOMAIN entrants = 1..Len(entrants)
  PROVE  SumOf(results) \in Nat /\ SumOf(results) <= Len(entrants) * DearestReply
<1> DEFINE n == Len(entrants)
           D == DearestReply
<1>1. PICK sum \in [0..n -> Nat] :
        /\ sum[0] = 0
        /\ \A k \in 1..n : sum[k] = sum[k - 1] + results[k].cost
        /\ SumOf(results) = sum[n]
  BY SumStepByStep
<1>2. \A k \in 1..n : results[k].cost \in Nat /\ results[k].cost <= D
  BY DearestExists
<1>3. D \in Nat /\ n \in Nat
  BY DearestExists
<1> HIDE DEF D, n
<1> DEFINE P == {k \in 0..n : sum[k] <= k * D}
<1>4. 0 \in P
  BY <1>1, <1>3
<1>5. ASSUME NEW k \in 1..n, k - 1 \in P PROVE k \in P
  <2>1. k - 1 \in 0..n /\ k \in 0..n /\ k \in Nat /\ k - 1 \in Nat
    BY <1>3
  <2>2. sum[k - 1] \in Nat /\ sum[k - 1] <= (k - 1) * D
    BY <1>5, <2>1
  <2>3. sum[k] = sum[k - 1] + results[k].cost /\ results[k].cost \in Nat /\ results[k].cost <= D
    BY <1>1, <1>2
  <2>4. (k - 1) * D + D = k * D /\ (k - 1) * D \in Nat
    BY <2>1, <1>3
  <2> DEFINE a == (k - 1) * D
             b == k * D
             x == sum[k - 1]
             c == results[k].cost
  <2> HIDE DEF a, b, x, c
  <2>5. sum[k] <= b
    <3>1. x \in Nat /\ x <= a /\ a \in Nat /\ b = a + D /\ c \in Nat /\ c <= D
      BY <2>2, <2>3, <2>4 DEF a, b, x, c
    <3>2. sum[k] = x + c
      BY <2>3 DEF x, c
    <3> QED BY <3>1, <3>2, <1>3
  <2>6. sum[k] <= k * D
    BY <2>5 DEF b
  <2> QED BY <2>1, <2>6
<1>6. P = 0..n
  <2>1. P \in SUBSET (0..n)
    OBVIOUS
  <2> HIDE DEF P
  <2> QED BY <1>3, <1>4, <1>5, <2>1, PlaceInduction
<1>7. n \in 0..n /\ sum[n] \in Nat
  BY <1>1, <1>3
<1>8. sum[n] <= n * D
  BY <1>6, <1>7
<1> QED BY <1>1, <1>7, <1>8 DEF n, D

(* An order of the answers is a permutation of the candidates *)
LEMMA OrdersArePermutations ==
  ASSUME NEW n \in Nat, NEW order \in Orders(n), NEW c \in 1..n
  PROVE  /\ DOMAIN order = 1..n
         /\ \E k \in 1..n : order[k] = c
         /\ \A j, k \in 1..n : order[j] = order[k] => j = k
<1>1. order \in [1..n -> 1..n] /\ IsInjective(order)
  BY DEF Orders
<1>2. order \in Injection(1..n, 1..n)
  BY <1>1 DEF Injection
<1>3. IsFiniteSet(1..n)
  BY FS_Interval
<1>4. order \in Surjection(1..n, 1..n)
  BY <1>2, <1>3, FS_Injection
<1> QED BY <1>1, <1>4 DEF Surjection, IsInjective

(* What the mentor gives back: the rows of the sheet, each once at most, in *)
(* any order, with his marks.                                               *)
ComesBack(back, filled) ==
  \E from \in [DOMAIN back -> DOMAIN filled] :
    /\ IsInjective(from)
    /\ \A i \in DOMAIN back : back[i] = filled[from[i]]

LEMMA LosingARow ==
  ASSUME NEW T, NEW filled \in Seq(T), NEW lost \in 1..Len(filled)
  PROVE  RemoveAt(filled, lost) \in Seq(T) /\ ComesBack(RemoveAt(filled, lost), filled)
<1> DEFINE n == Len(filled)
           front == SubSeq(filled, 1, lost - 1)
           rest == SubSeq(filled, lost + 1, n)
           back == RemoveAt(filled, lost)
           from == [i \in DOMAIN back |-> IF i < lost THEN i ELSE i + 1]
<1>1. n \in Nat /\ DOMAIN filled = 1..n /\ lost \in 1..n /\ \A i \in 1..n : filled[i] \in T
  BY LenProperties, ElementOfSeq
<1>2. /\ front \in Seq(T) /\ Len(front) = lost - 1
      /\ \A i \in 1..(lost - 1) : front[i] = filled[i]
  <2>1. 1 \in Int /\ lost - 1 \in Int /\ \A i \in 1..(lost - 1) : filled[i] \in T
    BY <1>1
  <2>2. /\ front \in Seq(T) /\ Len(front) = IF 1 <= lost - 1 THEN (lost - 1) - 1 + 1 ELSE 0
        /\ \A i \in 1..((lost - 1) - 1 + 1) : front[i] = filled[1 + i - 1]
    BY <2>1, SubSeqProperties
  <2> HIDE DEF front
  <2>3. (lost - 1) - 1 + 1 = lost - 1 /\ \A i \in 1..(lost - 1) : 1 + i - 1 = i
    BY <1>1
  <2> QED BY <2>2, <2>3, <1>1
<1>3. /\ rest \in Seq(T) /\ Len(rest) = n - lost
      /\ \A i \in 1..(n - lost) : rest[i] = filled[lost + i]
  <2>1. lost + 1 \in Int /\ n \in Int /\ \A i \in (lost + 1)..n : filled[i] \in T
    BY <1>1
  <2>2. /\ rest \in Seq(T) /\ Len(rest) = IF lost + 1 <= n THEN n - (lost + 1) + 1 ELSE 0
        /\ \A i \in 1..(n - (lost + 1) + 1) : rest[i] = filled[lost + 1 + i - 1]
    BY <2>1, SubSeqProperties
  <2> HIDE DEF rest
  <2> HIDE DEF n
  <2>3. n - (lost + 1) + 1 = n - lost /\ \A i \in 1..(n - lost) : lost + 1 + i - 1 = lost + i
    BY <1>1
  <2>4. Len(rest) = n - lost
    BY <2>2, <1>1
  <2>5. \A i \in 1..(n - lost) : rest[i] = filled[lost + i]
    BY <2>2, <2>3
  <2> QED BY <2>2, <2>4, <2>5
<1>4. back = front \o rest
  BY DEF RemoveAt
<1> HIDE DEF front, rest, back, n
<1>5. /\ back \in Seq(T) /\ DOMAIN back = 1..(n - 1)
      /\ \A i \in 1..(n - 1) : back[i] = IF i <= lost - 1 THEN front[i] ELSE rest[i - (lost - 1)]
  <2>1. /\ back \in Seq(T) /\ Len(back) = Len(front) + Len(rest)
        /\ \A i \in 1..Len(front) + Len(rest) :
             back[i] = IF i <= Len(front) THEN front[i] ELSE rest[i - Len(front)]
    BY <1>2, <1>3, <1>4, ConcatProperties
  <2>2. Len(front) + Len(rest) = n - 1
    BY <1>1, <1>2, <1>3
  <2>3. DOMAIN back = 1..Len(back)
    BY <2>1, LenProperties
  <2> QED BY <2>1, <2>2, <2>3, <1>2
<1>6. ASSUME NEW i \in DOMAIN back
      PROVE  from[i] \in 1..n /\ back[i] = filled[from[i]]
  <2>1. i \in 1..(n - 1) /\ lost \in 1..n /\ n \in Nat
    BY <1>1, <1>5
  <2>2. CASE i < lost
    <3>1. i <= lost - 1 /\ i \in 1..(lost - 1) /\ i \in 1..n
      BY <2>1, <2>2
    <3> QED BY <3>1, <2>1, <2>2, <1>2, <1>5
  <2>3. CASE ~(i < lost)
    <3>1. /\ ~(i <= lost - 1) /\ i - (lost - 1) \in 1..(n - lost) /\ i + 1 \in 1..n
          /\ lost + (i - (lost - 1)) = i + 1
      BY <2>1, <2>3
    <3>2. back[i] = rest[i - (lost - 1)]
      BY <3>1, <2>1, <1>5
    <3>3. rest[i - (lost - 1)] = filled[i + 1]
      BY <3>1, <1>3
    <3> QED BY <3>1, <3>2, <3>3, <2>3
  <2> QED BY <2>2, <2>3
<1>7. \A i, j \in DOMAIN back : from[i] = from[j] => i = j
  BY <1>1, <1>5
<1>8. from \in [DOMAIN back -> DOMAIN filled] /\ IsInjective(from)
  BY <1>1, <1>6, <1>7 DEF IsInjective
<1> HIDE DEF from
<1> QED BY <1>5, <1>6, <1>8 DEF ComesBack, back

LEMMA ReversedSheet ==
  ASSUME NEW T, NEW kept \in Seq(T), NEW filled, ComesBack(kept, filled)
  PROVE  Reverse(kept) \in Seq(T) /\ ComesBack(Reverse(kept), filled)
<1> DEFINE n == Len(kept)
           back == Reverse(kept)
<1>1. n \in Nat /\ DOMAIN kept = 1..n /\ \A i \in 1..n : kept[i] \in T
  BY LenProperties, ElementOfSeq
<1>2. back = [i \in 1..n |-> kept[(n - i) + 1]]
  BY DEF Reverse
<1> HIDE DEF n, back
<1>3. \A i \in 1..n : (n - i) + 1 \in 1..n
  BY <1>1
<1>4. back \in [1..n -> T]
  BY <1>1, <1>2, <1>3
<1>5. back \in Seq(T)
  BY <1>1, <1>4, SeqDef
<1>6. PICK from \in [1..n -> DOMAIN filled] :
        IsInjective(from) /\ \A i \in 1..n : kept[i] = filled[from[i]]
  BY <1>1 DEF ComesBack
<1> DEFINE turned == [i \in 1..n |-> from[(n - i) + 1]]
<1>7. turned \in [1..n -> DOMAIN filled] /\ \A i \in 1..n : back[i] = filled[turned[i]]
  BY <1>2, <1>3, <1>6
<1>8. \A i, j \in 1..n : turned[i] = turned[j] => i = j
  <2> SUFFICES ASSUME NEW i \in 1..n, NEW j \in 1..n, turned[i] = turned[j] PROVE i = j
    OBVIOUS
  <2>1. (n - i) + 1 = (n - j) + 1
    BY <1>3, <1>6 DEF IsInjective
  <2> QED BY <2>1, <1>1
<1>9. DOMAIN back = 1..n
  BY <1>4
<1>10. IsInjective(turned)
  BY <1>8 DEF IsInjective
<1> HIDE DEF turned
<1> QED BY <1>5, <1>7, <1>9, <1>10 DEF ComesBack, back

(* The inductive invariant.  Whoever is asked, the answers of a case are    *)
(* laid out in a permutation that depends on the id alone, and what came    *)
(* back from the mentor are rows of this run, each once at most.            *)
IsCase(case) ==
  /\ case.order \in Orders(Len(entrants))
  /\ case.results \in [DOMAIN entrants -> Replies]

TrialTypeOK ==
  /\ stage \in {"setup", "running", "refused", "written", "graded"}
  /\ Len(entrants) \in Nat /\ DOMAIN entrants = 1..Len(entrants)
  /\ spent \in Nat
  /\ \E S : cases \in Seq(S)
  /\ \A i \in DOMAIN cases : IsCase(cases[i])
  /\ stage = "setup" => cases = <<>>

OrderFollowsId ==
  \A i, j \in DOMAIN cases : cases[i].id = cases[j].id => cases[i].order = cases[j].order

SpentIsBounded ==
  /\ stage \in {"setup", "running"} => spent <= MaxCost
  /\ RunIsAffordable

SheetIsOfThisRun ==
  stage = "graded" =>
    \E n \in Nat : \E from \in [1..n -> DOMAIN cases] :
      /\ DOMAIN sheet = 1..n
      /\ IsInjective(from)
      /\ \A i \in 1..n : sheet[i].row = BlindRow(cases[from[i]])

TrialInv == TrialTypeOK /\ OrderFollowsId /\ SpentIsBounded /\ SheetIsOfThisRun

LEMMA TrialStart == TrialInit => TrialInv
<1> SUFFICES ASSUME TrialInit PROVE TrialInv
  OBVIOUS
<1>1. <<>> \in Seq({}) /\ Len(<<>>) = 0 /\ DOMAIN <<>> = 1..0
  OBVIOUS
<1>2. TrialTypeOK
  BY <1>1 DEF TrialInit, TrialTypeOK
<1>3. OrderFollowsId /\ SheetIsOfThisRun
  BY DEF TrialInit, OrderFollowsId, SheetIsOfThisRun
<1>4. SpentIsBounded
  <2>1. 0 <= MaxCost /\ Len(entrants) = 0 /\ Len(entrants) * DearestReply = 0
    BY TrialAssumption, DearestExists DEF TrialInit
  <2> QED BY <2>1, TrialAssumption DEF TrialInit, SpentIsBounded, RunIsAffordable
<1> QED BY <1>2, <1>3, <1>4 DEF TrialInv

LEMMA BeginStep ==
  ASSUME TrialInv, Begin
  PROVE  TrialInv'
<1> USE DEF TrialInv
<1>1. /\ stage = "setup" /\ stage' = "running" /\ entrants' \in Entrants
      /\ UNCHANGED <<cases, spent, sheet>>
  BY DEF Begin
<1>2. cases = <<>> /\ DOMAIN cases = {}
  BY <1>1 DEF TrialTypeOK
<1>3. Len(entrants') \in Nat /\ DOMAIN entrants' = 1..Len(entrants')
  BY <1>1, TrialAssumption
<1>4. TrialTypeOK'
  BY <1>1, <1>2, <1>3 DEF TrialTypeOK
<1>5. OrderFollowsId' /\ SheetIsOfThisRun'
  BY <1>1, <1>2 DEF OrderFollowsId, SheetIsOfThisRun
<1>6. SpentIsBounded'
  <2>1. spent \in Nat /\ spent <= MaxCost /\ MaxCost \in Nat
    BY <1>1, TrialAssumption DEF TrialTypeOK, SpentIsBounded
  <2>2. Len(entrants') * DearestReply \in Nat
    <3>1. \A m, d \in Nat : m * d \in Nat
      OBVIOUS
    <3> QED BY <3>1, <1>3, DearestExists
  <2>3. spent <= MaxCost + Len(entrants') * DearestReply
    BY <2>1, <2>2
  <2>4. DearestReply' = DearestReply
    BY DEF DearestReply
  <2> QED BY <1>1, <2>1, <2>3, <2>4 DEF SpentIsBounded, RunIsAffordable
<1> QED BY <1>4, <1>5, <1>6

(* The bill of one question comes on top of what was within the limit *)
LEMMA AskRowStep ==
  ASSUME TrialInv, AskRow
  PROVE  TrialInv'
<1> USE DEF TrialInv
<1>1. stage = "running" /\ UNCHANGED <<entrants, asked, sheet>>
  BY DEF AskRow
<1>2. PICK results \in [DOMAIN entrants -> Replies], order \in Orders(Len(entrants)) :
        /\ \A i \in DOMAIN cases : cases[i].id = Head(questions).id => order = cases[i].order
        /\ LET bill == spent + SumOf(results)
           IN
           /\ cases' = Append(cases, [id |-> Head(questions).id, order |-> order,
                                      results |-> results])
           /\ spent' = bill
           /\ stage' = IF cases = <<>> /\ bill * asked > MaxCost THEN "refused"
                       ELSE IF bill > MaxCost THEN "written"
                       ELSE "running"
  BY DEF AskRow
<1> DEFINE case == [id |-> Head(questions).id, order |-> order, results |-> results]
<1>3. /\ cases' = Append(cases, case)
      /\ spent' = spent + SumOf(results)
      /\ stage' \in {"running", "refused", "written"}
      /\ stage' = "running" => ~(spent' > MaxCost)
  BY <1>2
<1>4. /\ Len(entrants) \in Nat /\ DOMAIN entrants = 1..Len(entrants)
      /\ spent \in Nat /\ spent <= MaxCost
  BY <1>1 DEF TrialTypeOK, SpentIsBounded
<1>5. SumOf(results) \in Nat /\ SumOf(results) <= Len(entrants) * DearestReply
  BY <1>4, BillIsBounded
<1>6. PICK S : cases \in Seq(S)
  BY DEF TrialTypeOK
<1> DEFINE T == S \union {case}
<1> HIDE DEF case
<1>7. cases \in Seq(T) /\ case \in T
  <2>1. S \subseteq T
    OBVIOUS
  <2> QED BY <1>6, <2>1, SeqMonotonic
<1>8. /\ cases' \in Seq(T) /\ Len(cases) \in Nat /\ DOMAIN cases = 1..Len(cases)
      /\ DOMAIN cases' = 1..(Len(cases) + 1)
      /\ \A i \in 1..Len(cases) : cases'[i] = cases[i]
      /\ cases'[Len(cases) + 1] = case
  <2> HIDE DEF T
  <2>1. /\ cases' \in Seq(T) /\ Len(cases') = Len(cases) + 1
        /\ \A i \in 1..Len(cases) : cases'[i] = cases[i]
        /\ cases'[Len(cases) + 1] = case
    BY <1>3, <1>7, AppendProperties
  <2>2. Len(cases) \in Nat /\ DOMAIN cases = 1..Len(cases) /\ DOMAIN cases' = 1..Len(cases')
    BY <1>7, <2>1, LenProperties
  <2> QED BY <2>1, <2>2
<1>9. \A i \in DOMAIN cases' : i \in DOMAIN cases \/ i = Len(cases) + 1
  BY <1>8
<1>10. IsCase(case)
  BY <1>2 DEF IsCase, case
<1>11. TrialTypeOK'
  <2>1. \A i \in DOMAIN cases' : IsCase(cases'[i])
    BY <1>8, <1>9, <1>10 DEF TrialTypeOK
  <2>2. \A i \in DOMAIN cases' : IsCase(cases[i])'
    BY <2>1, <1>1 DEF IsCase
  <2>3. spent' \in Nat
    BY <1>3, <1>4, <1>5
  <2> QED BY <2>2, <2>3, <1>1, <1>3, <1>4, <1>8 DEF TrialTypeOK
<1>12. OrderFollowsId'
  <2>1. case.id = Head(questions).id /\ case.order = order
    BY DEF case
  <2> SUFFICES ASSUME NEW i \in DOMAIN cases', NEW j \in DOMAIN cases',
                      cases'[i].id = cases'[j].id
               PROVE  cases'[i].order = cases'[j].order
    BY DEF OrderFollowsId
  <2>2. CASE i \in DOMAIN cases /\ j \in DOMAIN cases
    BY <2>2, <1>8 DEF OrderFollowsId
  <2>3. CASE i \in DOMAIN cases /\ j = Len(cases) + 1
    BY <2>1, <2>3, <1>2, <1>8
  <2>4. CASE i = Len(cases) + 1 /\ j \in DOMAIN cases
    BY <2>1, <2>4, <1>2, <1>8
  <2>5. CASE i = Len(cases) + 1 /\ j = Len(cases) + 1
    BY <2>5
  <2> QED BY <2>2, <2>3, <2>4, <2>5, <1>9
<1>13. SpentIsBounded'
  <2>1. Len(entrants) * DearestReply \in Nat
    <3>1. \A m, d \in Nat : m * d \in Nat
      OBVIOUS
    <3> QED BY <3>1, <1>4, DearestExists
  <2>2. spent' <= MaxCost + Len(entrants) * DearestReply
    BY <2>1, <1>3, <1>4, <1>5, TrialAssumption
  <2>3. stage' \in {"setup", "running"} => spent' <= MaxCost
    BY <1>3, <1>4, <1>5, TrialAssumption
  <2>4. DearestReply' = DearestReply
    BY DEF DearestReply
  <2> QED BY <1>1, <2>2, <2>3, <2>4 DEF SpentIsBounded, RunIsAffordable
<1>14. SheetIsOfThisRun'
  BY <1>3 DEF SheetIsOfThisRun
<1> QED BY <1>11, <1>12, <1>13, <1>14

LEMMA GradeStep ==
  ASSUME TrialInv, Grade
  PROVE  TrialInv'
<1> USE DEF TrialInv
<1>1. stage' = "graded" /\ UNCHANGED <<entrants, questions, asked, cases, spent>>
  BY DEF Grade
<1>2. PICK backwards \in BOOLEAN, lost \in 0..Len(cases) :
      \E marks \in [1..Len(cases) -> [DOMAIN entrants -> Marks]] :
        LET filled == [i \in DOMAIN cases |->
                         [row |-> BlindRow(cases[i]), marks |-> marks[i]]]
            kept   == IF lost = 0 THEN filled ELSE RemoveAt(filled, lost)
        IN  sheet' = IF backwards THEN Reverse(kept) ELSE kept
  BY DEF Grade
<1>3. PICK marks \in [1..Len(cases) -> [DOMAIN entrants -> Marks]] :
        LET filled == [i \in DOMAIN cases |->
                         [row |-> BlindRow(cases[i]), marks |-> marks[i]]]
            kept   == IF lost = 0 THEN filled ELSE RemoveAt(filled, lost)
        IN  sheet' = IF backwards THEN Reverse(kept) ELSE kept
  BY <1>2
<1> DEFINE Row(i) == [row |-> BlindRow(cases[i]), marks |-> marks[i]]
           filled == [i \in DOMAIN cases |-> Row(i)]
           kept == IF lost = 0 THEN filled ELSE RemoveAt(filled, lost)
           T == {Row(i) : i \in DOMAIN cases}
<1>4. sheet' = IF backwards THEN Reverse(kept) ELSE kept
  BY <1>3
<1>5. Len(cases) \in Nat /\ DOMAIN cases = 1..Len(cases)
  <2>1. PICK S : cases \in Seq(S)
    BY DEF TrialTypeOK
  <2> QED BY <2>1, LenProperties
<1>6. /\ DOMAIN filled = DOMAIN cases
      /\ \A i \in DOMAIN cases : filled[i].row = BlindRow(cases[i])
  OBVIOUS
<1>7. filled \in Seq(T) /\ Len(filled) = Len(cases)
  <2>1. filled \in [1..Len(cases) -> T]
    <3> HIDE DEF Row
    <3> QED BY <1>5
  <2> HIDE DEF filled, T
  <2>2. filled \in Seq(T)
    BY <2>1, <1>5, SeqDef
  <2>3. DOMAIN filled = 1..Len(filled) /\ Len(filled) \in Nat
    BY <2>2, LenProperties
  <2>4. DOMAIN filled = 1..Len(cases)
    BY <2>1
  <2>5. \A m, n \in Nat : 1..m = 1..n => m = n
    OBVIOUS
  <2>6. Len(filled) = Len(cases)
    BY <2>3, <2>4, <2>5, <1>5
  <2> QED BY <2>2, <2>6
<1> HIDE DEF filled, T
<1>8. kept \in Seq(T) /\ ComesBack(kept, filled)
  <2>1. CASE lost = 0
    <3>1. kept = filled
      BY <2>1
    <3>2. [i \in DOMAIN filled |-> i] \in [DOMAIN filled -> DOMAIN filled]
      OBVIOUS
    <3>3. ComesBack(filled, filled)
      BY <3>2 DEF ComesBack, IsInjective
    <3> QED BY <3>1, <3>3, <1>7
  <2>2. CASE lost # 0
    <3>1. lost \in 1..Len(filled) /\ kept = RemoveAt(filled, lost)
      BY <2>2, <1>5, <1>7
    <3> QED BY <3>1, <1>7, LosingARow
  <2> QED BY <2>1, <2>2
<1> HIDE DEF kept
<1>9. sheet' \in Seq(T) /\ ComesBack(sheet', filled)
  <2>1. CASE backwards
    BY <2>1, <1>4, <1>8, ReversedSheet
  <2>2. CASE ~backwards
    BY <2>2, <1>4, <1>8
  <2> QED BY <2>1, <2>2
<1>10. SheetIsOfThisRun'
  <2>1. Len(sheet') \in Nat /\ DOMAIN sheet' = 1..Len(sheet')
    BY <1>9, LenProperties
  <2>2. PICK from \in [DOMAIN sheet' -> DOMAIN filled] :
          /\ IsInjective(from)
          /\ \A i \in DOMAIN sheet' : sheet'[i] = filled[from[i]]
    BY <1>9 DEF ComesBack
  <2>3. /\ from \in [1..Len(sheet') -> DOMAIN cases]
        /\ \A i \in 1..Len(sheet') : sheet'[i].row = BlindRow(cases[from[i]])
    BY <2>1, <2>2, <1>6
  <2>4. cases' = cases /\ \A i \in 1..Len(sheet') : BlindRow(cases[from[i]]) = BlindRow(cases'[from[i]])
    BY <1>1
  <2> QED BY <2>1, <2>2, <2>3, <2>4 DEF SheetIsOfThisRun
<1>11. TrialTypeOK' /\ OrderFollowsId'
  BY <1>1 DEF TrialTypeOK, IsCase, OrderFollowsId
<1>12. SpentIsBounded'
  BY <1>1 DEF SpentIsBounded, RunIsAffordable, DearestReply
<1> QED BY <1>10, <1>11, <1>12

LEMMA TrialStep == TrialInv /\ [TrialNext]_trialVars => TrialInv'
<1> SUFFICES ASSUME TrialInv, [TrialNext]_trialVars PROVE TrialInv'
  OBVIOUS
<1> USE DEF TrialInv, TrialTypeOK, IsCase, OrderFollowsId, SpentIsBounded, RunIsAffordable,
            DearestReply, SheetIsOfThisRun
<1>1. CASE Exclude
  BY <1>1 DEF Exclude
<1>2. CASE Finish
  BY <1>2 DEF Finish
<1>3. CASE UNCHANGED trialVars
  BY <1>3 DEF trialVars
<1> QED BY <1>1, <1>2, <1>3, BeginStep, AskRowStep, GradeStep DEF TrialNext

(* A row of the sheet is about a case, and shows a candidate at his place  *)
(* in its order, which is his place in every case of that id.              *)
PlaceOf(case, c) == CHOOSE k \in DOMAIN case.order : case.order[k] = c

ShowsAt(row, place, c) ==
  /\ place \in DOMAIN row.cells /\ row.cells[place].author = c
  /\ \A k \in DOMAIN row.cells : row.cells[k].author = c => k = place

LEMMA PlacesAgree ==
  ASSUME TrialInv, NEW i \in DOMAIN cases, NEW j \in DOMAIN cases,
         cases[i].id = cases[j].id, NEW c \in DOMAIN entrants
  PROVE  ShowsAt(BlindRow(cases[j]), PlaceOf(cases[i], c), c)
<1> DEFINE n == Len(entrants)
           order == cases[i].order
           place == PlaceOf(cases[i], c)
           row == BlindRow(cases[j])
<1>1. n \in Nat /\ c \in 1..n /\ order \in Orders(n)
  BY DEF TrialInv, TrialTypeOK, IsCase
<1>2. cases[j].order = order
  BY DEF TrialInv, OrderFollowsId
<1>3. /\ DOMAIN row.cells = DOMAIN order
      /\ \A k \in DOMAIN order : row.cells[k].author = order[k]
  BY <1>2 DEF BlindRow
<1> HIDE DEF n, order, row
<1>4. /\ DOMAIN order = 1..n
      /\ \E k \in 1..n : order[k] = c
      /\ \A k, l \in 1..n : order[k] = order[l] => k = l
  BY <1>1, OrdersArePermutations
<1>5. place \in DOMAIN order /\ order[place] = c
  <2>1. place = CHOOSE k \in DOMAIN order : order[k] = c
    BY DEF PlaceOf, order
  <2> QED BY <1>4, <2>1
<1> HIDE DEF place
<1>6. /\ place \in DOMAIN row.cells /\ row.cells[place].author = c
      /\ \A k \in DOMAIN row.cells : row.cells[k].author = c => k = place
  BY <1>3, <1>4, <1>5
<1> QED BY <1>6 DEF ShowsAt, row, place

(* The cases and the rows of one id are last at some place *)
LEMMA LastOfId ==
  ASSUME TrialInv, stage = "graded", NEW id
  PROVE  /\ id \in Ids => LET i == Max({j \in DOMAIN cases : cases[j].id = id})
                          IN  i \in DOMAIN cases /\ cases[i].id = id
         /\ {x \in DOMAIN sheet : sheet[x].row.id = id} # {} =>
              LET x == Max({y \in DOMAIN sheet : sheet[y].row.id = id})
              IN  x \in DOMAIN sheet /\ sheet[x].row.id = id
<1>1. PICK S : cases \in Seq(S)
  BY DEF TrialInv, TrialTypeOK
<1>2. Len(cases) \in Nat /\ DOMAIN cases = 1..Len(cases)
  BY <1>1, LenProperties
<1>3. PICK n \in Nat : DOMAIN sheet = 1..n
  BY DEF TrialInv, SheetIsOfThisRun
<1>4. ASSUME id \in Ids
      PROVE  LET i == Max({j \in DOMAIN cases : cases[j].id = id})
             IN  i \in DOMAIN cases /\ cases[i].id = id
  <2> DEFINE set == {j \in DOMAIN cases : cases[j].id = id}
  <2>1. PICK j \in DOMAIN cases : cases[j].id = id
    BY <1>4 DEF Ids, Range
  <2>2. set # {}
    BY <2>1
  <2>3. set \in SUBSET (1..Len(cases))
    BY <1>2
  <2>4. Max(set) \in set
    <3> HIDE DEF set
    <3> QED BY <2>2, <2>3, <1>2, HighestPlace
  <2> QED BY <2>4
<1>5. ASSUME {x \in DOMAIN sheet : sheet[x].row.id = id} # {}
      PROVE  LET x == Max({y \in DOMAIN sheet : sheet[y].row.id = id})
             IN  x \in DOMAIN sheet /\ sheet[x].row.id = id
  <2> DEFINE set == {y \in DOMAIN sheet : sheet[y].row.id = id}
  <2>1. set # {} /\ set \in SUBSET (1..n)
    BY <1>3, <1>5
  <2>2. Max(set) \in set
    <3> HIDE DEF set
    <3> QED BY <2>1, <1>3, HighestPlace
  <2> QED BY <2>2
<1> QED BY <1>4, <1>5

LEMMA SheetRowHasCase ==
  ASSUME TrialInv, stage = "graded", NEW x \in DOMAIN sheet
  PROVE  \E j \in DOMAIN cases : sheet[x].row = BlindRow(cases[j]) /\ sheet[x].row.id = cases[j].id
<1>0. PICK n \in Nat :
        \E from \in [1..n -> DOMAIN cases] :
          DOMAIN sheet = 1..n /\ \A i \in 1..n : sheet[i].row = BlindRow(cases[from[i]])
  BY DEF TrialInv, SheetIsOfThisRun
<1>1. PICK from \in [1..n -> DOMAIN cases] :
        DOMAIN sheet = 1..n /\ \A i \in 1..n : sheet[i].row = BlindRow(cases[from[i]])
  BY <1>0
<1>2. from[x] \in DOMAIN cases /\ sheet[x].row = BlindRow(cases[from[x]])
  BY <1>1
<1>3. BlindRow(cases[from[x]]).id = cases[from[x]].id
  BY DEF BlindRow
<1> QED BY <1>2, <1>3

LEMMA MarksAreTheirs == TrialInv => MarksReachTheirAuthor
<1> SUFFICES ASSUME TrialInv, stage = "graded", NEW c \in DOMAIN entrants, NEW id \in Rated(c)
             PROVE  \E r \in Range(sheet) : \E k \in DOMAIN r.row.cells :
                      /\ r.row.id = id /\ r.row.cells[k].author = c
                      /\ r.marks[k] = Scored(c)[id].mark
  BY DEF MarksReachTheirAuthor
<1> DEFINE i == Max({j \in DOMAIN cases : cases[j].id = id})
           place == PlaceOf(cases[i], c)
           rows == {x \in DOMAIN sheet : sheet[x].row.id = id}
           x == Max(rows)
<1>1. id \in Ids /\ Scored(c)[id].mark.score # NoScore
  BY DEF Rated
<1>2. Scored(c)[id] = [mark |-> GradeAt(id, place), result |-> cases[i].results[c]]
  BY <1>1 DEF Scored, PlaceOf
<1>3. i \in DOMAIN cases /\ cases[i].id = id
  BY <1>1, LastOfId
<1>4. rows # {} /\ GradeAt(id, place) = sheet[x].marks[place]
  <2>1. Scored(c)[id].mark = GradeAt(id, place)
    BY <1>2
  <2>2. rows = {} => GradeAt(id, place) = [score |-> NoScore, invented |-> FALSE]
    BY DEF GradeAt
  <2>3. rows # {} => GradeAt(id, place) = sheet[x].marks[place]
    BY DEF GradeAt
  <2> HIDE DEF rows, x, place
  <2>4. rows # {}
    BY <2>1, <2>2, <1>1
  <2> QED BY <2>3, <2>4
<1>5. x \in DOMAIN sheet /\ sheet[x].row.id = id
  BY <1>4, LastOfId
<1> HIDE DEF x, rows
<1>6. PICK j \in DOMAIN cases :
        sheet[x].row = BlindRow(cases[j]) /\ sheet[x].row.id = cases[j].id
  BY <1>5, SheetRowHasCase
<1> HIDE DEF i
<1>7. /\ place \in DOMAIN BlindRow(cases[j]).cells
      /\ BlindRow(cases[j]).cells[place].author = c
  <2>1. cases[i].id = cases[j].id
    BY <1>3, <1>5, <1>6
  <2>2. ShowsAt(BlindRow(cases[j]), place, c)
    BY <1>3, <2>1, PlacesAgree
  <2> QED BY <2>2 DEF ShowsAt
<1> HIDE DEF place
<1>8. sheet[x] \in Range(sheet)
  BY <1>5 DEF Range
<1>9. /\ place \in DOMAIN sheet[x].row.cells /\ sheet[x].row.id = id
      /\ sheet[x].row.cells[place].author = c
      /\ sheet[x].marks[place] = Scored(c)[id].mark
  BY <1>2, <1>4, <1>5, <1>6, <1>7
<1> QED BY <1>8, <1>9

LEMMA IdsTellCasesApart ==
  ASSUME TrialInv, IdsDiffer, NEW i \in DOMAIN cases, NEW j \in DOMAIN cases,
         cases[i].id = cases[j].id
  PROVE  i = j
<1>1. PICK S : cases \in Seq(S)
  BY DEF TrialInv, TrialTypeOK
<1> DEFINE n == Len(cases)
           id == [k \in 1..n |-> cases[k].id]
<1>2. n \in Nat /\ DOMAIN cases = 1..n
  BY <1>1, LenProperties
<1>3. Ids = {id[k] : k \in 1..n}
  BY <1>2 DEF Ids, Range
<1>4. IsFiniteSet(1..n) /\ Cardinality(1..n) = n
  <2> HIDE DEF n
  <2>1. /\ IsFiniteSet(1..n)
        /\ Cardinality(1..n) = IF 1 > n THEN 0 ELSE n - 1 + 1
    BY <1>2, FS_Interval
  <2> QED BY <1>2, <2>1
<1>5. id \in Surjection(1..n, Ids)
  BY <1>3 DEF Surjection
<1>6. Cardinality(Ids) = Cardinality(1..n)
  BY <1>4 DEF IdsDiffer
<1> HIDE DEF id, n
<1>7. id \in Injection(1..n, Ids)
  BY <1>4, <1>5, <1>6, FS_SurjSameCardinalityImpliesInj
<1>8. id[i] = id[j]
  BY <1>2 DEF id
<1> QED BY <1>2, <1>7, <1>8 DEF Injection, IsInjective, id

LEMMA AdviceKeepsBadAnswersBack == TrialInv => AdviceIsSafe
<1> SUFFICES ASSUME TrialInv, stage = "graded", IdsDiffer,
                    NEW c \in DOMAIN entrants, NEW t \in Advice(c), NEW r \in Range(sheet),
                    NEW k \in DOMAIN r.row.cells, NEW i \in DOMAIN cases,
                    r.row.cells[k].author = c, cases[i].id = r.row.id,
                    Verdict(cases[i].results[c], t) = "sent", r.marks[k].score # NoScore
             PROVE  ~Bad(r.marks[k])
  BY DEF AdviceIsSafe
<1> DEFINE id == cases[i].id
           result == cases[i].results[c]
           same == {j \in DOMAIN cases : cases[j].id = id}
           rows == {y \in DOMAIN sheet : sheet[y].row.id = id}
           place == PlaceOf(cases[i], c)
<1>1. id \in Ids
  BY DEF Ids, Range
<1>2. Max(same) = i
  <2>1. Max(same) \in DOMAIN cases /\ cases[Max(same)].id = id
    BY <1>1, LastOfId
  <2> HIDE DEF same
  <2> QED BY <2>1, IdsTellCasesApart
<1>3. PICK y \in DOMAIN sheet : r = sheet[y]
  BY DEF Range
<1>4. y \in rows
  BY <1>3
<1>5. Max(rows) = y
  <2>1. Max(rows) \in DOMAIN sheet /\ sheet[Max(rows)].row.id = id
    BY <1>4, LastOfId
  <2>0. PICK n \in Nat :
          \E from \in [1..n -> DOMAIN cases] :
            /\ DOMAIN sheet = 1..n /\ IsInjective(from)
            /\ \A x \in 1..n : sheet[x].row = BlindRow(cases[from[x]])
    BY DEF TrialInv, SheetIsOfThisRun
  <2>2. PICK from \in [1..n -> DOMAIN cases] :
          /\ DOMAIN sheet = 1..n /\ IsInjective(from)
          /\ \A x \in 1..n : sheet[x].row = BlindRow(cases[from[x]])
    BY <2>0
  <2> DEFINE z == Max(rows)
  <2> HIDE DEF rows
  <2>3. z \in 1..n /\ y \in 1..n /\ sheet[z].row.id = sheet[y].row.id
    BY <1>3, <2>1, <2>2
  <2> HIDE DEF z
  <2>4. from[z] \in DOMAIN cases /\ from[y] \in DOMAIN cases
        /\ cases[from[z]].id = cases[from[y]].id
    <3>1. from[z] \in DOMAIN cases /\ from[y] \in DOMAIN cases
      BY <2>3
    <3>2. sheet[z].row = BlindRow(cases[from[z]]) /\ sheet[y].row = BlindRow(cases[from[y]])
      BY <2>2, <2>3
    <3>3. \A j \in DOMAIN cases : BlindRow(cases[j]).id = cases[j].id
      BY DEF BlindRow
    <3> QED BY <2>3, <3>1, <3>2, <3>3
  <2>5. from[z] = from[y]
    BY <2>4, IdsTellCasesApart
  <2>6. z = y
    BY <2>2, <2>3, <2>5 DEF IsInjective
  <2> QED BY <2>6 DEF z
<1>6. k = place
  <2>1. PICK j \in DOMAIN cases : r.row = BlindRow(cases[j]) /\ r.row.id = cases[j].id
    BY <1>3, SheetRowHasCase
  <2>2. ShowsAt(BlindRow(cases[j]), place, c)
    BY <2>1, PlacesAgree
  <2> HIDE DEF place
  <2>3. \A row : ShowsAt(row, place, c) /\ k \in DOMAIN row.cells /\ row.cells[k].author = c
                  => k = place
    BY DEF ShowsAt
  <2>4. ShowsAt(r.row, place, c)
    BY <2>1, <2>2
  <2> QED BY <2>3, <2>4
<1>7. Scored(c)[id] = [mark |-> GradeAt(id, place), result |-> result]
  BY <1>1, <1>2 DEF Scored, PlaceOf
<1>8. GradeAt(id, place) = r.marks[k]
  <2>1. rows # {}
    BY <1>4
  <2>2. GradeAt(id, place) = sheet[Max(rows)].marks[place]
    BY <2>1 DEF GradeAt
  <2> HIDE DEF rows, place
  <2> QED BY <2>2, <1>3, <1>5, <1>6
<1> HIDE DEF id, place, rows, same
<1>9. result.confidence \in Nat /\ t \in Nat /\ Threshold \in Nat
  <2>1. result \in Replies
    BY DEF TrialInv, TrialTypeOK, IsCase
  <2> QED BY <2>1, TrialAssumption DEF Advice
<1> HIDE DEF result
<1>10. Verdict(result, t) = "sent"
  BY DEF result
<1>11. Eligible(result) /\ result.confidence >= t
  <2>1. Verdict(result, Threshold) \in {"low_confidence", "sent"}
    BY <1>10 DEF Verdict
  <2>2. ~(result.confidence < t)
    BY <1>10 DEF Verdict
  <2>3. result.confidence >= t
    BY <1>9, <2>2
  <2> QED BY <2>1, <2>3 DEF Eligible
<1>12. id \in Rated(c)
  <2>1. Scored(c)[id].mark.score # NoScore
    BY <1>7, <1>8
  <2>2. result.text # ""
    BY <1>10 DEF Verdict
  <2>3. Scored(c)[id].result.text # ""
    <3>1. Scored(c)[id].result = result
      BY <1>7
    <3> QED BY <3>1, <2>2, Zenon
  <2> QED BY <1>1, <2>1, <2>3 DEF Rated
<1>13. ~Bad(Scored(c)[id].mark)
  BY <1>7, <1>11, <1>12 DEF Advice
<1> QED BY <1>7, <1>8, <1>13

(* A comparison spends no more than its limit and the one question that    *)
(* went over it; a mark is credited to the model beside whose answer it    *)
(* was written, however the sheet came back; and no threshold is advised   *)
(* under which an answer that was marked wrong or invented would have been *)
(* sent (model_compare.py).                                                *)
THEOREM TrialHolds == TrialSpec => []TrialIsFair
<1>1. TrialInv => TrialIsFair
  BY MarksAreTheirs, AdviceKeepsBadAnswersBack DEF TrialInv, SpentIsBounded, TrialIsFair
<1> QED BY <1>1, TrialStart, TrialStep, PTL DEF TrialSpec

------------------------------------------------------------------------------
(* The tools of the knowledge base.  The export takes the records in the   *)
(* order of their strength.                                                *)
LEMMA RecordFields ==
  ASSUME NEW r \in Records
  PROVE  /\ r.id \in Nat /\ r.id < 1000000 /\ r.conf \in Nat /\ r.conf <= 100
         /\ Len(r.asks) \in Nat /\ DOMAIN r.asks = 1..Len(r.asks)
         /\ r.level \in GeneralLevels => r.source = "MODEL_DRAFT"
  BY RecordsAssumption, SMT

LEMMA StandingDecides ==
  ASSUME NEW r \in Records, NEW s \in Records
  PROVE  /\ Standing(r) \in Nat
         /\ Standing(r) <= Standing(s) => Beats(r, s)
<1> DEFINE Class(x) == (IF x.approval = "APPROVED" THEN 0 ELSE 2)
                         + (IF x.level \in OfficialLevels THEN 0 ELSE 1)
<1>1. \A x : /\ Class(x) \in 0..3
             /\ Class(x) = 0 => x.approval = "APPROVED" /\ x.level \in OfficialLevels
             /\ Class(x) = 1 => x.approval = "APPROVED" /\ x.level \notin OfficialLevels
             /\ Class(x) = 2 => x.approval # "APPROVED" /\ x.level \in OfficialLevels
             /\ Class(x) = 3 => x.approval # "APPROVED" /\ x.level \notin OfficialLevels
  OBVIOUS
<1>2. \A x : Standing(x) = (Class(x) * 101 + (100 - x.conf)) * 1000000 + x.id
  BY SMT DEF Standing, Strength
<1>3. /\ r.id \in Nat /\ r.id < 1000000 /\ r.conf \in Nat /\ r.conf <= 100
      /\ s.id \in Nat /\ s.id < 1000000 /\ s.conf \in Nat /\ s.conf <= 100
  BY RecordFields, SMT
<1> HIDE DEF Class
<1>4. Class(r) \in 0..3 /\ Class(s) \in 0..3
  BY <1>1
<1>5. Standing(r) \in Nat
  BY <1>2, <1>3, <1>4, SMT
<1>6. ASSUME Standing(r) <= Standing(s)
      PROVE  Class(r) < Class(s) \/ (Class(r) = Class(s) /\ r.conf >= s.conf)
  <2>1. Class(r) * 101 + (100 - r.conf) <= Class(s) * 101 + (100 - s.conf)
    BY <1>2, <1>3, <1>4, <1>6, SMT
  <2> QED BY <1>3, <1>4, <2>1, SMT
<1>7. ASSUME Standing(r) <= Standing(s) PROVE Beats(r, s)
  <2>1. Class(r) < Class(s) => Beats(r, s)
    BY <1>1, <1>4 DEF Beats
  <2>2. Class(r) = Class(s) /\ r.conf >= s.conf => Beats(r, s)
    BY <1>1, <1>4 DEF Beats
  <2> QED BY <1>6, <1>7, <2>1, <2>2
<1> QED BY <1>5, <1>7

Keys(base) == {<<Standing(base[i]), i>> : i \in {j \in DOMAIN base : IsExported(base[j])}}
IsAhead(p, q) == p[1] < q[1] \/ (p[1] = q[1] /\ p[2] < q[2])
KeyOrder(base) == {pair \in Keys(base) \X Keys(base) : IsAhead(pair[1], pair[2])}

LEMMA KeysAreOrdered ==
  ASSUME NEW base \in Seq(Records)
  PROVE  /\ IsFiniteSet(Keys(base)) /\ IsStrictOrder(Keys(base), KeyOrder(base))
         /\ \A p \in Keys(base) : /\ p[2] \in DOMAIN base /\ base[p[2]] \in Records
                                  /\ p[1] = Standing(base[p[2]]) /\ p[1] \in Nat
<1> DEFINE K == Keys(base)
           R == KeyOrder(base)
           P == {j \in DOMAIN base : IsExported(base[j])}
           key == [i \in P |-> <<Standing(base[i]), i>>]
<1>1. Len(base) \in Nat /\ DOMAIN base = 1..Len(base) /\ \A i \in DOMAIN base : base[i] \in Records
  BY LenProperties, ElementOfSeq
<1>2. IsFiniteSet(K)
  <2>1. IsFiniteSet(1..Len(base))
    BY <1>1, FS_Interval
  <2>2. P \in SUBSET (1..Len(base))
    BY <1>1
  <2>3. IsFiniteSet(P)
    <3> HIDE DEF P
    <3> QED BY <2>1, <2>2, FS_Subset
  <2>4. key \in Surjection(P, K)
    BY DEF Surjection, Keys
  <2> HIDE DEF P, key, K
  <2> QED BY <2>3, <2>4, FS_Surjection
<1>3. ASSUME NEW p \in K
      PROVE  /\ p[2] \in DOMAIN base /\ base[p[2]] \in Records /\ p[2] \in Nat
             /\ p[1] = Standing(base[p[2]]) /\ p[1] \in Nat /\ p = <<p[1], p[2]>>
  <2>1. PICK i \in DOMAIN base : p = <<Standing(base[i]), i>>
    BY DEF Keys
  <2>2. base[i] \in Records /\ i \in Nat
    BY <1>1
  <2>3. Standing(base[i]) \in Nat
    BY <2>2, StandingDecides
  <2> QED BY <2>1, <2>2, <2>3
<1>4. \A p, q \in K : <<p, q>> \in R <=> IsAhead(p, q)
  BY DEF KeyOrder
<1> HIDE DEF K, R
<1>5. \A p \in K : p[1] \in Nat /\ p[2] \in Nat
  BY <1>3
<1>6. \A p, q \in K : p = q \/ IsAhead(p, q) \/ IsAhead(q, p)
  <2> SUFFICES ASSUME NEW p \in K, NEW q \in K, ~IsAhead(p, q), ~IsAhead(q, p) PROVE p = q
    OBVIOUS
  <2>1. p[1] = q[1] /\ p[2] = q[2]
    BY <1>5 DEF IsAhead
  <2> QED BY <2>1, <1>3
<1>7. \A p, q, r \in K : IsAhead(p, q) /\ IsAhead(q, r) => IsAhead(p, r)
  BY <1>5 DEF IsAhead
<1>8. \A p \in K : ~IsAhead(p, p)
  BY <1>5 DEF IsAhead
<1>9. IsStrictOrder(K, R)
  BY <1>4, <1>6, <1>7, <1>8 DEF IsStrictOrder
<1> QED BY <1>2, <1>3, <1>9 DEF K, R

(* The k-th of the list is the exported record that has k - 1 ahead of it, *)
(* so none that follows stands before it.                                  *)
StrongestFirst(list, base) ==
  /\ \E n \in Nat : list \in [1..n -> Range(base)]
  /\ \A i, j \in DOMAIN list : i <= j => Standing(list[i]) <= Standing(list[j])

LEMMA ExportIsSorted ==
  ASSUME NEW base \in Seq(Records)
  PROVE  StrongestFirst(ByStrength(base), base)
<1> DEFINE K == Keys(base)
           R == KeyOrder(base)
           list == ByStrength(base)
           n == Cardinality(K)
           place(p) == Cardinality({q \in K : IsAhead(q, p)})
           ranked == {<<place(p) + 1, p[2]>> : p \in K}
           at(k) == CHOOSE x \in ranked : x[1] = k
<1>1. list = [k \in 1..n |-> base[at(k)[2]]]
  BY DEF ByStrength, Keys, IsAhead
<1>2. \A p \in K : place(p) = Cardinality(InFront(p, K, R))
  <2> SUFFICES ASSUME NEW p \in K PROVE {q \in K : IsAhead(q, p)} = InFront(p, K, R)
    OBVIOUS
  <2> QED BY DEF InFront, KeyOrder
<1> HIDE DEF list, place
<1>3. IsFiniteSet(K) /\ IsStrictOrder(K, R) /\ n \in Nat
  BY KeysAreOrdered, FS_CardinalityType
<1>4. \A p \in K : /\ p[2] \in DOMAIN base /\ base[p[2]] \in Records
                   /\ p[1] = Standing(base[p[2]]) /\ p[1] \in Nat
  BY KeysAreOrdered
<1>5. \A p, q \in K : p[1] < q[1] => <<p, q>> \in R
  BY DEF KeyOrder, IsAhead
<1> HIDE DEF K, R
<1>6. ASSUME NEW k \in 1..n
      PROVE  \E p \in K : Cardinality(InFront(p, K, R)) = k - 1 /\ list[k] = base[p[2]]
  <2>1. PICK p \in K : Cardinality(InFront(p, K, R)) = k - 1
    BY <1>3, OneForEachPlace DEF n
  <2>2. place(p) + 1 = k
    BY <1>2, <2>1, <1>3
  <2>3. \E x \in ranked : x[1] = k
    <3>1. <<place(p) + 1, p[2]>> \in ranked
      OBVIOUS
    <3>2. <<place(p) + 1, p[2]>>[1] = k
      BY <2>2
    <3> HIDE DEF ranked
    <3> QED BY <3>1, <3>2
  <2> DEFINE x == at(k)
  <2>4. x \in ranked /\ x[1] = k
    <3> HIDE DEF ranked
    <3> QED BY <2>3
  <2>5. list[k] = base[x[2]]
    BY <1>1
  <2> HIDE DEF x, at
  <2>6. PICK q \in K : x = <<place(q) + 1, q[2]>>
    BY <2>4
  <2>7. place(q) + 1 = k /\ x[2] = q[2]
    BY <2>4, <2>6
  <2>8. place(q) \in Nat /\ place(q) = Cardinality(InFront(q, K, R))
    BY <1>2, <1>3, AheadIsBounded
  <2>9. Cardinality(InFront(q, K, R)) = k - 1
    BY <2>7, <2>8, <1>3
  <2> QED BY <2>5, <2>7, <2>9
<1> HIDE DEF ranked, at, n
<1>7. DOMAIN list = 1..n
  BY <1>1
<1>8. \A k \in 1..n : list[k] \in Range(base)
  BY <1>6, <1>4 DEF Range
<1>9. list \in [1..n -> Range(base)]
  <2>1. list = [k \in 1..n |-> list[k]]
    BY <1>1, <1>7
  <2> QED BY <2>1, <1>8
<1>10. ASSUME NEW i \in 1..n, NEW j \in 1..n, i <= j PROVE Standing(list[i]) <= Standing(list[j])
  <2>1. PICK p \in K : Cardinality(InFront(p, K, R)) = i - 1 /\ list[i] = base[p[2]]
    BY <1>6
  <2>2. PICK q \in K : Cardinality(InFront(q, K, R)) = j - 1 /\ list[j] = base[q[2]]
    BY <1>6
  <2>3. Standing(list[i]) = p[1] /\ Standing(list[j]) = q[1] /\ p[1] \in Nat /\ q[1] \in Nat
    BY <1>4, <2>1, <2>2
  <2>4. ~(q[1] < p[1])
    <3> SUFFICES ASSUME q[1] < p[1] PROVE FALSE
      OBVIOUS
    <3>1. <<q, p>> \in R
      BY <1>5
    <3>2. Cardinality(InFront(q, K, R)) < Cardinality(InFront(p, K, R))
      BY <3>1, <1>3, EarlierHasFewer
    <3>3. j - 1 < i - 1
      BY <3>2, <2>1, <2>2
    <3> QED BY <3>3, <1>10, <1>3
  <2> QED BY <2>3, <2>4
<1> QED BY <1>3, <1>7, <1>9, <1>10 DEF StrongestFirst, list

(* What a record claims depends on the records before it alone, so there is *)
(* one choice of the questions for all of them: it is made record by record. *)
ByClaim(primary, list, m) == \A k \in 1..m : primary[k] = Primary(Claimed(primary, list, k), list[k])

IsClaim(primary, list, n) == primary = [k \in 1..n |-> Primary(Claimed(primary, list, k), list[k])]

LEMMA EveryRecordClaims ==
  ASSUME NEW n \in Nat, NEW list
  PROVE  \E primary : IsClaim(primary, list, n)
<1> DEFINE P == {m \in 0..n : \E f : DOMAIN f = 1..m /\ f = [k \in 1..m |-> f[k]] /\ ByClaim(f, list, m)}
<1>1. 0 \in P
  <2> DEFINE f == [k \in 1..0 |-> k]
  <2>1. DOMAIN f = 1..0 /\ f = [k \in 1..0 |-> f[k]] /\ 0 \in 0..n
    OBVIOUS
  <2>2. \A k \in 1..0 : FALSE
    OBVIOUS
  <2> HIDE DEF f
  <2>3. ByClaim(f, list, 0)
    BY <2>2 DEF ByClaim
  <2> QED BY <2>1, <2>3
<1>2. ASSUME NEW m \in 1..n, m - 1 \in P PROVE m \in P
  <2>1. PICK l : l = m - 1
    OBVIOUS
  <2>2. l \in 0..n /\ m \in 0..n /\ l \in Nat /\ m = l + 1
    BY <2>1
  <2>3. PICK f : DOMAIN f = 1..l /\ ByClaim(f, list, l)
    BY <2>1, <1>2
  <2> DEFINE last == Primary(Claimed(f, list, m), list[m])
             g == [k \in 1..m |-> IF k = m THEN last ELSE f[k]]
  <2>4. /\ DOMAIN g = 1..m /\ g = [k \in 1..m |-> g[k]]
        /\ g[m] = last
        /\ \A k \in 1..m : k # m => g[k] = f[k]
    BY <2>2
  <2> HIDE DEF g
  <2>5. ASSUME NEW k \in 1..m PROVE Claimed(g, list, k) = Claimed(f, list, k)
    <3>1. \A j \in 1..(k - 1) : j \in 1..m /\ j # m
      BY <2>2
    <3>2. \A j \in 1..(k - 1) : g[j] = f[j]
      BY <3>1, <2>4
    <3> QED BY <3>2 DEF Claimed
  <2>6. ASSUME NEW k \in 1..m PROVE g[k] = Primary(Claimed(g, list, k), list[k])
    <3>1. CASE k = m
      BY <3>1, <2>4, <2>5
    <3>2. CASE k # m
      <4>1. k \in 1..l
        BY <3>2, <2>2
      <4>2. f[k] = Primary(Claimed(f, list, k), list[k])
        BY <4>1, <2>3 DEF ByClaim
      <4> QED BY <4>2, <3>2, <2>4, <2>5
    <3> QED BY <3>1, <3>2
  <2>7. ByClaim(g, list, m)
    BY <2>6 DEF ByClaim
  <2> QED BY <2>2, <2>4, <2>7
<1>3. P = 0..n
  <2>1. P \in SUBSET (0..n)
    OBVIOUS
  <2> HIDE DEF P
  <2> QED BY <1>1, <1>2, <2>1, PlaceInduction
<1>4. n \in P
  BY <1>3
<1>5. PICK f : DOMAIN f = 1..n /\ f = [k \in 1..n |-> f[k]] /\ ByClaim(f, list, n)
  BY <1>4
<1>6. f = [k \in 1..n |-> Primary(Claimed(f, list, k), list[k])]
  BY <1>5 DEF ByClaim
<1> QED BY <1>6 DEF IsClaim

LEMMA RowsAreClaimed ==
  ASSUME NEW base, NEW n \in Nat, NEW list, list = ByStrength(base), DOMAIN list = 1..n
  PROVE  \E primary :
           /\ Rows(base) = [k \in 1..n |-> CoreRow(list[k], primary[k])]
           /\ \A k \in 1..n : primary[k] = Primary(Claimed(primary, list, k), list[k])
<1> DEFINE claims[k \in DOMAIN list] == Primary(Claimed(claims, list, k), list[k])
<1>1. Rows(base) = [k \in DOMAIN list |-> CoreRow(list[k], claims[k])]
  BY DEF Rows
<1>2. claims = CHOOSE f : f = [k \in DOMAIN list |-> Primary(Claimed(f, list, k), list[k])]
  OBVIOUS
<1> HIDE DEF claims
<1>3. PICK f : f = [k \in 1..n |-> Primary(Claimed(f, list, k), list[k])]
  <2>1. \E f : IsClaim(f, list, n)
    BY EveryRecordClaims
  <2> QED BY <2>1 DEF IsClaim
<1>4. claims = [k \in 1..n |-> Primary(Claimed(claims, list, k), list[k])]
  BY <1>2, <1>3
<1>5. \A k \in 1..n : claims[k] = Primary(Claimed(claims, list, k), list[k])
  BY <1>4
<1> QED BY <1>1, <1>5

(* A record claims one of its phrasings, with all before it claimed by     *)
(* others, or none is left to it.                                          *)
LEMMA ClaimedTitle ==
  ASSUME NEW r \in Records, NEW claimed
  PROVE  \/ \A k \in DOMAIN r.asks : QuestionKey(r.asks[k]) \in claimed
         \/ \E m \in DOMAIN r.asks :
              /\ Primary(claimed, r) = r.asks[m] /\ m \in Nat
              /\ \A k \in DOMAIN r.asks : k < m => QuestionKey(r.asks[k]) \in claimed
<1> DEFINE free == Free(claimed, r)
           n == Len(r.asks)
<1>1. n \in Nat /\ DOMAIN r.asks = 1..n
  BY RecordFields
<1>2. free = {k \in DOMAIN r.asks : QuestionKey(r.asks[k]) \notin claimed}
  BY DEF Free
<1>3. CASE free = {}
  BY <1>2, <1>3
<1>4. CASE free # {}
  <2> DEFINE m == Min(free)
  <2>1. Primary(claimed, r) = r.asks[m]
    BY <1>4 DEF Primary
  <2>2. free \in SUBSET (1..n)
    BY <1>1, <1>2
  <2> HIDE DEF free
  <2>3. m \in free /\ \A k \in free : m <= k
    <3> HIDE DEF n
    <3> QED BY <2>2, <1>1, <1>4, LowestPlace
  <2> HIDE DEF m, n
  <2>4. m \in DOMAIN r.asks /\ m \in Nat
    BY <1>1, <1>2, <2>3
  <2>5. \A k \in DOMAIN r.asks : k < m => QuestionKey(r.asks[k]) \in claimed
    <3> SUFFICES ASSUME NEW k \in DOMAIN r.asks, k < m, QuestionKey(r.asks[k]) \notin claimed
                 PROVE  FALSE
      OBVIOUS
    <3>1. k \in free /\ k \in Nat
      BY <1>1, <1>2
    <3> QED BY <3>1, <2>3, <2>4
  <2> QED BY <2>1, <2>4, <2>5
<1> QED BY <1>3, <1>4

Passed(rows, i) ==
  \A k \in DOMAIN rows[i].record.asks :
    \/ \E h \in 1..k : rows[i].record.asks[h] = rows[i].question
    \/ \E j \in DOMAIN rows \ {i} :
         /\ QuestionKey(rows[j].question) = QuestionKey(rows[i].record.asks[k])
         /\ Beats(rows[j].record, rows[i].record)

LEMMA RowsOfBase ==
  ASSUME NEW base \in Seq(Records), NEW i \in DOMAIN Rows(base)
  PROVE  /\ Rows(base)[i].record \in Range(base)
         /\ Rows(base)[i].authority = AuthorityOf(Rows(base)[i].record)
         /\ Passed(Rows(base), i)
<1> DEFINE list == ByStrength(base)
           rows == Rows(base)
<1>1. StrongestFirst(list, base)
  BY ExportIsSorted
<1>2. PICK n \in Nat : list \in [1..n -> Range(base)]
  BY <1>1 DEF StrongestFirst
<1>3. PICK primary :
        /\ rows = [k \in 1..n |-> CoreRow(list[k], primary[k])]
        /\ \A k \in 1..n : primary[k] = Primary(Claimed(primary, list, k), list[k])
  BY <1>2, RowsAreClaimed
<1> HIDE DEF list, rows
<1>4. /\ DOMAIN rows = 1..n
      /\ \A k \in 1..n : /\ rows[k].record = list[k] /\ rows[k].question = primary[k]
                         /\ rows[k].authority = AuthorityOf(list[k])
  BY <1>3 DEF CoreRow
<1>5. i \in 1..n
  BY <1>4 DEF rows
<1>6. \A p \in 1..n : list[p] \in Range(base) /\ list[p] \in Records
  <2>1. \A p \in DOMAIN base : base[p] \in Records
    BY LenProperties, ElementOfSeq
  <2> QED BY <2>1, <1>2 DEF Range
<1>7. \A j \in 1..(i - 1) : Beats(list[j], list[i])
  <2> SUFFICES ASSUME NEW j \in 1..(i - 1) PROVE Beats(list[j], list[i])
    OBVIOUS
  <2>1. j \in 1..n /\ j <= i /\ DOMAIN list = 1..n
    BY <1>2, <1>5
  <2>2. Standing(list[j]) <= Standing(list[i])
    BY <2>1, <1>1, <1>5 DEF StrongestFirst
  <2> QED BY <2>1, <2>2, <1>5, <1>6, StandingDecides
<1> DEFINE r == list[i]
           claimed == Claimed(primary, list, i)
<1>8. \A q \in claimed : \E j \in 1..(i - 1) : QuestionKey(primary[j]) = q
  BY DEF Claimed
<1>9. \/ \A k \in DOMAIN r.asks : QuestionKey(r.asks[k]) \in claimed
      \/ \E m \in DOMAIN r.asks :
           /\ primary[i] = r.asks[m] /\ m \in Nat
           /\ \A k \in DOMAIN r.asks : k < m => QuestionKey(r.asks[k]) \in claimed
  <2>1. r \in Records /\ primary[i] = Primary(claimed, r)
    BY <1>3, <1>5, <1>6
  <2> HIDE DEF r, claimed
  <2> QED BY <2>1, ClaimedTitle
<1>10. DOMAIN r.asks = 1..Len(r.asks) /\ Len(r.asks) \in Nat
  <2>1. r \in Records
    BY <1>5, <1>6
  <2> HIDE DEF r
  <2> QED BY <2>1, RecordFields
<1>11. rows[i].record = r /\ rows[i].question = primary[i] /\ rows[i].authority = AuthorityOf(r)
       /\ r \in Range(base)
  BY <1>4, <1>5, <1>6
<1> HIDE DEF claimed
<1>12. \A k \in DOMAIN r.asks : QuestionKey(r.asks[k]) \in claimed =>
         \E j \in DOMAIN rows \ {i} :
           /\ QuestionKey(rows[j].question) = QuestionKey(r.asks[k])
           /\ Beats(rows[j].record, r)
  <2> SUFFICES ASSUME NEW k \in DOMAIN r.asks, QuestionKey(r.asks[k]) \in claimed
               PROVE  \E j \in DOMAIN rows \ {i} :
                        /\ QuestionKey(rows[j].question) = QuestionKey(r.asks[k])
                        /\ Beats(rows[j].record, r)
    OBVIOUS
  <2>1. PICK j \in 1..(i - 1) : QuestionKey(primary[j]) = QuestionKey(r.asks[k])
    BY <1>8
  <2>2. j \in 1..n /\ j # i
    BY <1>5
  <2>3. j \in DOMAIN rows \ {i} /\ rows[j].record = list[j] /\ rows[j].question = primary[j]
    BY <2>2, <1>4
  <2> QED BY <2>1, <2>3, <1>7
<1> HIDE DEF r
<1>13. Passed(rows, i)
  <2> SUFFICES ASSUME NEW k \in DOMAIN r.asks
               PROVE  \/ \E h \in 1..k : r.asks[h] = primary[i]
                      \/ \E j \in DOMAIN rows \ {i} :
                           /\ QuestionKey(rows[j].question) = QuestionKey(r.asks[k])
                           /\ Beats(rows[j].record, r)
    BY <1>11 DEF Passed
  <2>1. CASE QuestionKey(r.asks[k]) \in claimed
    BY <2>1, <1>12
  <2>2. CASE QuestionKey(r.asks[k]) \notin claimed
    <3>1. PICK m \in DOMAIN r.asks :
            /\ primary[i] = r.asks[m] /\ m \in Nat
            /\ \A h \in DOMAIN r.asks : h < m => QuestionKey(r.asks[h]) \in claimed
      BY <2>2, <1>9
    <3>2. ~(k < m)
      BY <2>2, <3>1
    <3>3. m \in 1..k
      BY <3>1, <3>2, <1>10
    <3> QED BY <3>1, <3>3
  <2> QED BY <2>1, <2>2
<1> QED BY <1>11, <1>13 DEF rows

LEMMA DraftsGuide ==
  ASSUME NEW base \in Seq(Records)
  PROVE  DraftsAreNeverFacts(base)
<1> SUFFICES ASSUME IsValid(base), NEW i \in DOMAIN Rows(base),
                    \/ Rows(base)[i].record.source = "MODEL_DRAFT"
                    \/ Rows(base)[i].record.level \in GeneralLevels
             PROVE  Rows(base)[i].authority = "guidance"
  BY DEF DraftsAreNeverFacts
<1> DEFINE r == Rows(base)[i].record
<1>1. r \in Range(base) /\ Rows(base)[i].authority = AuthorityOf(r)
  BY RowsOfBase
<1>2. r \in Records
  BY <1>1, ElementOfSeq, LenProperties DEF Range
<1>3. r.source = "MODEL_DRAFT"
  BY <1>2, RecordFields
<1> HIDE DEF r
<1>4. ~HasError(r)
  BY <1>1 DEF IsValid, Range
<1>5. r.approval # "APPROVED"
  BY <1>3, <1>4 DEF HasError
<1>6. AuthorityOf(r) = "guidance"
  BY <1>5 DEF AuthorityOf
<1> QED BY <1>1, <1>6

LEMMA StrongestClaims ==
  ASSUME NEW base \in Seq(Records)
  PROVE  StrongestOwns(base)
<1>1. \A i \in DOMAIN Rows(base) : Passed(Rows(base), i)
  BY RowsOfBase
<1> QED BY <1>1 DEF StrongestOwns, Passed

------------------------------------------------------------------------------
(* The files.  What a tool has still to write is what the base says now,   *)
(* goes to products of its own, and comes into a latest file, or into the  *)
(* history, after a numbered one has it.                                   *)
LatestOf(t) ==
  CASE t = "validate"    -> {"report"}
    [] t = "manifest"    -> {"manifest"}
    [] t = "export core" -> {"kb", "eval"}
    [] OTHER             -> {}

NumberedOf(t) ==
  CASE t = "export" -> {"collection"}
    [] t = "sheet"  -> {"sheet", "sheet table"}
    [] OTHER        -> {}

KeptBefore(ws, k) ==
  \/ ws[k].content \in Range(files[ws[k].product])
  \/ \E j \in 1..(k - 1) : ws[j].to = "number" /\ ws[j].product = ws[k].product
                             /\ ws[j].content = ws[k].content

WritesFit(ws, t) ==
  /\ \E S : ws \in Seq(S)
  /\ \A k \in DOMAIN ws :
       /\ ws[k].product \in LatestOf(t) \union NumberedOf(t)
       /\ ws[k].content = Content(ws[k].product, collected)
       /\ ws[k].to \in {"latest", "index"} => KeptBefore(ws, k)
       /\ ws[k].to = "index" => ws[k].product = "collection"

Awaited(ws, place, product) ==
  \E k \in DOMAIN ws : ws[k].to = place /\ ws[k].product = product

Shows(product) ==
  IF product = "collection" THEN collected \in Range(files[product])
  ELSE Last(files[product]) = collected

(* The tool's products say what the base says, or will when ws is written  *)
Settles(t, ws) ==
  /\ \A p \in LatestOf(t) : latest[p] = Content(p, collected) \/ Awaited(ws, "latest", p)
  /\ \A p \in NumberedOf(t) : Shows(p) \/ Awaited(ws, "number", p)

FilesOK ==
  /\ DOMAIN files = Products /\ DOMAIN latest = Products
  /\ \A p \in Products : \E S : files[p] \in Seq(S)

PublishingInv ==
  /\ collected \in Seq(Records)
  /\ FilesOK
  /\ LatestIsAVersion
  /\ index = Absent \/ index \in Range(files["collection"])
  /\ tool \in Tools \union {NoTool} /\ fresh \in SUBSET (Tools \ {tool})
  /\ tool = NoTool => writes = <<>>
  /\ tool # NoTool => WritesFit(writes, tool) /\ Settles(tool, writes)
  /\ \A t \in fresh : Settles(t, <<>>)

LEMMA ProductsOfTools ==
  ASSUME NEW t \in Tools
  PROVE  /\ LatestOf(t) \in SUBSET Products /\ NumberedOf(t) \in SUBSET Products
         /\ \A s \in Tools : s # t =>
              (LatestOf(t) \union NumberedOf(t)) \intersect (LatestOf(s) \union NumberedOf(s)) = {}
         /\ "collection" \notin LatestOf(t)
  BY DEF Tools, LatestOf, NumberedOf, Products

LEMMA BaseIsItsContent ==
  ASSUME NEW t \in Tools, NEW p \in NumberedOf(t)
  PROVE  Content(p, collected) = collected
<1>1. p \in {"collection", "sheet", "sheet table"}
  BY DEF Tools, NumberedOf
<1> QED BY <1>1 DEF Content

(* What one write does to the files *)
LEMMA WriteLands ==
  ASSUME FilesOK, NEW place, NEW p \in Products, NEW c, Written(place, p, c)
  PROVE  /\ FilesOK'
         /\ \A q \in Products : /\ Range(files[q]) \subseteq Range(files'[q])
                                /\ files'[q] = files[q] \/ (q = p /\ Last(files'[q]) = c)
                                /\ latest'[q] = latest[q] \/ (place = "latest" /\ q = p /\ latest'[q] = c)
         /\ place = "number" => c \in Range(files'[p]) /\ Last(files'[p]) = c
         /\ place = "latest" => latest'[p] = c
         /\ index' = IF place = "index" THEN c ELSE index
<1> DEFINE longer == Append(files[p], c)
<1>1. PICK S : files[p] \in Seq(S)
  BY DEF FilesOK
<1>2. /\ longer \in Seq(S \union {c}) /\ Range(files[p]) \subseteq Range(longer)
      /\ c \in Range(longer) /\ Last(longer) = c
  <2>1. files[p] \in Seq(S \union {c}) /\ c \in S \union {c}
    <3>1. Seq(S) \subseteq Seq(S \union {c})
      OBVIOUS
    <3> QED BY <1>1, <3>1
  <2> DEFINE T == S \union {c}
             l == Len(files[p])
  <2> HIDE DEF T
  <2>2. /\ longer \in Seq(T) /\ Len(longer) = l + 1 /\ l \in Nat
        /\ \A i \in 1..l : longer[i] = files[p][i]
        /\ longer[l + 1] = c
        /\ DOMAIN longer = 1..(l + 1) /\ DOMAIN files[p] = 1..l
    BY <2>1, AppendProperties, LenProperties DEF T
  <2> HIDE DEF longer, l
  <2>3. l + 1 \in 1..(l + 1) /\ \A i \in 1..l : i \in 1..(l + 1)
    BY <2>2
  <2> QED BY <2>2, <2>3 DEF Range, Last, T
<1>3. /\ DOMAIN files = Products /\ DOMAIN latest = Products
      /\ \A q \in Products : \E U : files[q] \in Seq(U)
  BY DEF FilesOK
<1>4. files' = IF place = "number" THEN [files EXCEPT ![p] = longer] ELSE files
  BY DEF Written
<1>5. latest' = IF place = "latest" THEN [latest EXCEPT ![p] = c] ELSE latest
  BY DEF Written
<1> HIDE DEF longer
<1>6. /\ DOMAIN files' = Products /\ DOMAIN latest' = Products
      /\ \A q \in Products : files'[q] = IF place = "number" /\ q = p THEN longer ELSE files[q]
      /\ \A q \in Products : latest'[q] = IF place = "latest" /\ q = p THEN c ELSE latest[q]
  BY <1>3, <1>4, <1>5
<1>7. FilesOK'
  BY <1>2, <1>3, <1>6 DEF FilesOK
<1>8. index' = IF place = "index" THEN c ELSE index
  BY DEF Written
<1> QED BY <1>2, <1>6, <1>7, <1>8

(* Two lists of writes that fit make one *)
LEMMA WritesJoin ==
  ASSUME NEW t, NEW v, NEW w, WritesFit(v, t), WritesFit(w, t)
  PROVE  /\ WritesFit(v \o w, t)
         /\ \A place, p : Awaited(v, place, p) \/ Awaited(w, place, p) => Awaited(v \o w, place, p)
<1>1. PICK S : v \in Seq(S)
  BY DEF WritesFit
<1>2. PICK T : w \in Seq(T)
  BY DEF WritesFit
<1> DEFINE U == S \union T
           m == Len(v)
           n == Len(w)
           vw == v \o w
<1>3. v \in Seq(U) /\ w \in Seq(U)
  BY <1>1, <1>2
<1> HIDE DEF U
<1>4. /\ vw \in Seq(U) /\ m \in Nat /\ n \in Nat
      /\ DOMAIN v = 1..m /\ DOMAIN w = 1..n /\ DOMAIN vw = 1..(m + n)
      /\ \A i \in 1..(m + n) : vw[i] = IF i <= m THEN v[i] ELSE w[i - m]
  BY <1>3, ConcatProperties, LenProperties
<1> HIDE DEF m, n, vw
<1>5. \A i \in 1..m : i \in 1..(m + n) /\ vw[i] = v[i]
  BY <1>4
<1>6. \A i \in 1..n : i + m \in 1..(m + n) /\ vw[i + m] = w[i]
  <2> SUFFICES ASSUME NEW i \in 1..n PROVE i + m \in 1..(m + n) /\ vw[i + m] = w[i]
    OBVIOUS
  <2>1. i + m \in 1..(m + n) /\ ~(i + m <= m) /\ (i + m) - m = i
    BY <1>4
  <2> QED BY <2>1, <1>4
<1>7. ASSUME NEW k \in 1..(m + n)
      PROVE  /\ vw[k].product \in LatestOf(t) \union NumberedOf(t)
             /\ vw[k].content = Content(vw[k].product, collected)
             /\ vw[k].to \in {"latest", "index"} => KeptBefore(vw, k)
             /\ vw[k].to = "index" => vw[k].product = "collection"
  <2>1. CASE k <= m
    <3>1. k \in 1..m /\ vw[k] = v[k]
      BY <2>1, <1>4
    <3>2. \A j \in 1..(k - 1) : vw[j] = v[j]
      BY <2>1, <1>4
    <3>3. KeptBefore(v, k) => KeptBefore(vw, k)
      BY <3>1, <3>2 DEF KeptBefore
    <3> QED BY <3>1, <3>3, <1>4 DEF WritesFit
  <2>2. CASE ~(k <= m)
    <3> DEFINE i == k - m
    <3>1. i \in 1..n /\ vw[k] = w[i] /\ k = i + m
      BY <2>2, <1>4
    <3> HIDE DEF i
    <3>2. \A j \in 1..(i - 1) : j + m \in 1..(k - 1) /\ vw[j + m] = w[j]
      <4> SUFFICES ASSUME NEW j \in 1..(i - 1) PROVE j + m \in 1..(k - 1) /\ vw[j + m] = w[j]
        OBVIOUS
      <4>1. j \in 1..n /\ j + m \in 1..(k - 1)
        BY <3>1, <1>4
      <4> QED BY <4>1, <1>6
    <3>3. KeptBefore(w, i) => KeptBefore(vw, k)
      BY <3>1, <3>2 DEF KeptBefore
    <3> QED BY <3>1, <3>3, <1>4 DEF WritesFit
  <2> QED BY <2>1, <2>2
<1>8. WritesFit(vw, t)
  BY <1>4, <1>7 DEF WritesFit
<1>9. \A place, p : Awaited(v, place, p) \/ Awaited(w, place, p) => Awaited(vw, place, p)
  BY <1>4, <1>5, <1>6 DEF Awaited
<1> QED BY <1>8, <1>9 DEF vw

LEMMA TwoInARow ==
  ASSUME NEW a, NEW b
  PROVE  <<a>> \o <<b>> = <<a, b>>
<1> DEFINE ab == <<a>> \o <<b>>
           S == {a, b}
<1>1. <<a>> \in Seq(S) /\ <<b>> \in Seq(S) /\ Len(<<a>>) = 1 /\ Len(<<b>>) = 1
      /\ <<a>>[1] = a /\ <<b>>[1] = b
  OBVIOUS
<1>2. /\ ab \in Seq(S) /\ Len(ab) = 2
      /\ \A i \in 1..2 : ab[i] = IF i <= 1 THEN <<a>>[i] ELSE <<b>>[i - 1]
  BY <1>1, ConcatProperties
<1> HIDE DEF ab
<1>3. ab[1] = a /\ ab[2] = b
  BY <1>1, <1>2
<1> HIDE DEF S
<1>4. ab = <<a, b>>
  BY <1>2, <1>3
<1> QED BY <1>4 DEF ab

LEMMA NothingToWrite ==
  ASSUME NEW t
  PROVE  WritesFit(<<>>, t) /\ \A place, p : ~Awaited(<<>>, place, p)
<1>1. <<>> \in Seq({}) /\ DOMAIN <<>> = {}
  OBVIOUS
<1> QED BY <1>1 DEF WritesFit, Awaited

LEMMA OneNumbered ==
  ASSUME NEW t, NEW p \in LatestOf(t) \union NumberedOf(t)
  PROVE  WritesFit(<<Put("number", p)>>, t) /\ Awaited(<<Put("number", p)>>, "number", p)
<1> DEFINE put == Put("number", p)
           ws == <<put>>
<1>1. put.to = "number" /\ put.product = p /\ put.content = Content(p, collected)
  BY DEF Put
<1> HIDE DEF put
<1>2. ws \in Seq({put}) /\ DOMAIN ws = {1} /\ ws[1] = put
  OBVIOUS
<1> HIDE DEF ws
<1> QED BY <1>1, <1>2 DEF WritesFit, Awaited, ws, put

LEMMA KeptThenPlaced ==
  ASSUME NEW t, NEW p \in LatestOf(t) \union NumberedOf(t), NEW place \in {"latest", "index"},
         place = "index" => p = "collection"
  PROVE  /\ WritesFit(<<Put("number", p), Put(place, p)>>, t)
         /\ Awaited(<<Put("number", p), Put(place, p)>>, "number", p)
         /\ Awaited(<<Put("number", p), Put(place, p)>>, place, p)
<1> DEFINE one == Put("number", p)
           two == Put(place, p)
           ws == <<one, two>>
<1>1. one.to = "number" /\ one.product = p /\ one.content = Content(p, collected)
  BY DEF Put
<1>2. two.to = place /\ two.product = p /\ two.content = Content(p, collected)
  BY DEF Put
<1> HIDE DEF one, two
<1>3. ws \in Seq({one, two}) /\ DOMAIN ws = {1, 2} /\ ws[1] = one /\ ws[2] = two
  OBVIOUS
<1> HIDE DEF ws
<1>4. one.to \notin {"latest", "index"}
  BY <1>1
<1>5. KeptBefore(ws, 2)
  <2>1. 1 \in 1..(2 - 1)
    OBVIOUS
  <2> QED BY <1>1, <1>2, <1>3, <2>1 DEF KeptBefore
<1>6. WritesFit(ws, t)
  BY <1>1, <1>2, <1>3, <1>4, <1>5 DEF WritesFit
<1> QED BY <1>1, <1>2, <1>3, <1>6 DEF Awaited, ws, one, two

LEMMA OneCopied ==
  ASSUME NEW t, NEW p \in LatestOf(t) \union NumberedOf(t)
  PROVE  WritesFit(<<Put("copy", p)>>, t)
<1> DEFINE put == Put("copy", p)
           ws == <<put>>
<1>1. put.to = "copy" /\ put.product = p /\ put.content = Content(p, collected)
  BY DEF Put
<1> HIDE DEF put
<1>2. ws \in Seq({put}) /\ DOMAIN ws = {1} /\ ws[1] = put
  OBVIOUS
<1> HIDE DEF ws
<1> QED BY <1>1, <1>2 DEF WritesFit, ws, put

LEMMA SnapshotFits ==
  ASSUME NEW t, NEW p \in LatestOf(t)
  PROVE  /\ WritesFit(Snapshot(p), t)
         /\ latest[p] = Content(p, collected) \/ Awaited(Snapshot(p), "latest", p)
<1>1. CASE latest[p] = Content(p, collected)
  <2>1. Snapshot(p) = <<>>
    BY <1>1 DEF Snapshot
  <2> QED BY <1>1, <2>1, NothingToWrite
<1>2. CASE latest[p] # Content(p, collected)
  <2>1. Snapshot(p) = <<Put("number", p), Put("latest", p)>>
    BY <1>2 DEF Snapshot
  <2>2. "latest" \in {"latest", "index"} /\ ("latest" = "index" => p = "collection")
    OBVIOUS
  <2> QED BY <2>1, <2>2, KeptThenPlaced
<1> QED BY <1>1, <1>2

(* A tool sets out to write what its products lack, in the right order *)
LEMMA WritesOfTool ==
  ASSUME PublishingInv, NEW t \in Tools
  PROVE  WritesFit(WritesOf(t), t) /\ Settles(t, WritesOf(t))
<1>1. CASE t = "validate"
  <2>1. WritesOf(t) = Snapshot("report") /\ LatestOf(t) = {"report"} /\ NumberedOf(t) = {}
    BY <1>1 DEF WritesOf, ValidateWrites, LatestOf, NumberedOf
  <2> QED BY <2>1, SnapshotFits DEF Settles
<1>2. CASE t = "manifest"
  <2> DEFINE first == Snapshot("manifest")
             then == IF first = <<>> THEN <<>> ELSE <<Put("copy", "manifest")>>
  <2>1. WritesOf(t) = first \o then /\ LatestOf(t) = {"manifest"} /\ NumberedOf(t) = {}
    BY <1>2 DEF WritesOf, ManifestWrites, LatestOf, NumberedOf
  <2>2. WritesFit(then, t)
    <3>1. WritesFit(<<>>, t) /\ WritesFit(<<Put("copy", "manifest")>>, t)
      BY <2>1, NothingToWrite, OneCopied
    <3> QED BY <3>1
  <2> HIDE DEF then
  <2>3. /\ WritesFit(first, t)
        /\ latest["manifest"] = Content("manifest", collected) \/ Awaited(first, "latest", "manifest")
    BY <2>1, SnapshotFits
  <2> HIDE DEF first
  <2>4. /\ WritesFit(first \o then, t)
        /\ \A place, p : Awaited(first, place, p) => Awaited(first \o then, place, p)
    BY <2>2, <2>3, WritesJoin
  <2> QED BY <2>1, <2>3, <2>4 DEF Settles
<1>3. CASE t = "export core"
  <2> DEFINE first == Snapshot("kb")
             then == Snapshot("eval")
  <2>1. WritesOf(t) = first \o then /\ LatestOf(t) = {"kb", "eval"} /\ NumberedOf(t) = {}
    BY <1>3 DEF WritesOf, ExportCoreWrites, LatestOf, NumberedOf
  <2>2. /\ WritesFit(first, t) /\ WritesFit(then, t)
        /\ latest["kb"] = Content("kb", collected) \/ Awaited(first, "latest", "kb")
        /\ latest["eval"] = Content("eval", collected) \/ Awaited(then, "latest", "eval")
    BY <2>1, SnapshotFits
  <2> HIDE DEF first, then
  <2>3. /\ WritesFit(first \o then, t)
        /\ \A place, p : Awaited(first, place, p) \/ Awaited(then, place, p)
             => Awaited(first \o then, place, p)
    BY <2>2, WritesJoin
  <2> QED BY <2>1, <2>2, <2>3 DEF Settles
<1>4. CASE t = "export"
  <2> DEFINE ws == WritesOf(t)
             C == Content("collection", collected)
             last == Put("index", "collection")
  <2>1. LatestOf(t) = {} /\ NumberedOf(t) = {"collection"}
    BY <1>4 DEF LatestOf, NumberedOf
  <2>2. C = collected
    BY <2>1, BaseIsItsContent
  <2>3. ws = (IF index = C THEN <<>> ELSE <<Put("number", "collection")>>) \o <<last>>
    BY <1>4 DEF WritesOf, ExportWrites
  <2> HIDE DEF ws
  <2>4. CASE index = C
    <3>1. index \in Range(files["collection"])
      BY <2>2, <2>4, RecordsAssumption DEF PublishingInv
    <3>2. last.to = "index" /\ last.product = "collection" /\ last.content = C
      BY DEF Put
    <3> HIDE DEF last, C
    <3>3. ws = <<>> \o <<last>>
      BY <2>3, <2>4
    <3>4. ws = <<last>>
      BY <3>3
    <3>5. ws \in Seq({last}) /\ DOMAIN ws = {1} /\ ws[1] = last
      BY <3>4
    <3>6. KeptBefore(ws, 1)
      BY <3>1, <3>2, <3>5, <2>4 DEF KeptBefore
    <3>7. WritesFit(ws, t)
      BY <2>1, <3>2, <3>5, <3>6 DEF WritesFit, C
    <3>8. Shows("collection")
      BY <3>1, <2>2, <2>4 DEF Shows
    <3> QED BY <2>1, <3>7, <3>8 DEF Settles, ws
  <2>5. CASE index # C
    <3>1. ws = <<Put("number", "collection")>> \o <<last>>
      BY <2>3, <2>5
    <3> DEFINE one == Put("number", "collection")
    <3> HIDE DEF C, last, one
    <3>2. ws = <<one, last>>
      BY <3>1, TwoInARow DEF one
    <3>3. WritesFit(ws, t) /\ Awaited(ws, "number", "collection")
      <4>1. "index" \in {"latest", "index"} /\ "collection" \in LatestOf(t) \union NumberedOf(t)
        BY <2>1
      <4> QED BY <3>2, <4>1, KeptThenPlaced DEF one, last
    <3> QED BY <2>1, <3>3 DEF Settles, ws
  <2> QED BY <2>4, <2>5
<1>5. CASE t = "sheet"
  <2> DEFINE one == Put("number", "sheet")
             two == Put("number", "sheet table")
  <2>1. WritesOf(t) = <<one, two>> /\ LatestOf(t) = {} /\ NumberedOf(t) = {"sheet", "sheet table"}
    BY <1>5 DEF WritesOf, SheetWrites, LatestOf, NumberedOf
  <2>2. /\ WritesFit(<<one>>, t) /\ WritesFit(<<two>>, t)
        /\ Awaited(<<one>>, "number", "sheet") /\ Awaited(<<two>>, "number", "sheet table")
    BY <2>1, OneNumbered
  <2> HIDE DEF one, two
  <2>3. <<one>> \o <<two>> = <<one, two>>
    BY TwoInARow
  <2>4. /\ WritesFit(<<one, two>>, t)
        /\ \A place, p : Awaited(<<one>>, place, p) \/ Awaited(<<two>>, place, p)
             => Awaited(<<one, two>>, place, p)
    BY <2>2, <2>3, WritesJoin
  <2> QED BY <2>1, <2>2, <2>4 DEF Settles
<1> QED BY <1>1, <1>2, <1>3, <1>4, <1>5 DEF Tools

LEMMA PublishingStart == PublishingInit => PublishingInv
<1> SUFFICES ASSUME PublishingInit PROVE PublishingInv
  OBVIOUS
<1>1. collected \in Seq(Records)
  BY RecordsAssumption DEF PublishingInit
<1>2. FilesOK /\ LatestIsAVersion
  <2>1. <<>> \in Seq({})
    OBVIOUS
  <2> QED BY <2>1 DEF PublishingInit, FilesOK, LatestIsAVersion
<1> QED BY <1>1, <1>2 DEF PublishingInit, PublishingInv

(* What does not depend on the files that change, the base or the tool *)
LEMMA FilesUntouched ==
  ASSUME UNCHANGED <<collected, files, latest>>, NEW t, NEW ws
  PROVE  /\ FilesOK => FilesOK'
         /\ LatestIsAVersion => LatestIsAVersion'
         /\ WritesFit(ws, t) => WritesFit(ws, t)'
         /\ Settles(t, ws) => Settles(t, ws)'
<1>1. FilesOK => FilesOK'
  BY DEF FilesOK
<1>2. LatestIsAVersion => LatestIsAVersion'
  BY DEF LatestIsAVersion
<1>3. WritesFit(ws, t) => WritesFit(ws, t)'
  BY DEF WritesFit, KeptBefore
<1>4. Settles(t, ws) => Settles(t, ws)'
  BY DEF Settles, Shows, Awaited
<1> QED BY <1>1, <1>2, <1>3, <1>4

LEMMA ReseedStep ==
  ASSUME PublishingInv, Reseed
  PROVE  PublishingInv'
<1>1. PICK r \in Reseeds :
        LET kept == [k \in DOMAIN collected |-> IF collected[k].id = r.id THEN r ELSE collected[k]]
        IN  collected' = IF r \in Range(kept) THEN kept ELSE Append(kept, r)
  BY DEF Reseed
<1> DEFINE kept == [k \in DOMAIN collected |-> IF collected[k].id = r.id THEN r ELSE collected[k]]
<1>2. r \in Records
  <2> DEFINE first == UNION {Range(base) : base \in FirstBases}
  <2>1. Records = first \union Reseeds
    BY DEF Records
  <2> HIDE DEF first
  <2> QED BY <2>1
<1>3. collected' \in {kept, Append(kept, r)}
  BY <1>1
<1>4. collected \in Seq(Records)
  BY DEF PublishingInv
<1> DEFINE n == Len(collected)
<1>5. n \in Nat /\ DOMAIN collected = 1..n /\ \A k \in 1..n : collected[k] \in Records
  BY <1>4, LenProperties, ElementOfSeq
<1>6. kept \in Seq(Records)
  <2> HIDE DEF n
  <2>1. kept \in [1..n -> Records]
    BY <1>2, <1>5
  <2> HIDE DEF kept
  <2> QED BY <1>5, <2>1, SeqDef
<1> HIDE DEF kept, n
<1>7. collected' \in Seq(Records)
  BY <1>2, <1>3, <1>6, AppendProperties
<1>8. /\ fresh' = {} /\ tool = NoTool
      /\ UNCHANGED <<tool, writes, files, latest, index>>
  BY DEF Reseed
<1>9. FilesOK' /\ LatestIsAVersion'
  BY <1>8 DEF PublishingInv, FilesOK, LatestIsAVersion
<1> QED BY <1>7, <1>8, <1>9 DEF PublishingInv

LEMMA BeginToolStep ==
  ASSUME PublishingInv, NEW t \in Tools, BeginTool(t)
  PROVE  PublishingInv'
<1>1. /\ tool = NoTool /\ tool' = t /\ writes' = WritesOf(t) /\ fresh' = fresh \ {t}
      /\ UNCHANGED <<collected, files, latest, index>>
  BY DEF BeginTool
<1>2. PICK ws : ws = WritesOf(t)
  OBVIOUS
<1>3. WritesFit(ws, t) /\ Settles(t, ws)
  BY <1>2, WritesOfTool
<1>4. WritesFit(ws, t)' /\ Settles(t, ws)'
  BY <1>1, <1>3, FilesUntouched
<1>5. writes' = ws
  BY <1>1, <1>2
<1>6. WritesFit(writes, tool)' /\ Settles(tool, writes)'
  <2>1. ASSUME NEW v, v = ws PROVE WritesFit(v, t)' /\ Settles(t, v)'
    BY <1>4, <2>1
  <2> QED BY <1>1, <1>4, <1>5 DEF WritesFit, KeptBefore, Settles, Awaited, Shows
<1>7. FilesOK' /\ LatestIsAVersion'
  BY <1>1, FilesUntouched DEF PublishingInv
<1>8. \A s \in fresh' : Settles(s, <<>>)'
  BY <1>1, FilesUntouched DEF PublishingInv
<1>9. fresh' \in SUBSET (Tools \ {tool'}) /\ t # NoTool
  BY <1>1, RecordsAssumption DEF PublishingInv
<1> QED BY <1>1, <1>6, <1>7, <1>8, <1>9 DEF PublishingInv
(* A write of what the base says leaves settled what was *)
LEMMA WriteSettles ==
  ASSUME FilesOK, NEW t \in Tools, NEW ws, Settles(t, ws),
         NEW place, NEW p \in Products, Written(place, p, Content(p, collected)),
         UNCHANGED collected
  PROVE  Settles(t, ws)'
<1> DEFINE c == Content(p, collected)
<1>1. \A q \in Products :
        /\ Range(files[q]) \subseteq Range(files'[q])
        /\ files'[q] = files[q] \/ (q = p /\ Last(files'[q]) = c)
        /\ latest'[q] = latest[q] \/ (q = p /\ latest'[q] = c)
  <2>1. PICK d : d = c
    OBVIOUS
  <2> HIDE DEF c
  <2>2. Written(place, p, d)
    BY <2>1 DEF c
  <2> QED BY <2>1, <2>2, WriteLands
<1>2. LatestOf(t) \in SUBSET Products /\ NumberedOf(t) \in SUBSET Products
  BY ProductsOfTools
<1>3. \A q \in LatestOf(t) : latest[q] = Content(q, collected) => latest'[q] = Content(q, collected)
  BY <1>1, <1>2
<1>4. ASSUME NEW q \in NumberedOf(t), Shows(q) PROVE Shows(q)'
  <2>1. q \in Products /\ Content(q, collected) = collected
    BY <1>2, BaseIsItsContent
  <2>2. files'[q] = files[q] \/ Last(files'[q]) = collected
    BY <1>1, <2>1
  <2> HIDE DEF c
  <2> QED BY <1>1, <1>4, <2>1, <2>2 DEF Shows
<1>5. Content(p, collected)' = Content(p, collected) /\ \A q : Content(q, collected)' = Content(q, collected)
  OBVIOUS
<1>6. \A q \in LatestOf(t) : latest'[q] = Content(q, collected)' \/ Awaited(ws, "latest", q)
  BY <1>3, <1>5 DEF Settles
<1>7. \A q \in NumberedOf(t) : Shows(q)' \/ Awaited(ws, "number", q)
  BY <1>4 DEF Settles
<1> QED BY <1>6, <1>7 DEF Settles, Awaited

LEMMA WriteFileStep ==
  ASSUME PublishingInv, WriteFile
  PROVE  PublishingInv'
<1>1. PICK ws : ws = writes
  OBVIOUS
<1>2. PICK place, p, c : place = ws[1].to /\ p = ws[1].product /\ c = ws[1].content
  OBVIOUS
<1>3. /\ ws # <<>> /\ tool # NoTool /\ tool \in Tools
      /\ Written(place, p, c) /\ writes' = Tail(ws)
      /\ UNCHANGED <<collected, tool, fresh>>
  BY <1>1, <1>2 DEF WriteFile, PublishingInv
<1>4. PICK t \in Tools : t = tool
  BY <1>3
<1>5. WritesFit(ws, t) /\ Settles(t, ws) /\ FilesOK /\ LatestIsAVersion
  BY <1>1, <1>3, <1>4 DEF PublishingInv
<1>6. PICK S : ws \in Seq(S)
  BY <1>5 DEF WritesFit
<1> DEFINE n == Len(ws)
           rest == Tail(ws)
<1>7. /\ n \in Nat /\ DOMAIN ws = 1..n /\ 1 \in 1..n
      /\ rest \in Seq(S) /\ DOMAIN rest = 1..(n - 1)
      /\ \A k \in 1..(n - 1) : k + 1 \in 1..n /\ rest[k] = ws[k + 1]
  <2>1. /\ rest \in Seq(S) /\ Len(rest) = n - 1 /\ n \in Nat /\ n # 0
        /\ \A k \in 1..(n - 1) : rest[k] = ws[k + 1]
    BY <1>3, <1>6
  <2>2. DOMAIN ws = 1..n /\ DOMAIN rest = 1..Len(rest)
    BY <1>6, <2>1, LenProperties
  <2> HIDE DEF n, rest
  <2> QED BY <2>1, <2>2
<1> HIDE DEF n, rest
<1>8. /\ p \in LatestOf(t) \union NumberedOf(t) /\ c = Content(p, collected)
      /\ place \in {"latest", "index"} => KeptBefore(ws, 1)
      /\ place = "index" => p = "collection"
  BY <1>2, <1>5, <1>7 DEF WritesFit
<1>9. place \in {"latest", "index"} => c \in Range(files[p])
  <2>1. \A j \in 1..(1 - 1) : FALSE
    OBVIOUS
  <2> QED BY <1>2, <1>8, <2>1 DEF KeptBefore
<1>10. p \in Products
  BY <1>8, ProductsOfTools
<1>11. /\ FilesOK'
       /\ \A q \in Products : /\ Range(files[q]) \subseteq Range(files'[q])
                              /\ latest'[q] = latest[q] \/ (place = "latest" /\ q = p /\ latest'[q] = c)
       /\ place = "number" => c \in Range(files'[p]) /\ Last(files'[p]) = c
       /\ place = "latest" => latest'[p] = c
       /\ index' = IF place = "index" THEN c ELSE index
  <2>1. FilesOK /\ Written(place, p, c)
    BY <1>3, <1>5
  <2>2. /\ FilesOK'
        /\ \A q \in Products : /\ Range(files[q]) \subseteq Range(files'[q])
                               /\ files'[q] = files[q] \/ (q = p /\ Last(files'[q]) = c)
                               /\ latest'[q] = latest[q] \/ (place = "latest" /\ q = p /\ latest'[q] = c)
        /\ place = "number" => c \in Range(files'[p]) /\ Last(files'[p]) = c
        /\ place = "latest" => latest'[p] = c
        /\ index' = IF place = "index" THEN c ELSE index
    BY <2>1, <1>10, WriteLands
  <2> QED BY <2>2
<1>12. LatestIsAVersion'
  <2> SUFFICES ASSUME NEW q \in Products, latest'[q] \notin {Absent, Torn}
               PROVE  latest'[q] \in Range(files'[q])
    BY DEF LatestIsAVersion
  <2>1. CASE latest'[q] = latest[q]
    <3>1. latest[q] \in Range(files[q])
      BY <2>1, <1>5 DEF LatestIsAVersion
    <3> QED BY <2>1, <3>1, <1>11
  <2>2. CASE place = "latest" /\ q = p /\ latest'[q] = c
    BY <2>2, <1>9, <1>11
  <2> QED BY <2>1, <2>2, <1>11
<1>13. index' = Absent \/ index' \in Range(files["collection"])'
  <2>1. "collection" \in Products
    BY DEF Products
  <2>2. CASE place = "index"
    BY <2>1, <2>2, <1>8, <1>9, <1>11
  <2>3. CASE place # "index"
    BY <2>1, <2>3, <1>11 DEF PublishingInv
  <2> QED BY <2>2, <2>3
<1>14. ASSUME NEW k \in 1..(n - 1)
       PROVE  /\ rest[k].product \in LatestOf(t) \union NumberedOf(t)
              /\ rest[k].content = Content(rest[k].product, collected)
              /\ rest[k].to \in {"latest", "index"} => KeptBefore(rest, k)'
              /\ rest[k].to = "index" => rest[k].product = "collection"
  <2>1. k + 1 \in DOMAIN ws /\ rest[k] = ws[k + 1]
    BY <1>7
  <2>2. /\ rest[k].product \in LatestOf(t) \union NumberedOf(t)
        /\ rest[k].content = Content(rest[k].product, collected)
        /\ rest[k].to = "index" => rest[k].product = "collection"
        /\ rest[k].to \in {"latest", "index"} => KeptBefore(ws, k + 1)
    BY <2>1, <1>5 DEF WritesFit
  <2>3. rest[k].product \in Products
    BY <2>2, ProductsOfTools
  <2>4. ASSUME KeptBefore(ws, k + 1)
        PROVE  \/ rest[k].content \in Range(files'[rest[k].product])
               \/ \E j \in 1..(k - 1) : rest[j].to = "number" /\ rest[j].product = rest[k].product
                                          /\ rest[j].content = rest[k].content
    <3>1. CASE rest[k].content \in Range(files[rest[k].product])
      BY <3>1, <2>3, <1>11
    <3>2. ASSUME NEW j \in 1..k, ws[j].to = "number", ws[j].product = rest[k].product,
                 ws[j].content = rest[k].content
          PROVE  \/ rest[k].content \in Range(files'[rest[k].product])
                 \/ \E i \in 1..(k - 1) : rest[i].to = "number" /\ rest[i].product = rest[k].product
                                            /\ rest[i].content = rest[k].content
      <4>1. CASE j = 1
        BY <4>1, <3>2, <1>2, <1>11
      <4>2. CASE j # 1
        <5> DEFINE i == j - 1
        <5>1. i \in 1..(k - 1) /\ i \in 1..(n - 1) /\ i + 1 = j
          BY <4>2, <1>7
        <5> HIDE DEF i
        <5>2. rest[i] = ws[j]
          BY <5>1, <1>7
        <5> QED BY <5>1, <5>2, <3>2
      <4> QED BY <4>1, <4>2
    <3>3. (k + 1) - 1 = k
      BY <1>7
    <3> QED BY <2>1, <2>4, <3>1, <3>2, <3>3 DEF KeptBefore
  <2>5. KeptBefore(ws, k + 1) => KeptBefore(rest, k)'
    BY <2>4 DEF KeptBefore, rest
  <2> QED BY <2>2, <2>5
<1>15. WritesFit(writes, tool)'
  <2>1. writes' = rest
    BY <1>3 DEF rest
  <2>2. \E U : writes' \in Seq(U)
    BY <2>1, <1>7
  <2>3. \A k \in DOMAIN writes' :
          /\ writes'[k].product \in LatestOf(t) \union NumberedOf(t)
          /\ writes'[k].content = Content(writes'[k].product, collected')
          /\ writes'[k].to \in {"latest", "index"} => KeptBefore(writes, k)'
          /\ writes'[k].to = "index" => writes'[k].product = "collection"
    <3>1. \A k : KeptBefore(rest, k)' => KeptBefore(writes, k)'
      BY <2>1 DEF KeptBefore, rest
    <3>2. \A k \in 1..(n - 1) :
            /\ rest[k].content = Content(rest[k].product, collected')
            /\ rest[k].to \in {"latest", "index"} => KeptBefore(writes, k)'
      BY <3>1, <1>3, <1>14
    <3> QED BY <2>1, <3>2, <1>7, <1>14
  <2> QED BY <2>2, <2>3, <1>3, <1>4 DEF WritesFit
<1>16. \A s \in Tools : \A v : Settles(s, v) => Settles(s, v)'
  <2> SUFFICES ASSUME NEW s \in Tools, NEW v, Settles(s, v) PROVE Settles(s, v)'
    OBVIOUS
  <2>1. Written(place, p, Content(p, collected))
    BY <1>3, <1>8
  <2> QED BY <2>1, <1>3, <1>5, <1>10, WriteSettles
<1>17. Settles(tool, writes)'
  <2>1. Settles(t, ws)'
    BY <1>5, <1>16
  <2>2. \A k \in 1..n : k = 1 \/ (k - 1 \in 1..(n - 1) /\ rest[k - 1] = ws[k])
    <3> SUFFICES ASSUME NEW k \in 1..n, k # 1
                 PROVE  k - 1 \in 1..(n - 1) /\ rest[k - 1] = ws[k]
      OBVIOUS
    <3>1. k - 1 \in 1..(n - 1) /\ (k - 1) + 1 = k
      BY <1>7
    <3> QED BY <3>1, <1>7
  <2>3. \A to, q : Awaited(ws, to, q) => Awaited(rest, to, q) \/ (to = place /\ q = p)
    <3> SUFFICES ASSUME NEW to, NEW q, Awaited(ws, to, q), ~(to = place /\ q = p)
                 PROVE  Awaited(rest, to, q)
      OBVIOUS
    <3>1. PICK k \in 1..n : ws[k].to = to /\ ws[k].product = q
      BY <1>7 DEF Awaited
    <3>2. k # 1
      BY <3>1, <1>2
    <3>3. k - 1 \in DOMAIN rest /\ rest[k - 1] = ws[k]
      BY <3>2, <2>2, <1>7
    <3> QED BY <3>1, <3>3 DEF Awaited
  <2>4. \A q \in LatestOf(t) : latest'[q] = Content(q, collected') \/ Awaited(rest, "latest", q)
    <3> SUFFICES ASSUME NEW q \in LatestOf(t), ~Awaited(rest, "latest", q)
                 PROVE  latest'[q] = Content(q, collected')
      OBVIOUS
    <3>1. latest'[q] = Content(q, collected') \/ Awaited(ws, "latest", q)
      BY <2>1 DEF Settles, Awaited
    <3>2. ASSUME Awaited(ws, "latest", q) PROVE latest'[q] = Content(q, collected')
      <4>1. place = "latest" /\ q = p
        BY <2>3, <3>2
      <4>2. latest'[q] = c /\ c = Content(q, collected) /\ collected' = collected
        BY <4>1, <1>3, <1>8, <1>11
      <4> QED BY <4>2
    <3> QED BY <3>1, <3>2
  <2>5. \A q \in NumberedOf(t) : Shows(q)' \/ Awaited(rest, "number", q)
    <3> SUFFICES ASSUME NEW q \in NumberedOf(t) PROVE Shows(q)' \/ Awaited(rest, "number", q)
      OBVIOUS
    <3>1. CASE Shows(q)'
      BY <3>1
    <3>2. CASE Awaited(ws, "number", q)
      <4>1. CASE place = "number" /\ q = p
        <5>1. c = collected
          BY <4>1, <1>8, BaseIsItsContent
        <5> QED BY <4>1, <5>1, <1>3, <1>11 DEF Shows
      <4> QED BY <4>1, <3>2, <2>3
    <3> QED BY <3>1, <3>2, <2>1 DEF Settles, Awaited
  <2>6. writes' = rest /\ tool' = t
    BY <1>3, <1>4 DEF rest
  <2> QED BY <2>4, <2>5, <2>6 DEF Settles, Awaited
<1>18. \A s \in fresh' : Settles(s, <<>>)'
  BY <1>3, <1>16 DEF PublishingInv
<1>19. collected' \in Seq(Records) /\ tool' # NoTool /\ tool' \in Tools
       /\ fresh' \in SUBSET (Tools \ {tool'})
  BY <1>3 DEF PublishingInv
<1> QED BY <1>11, <1>12, <1>13, <1>15, <1>17, <1>18, <1>19 DEF PublishingInv

LEMMA EndToolStep ==
  ASSUME PublishingInv, EndTool
  PROVE  PublishingInv'
<1>1. /\ tool \in Tools /\ writes = <<>> /\ tool' = NoTool /\ fresh' = fresh \union {tool}
      /\ UNCHANGED <<collected, writes, files, latest, index>>
  BY DEF EndTool, PublishingInv
<1>2. \A s \in fresh' : Settles(s, <<>>)
  BY <1>1 DEF PublishingInv, EndTool
<1>3. \A s \in fresh' : Settles(s, <<>>)'
  BY <1>1, <1>2, FilesUntouched
<1>4. FilesOK' /\ LatestIsAVersion'
  BY <1>1, FilesUntouched DEF PublishingInv
<1>5. fresh' \in SUBSET (Tools \ {tool'})
  BY <1>1, RecordsAssumption DEF PublishingInv
<1> QED BY <1>1, <1>3, <1>4, <1>5 DEF PublishingInv

(* A torn file belongs to the tool that was killed, and no other needs it *)
LEMMA TornFile ==
  ASSUME PublishingInv, tool \in Tools, writes # <<>>, writes[1].to # "index",
         Written(writes[1].to, writes[1].product, Torn), UNCHANGED collected
  PROVE  /\ FilesOK' /\ LatestIsAVersion' /\ index' = index
         /\ Range(files["collection"]) \subseteq Range(files'["collection"])
         /\ \A s \in fresh : Settles(s, <<>>)'
<1>1. PICK place, p, t : place = writes[1].to /\ p = writes[1].product /\ t = tool
  OBVIOUS
<1>2. Written(place, p, Torn) /\ place # "index" /\ t \in Tools /\ fresh \in SUBSET (Tools \ {t})
  BY <1>1 DEF PublishingInv
<1>3. p \in LatestOf(t) \union NumberedOf(t)
  <2>1. WritesFit(writes, t)
    BY <1>1, RecordsAssumption DEF PublishingInv
  <2>2. PICK S : writes \in Seq(S)
    BY <2>1 DEF WritesFit
  <2>3. 1 \in DOMAIN writes
    BY <2>2
  <2> QED BY <1>1, <2>1, <2>3 DEF WritesFit
<1>4. p \in Products
  BY <1>2, <1>3, ProductsOfTools
<1>5. /\ FilesOK'
      /\ \A q \in Products : /\ Range(files[q]) \subseteq Range(files'[q])
                             /\ files'[q] = files[q] \/ (q = p /\ Last(files'[q]) = Torn)
                             /\ latest'[q] = latest[q] \/ (place = "latest" /\ q = p /\ latest'[q] = Torn)
      /\ index' = IF place = "index" THEN Torn ELSE index
  <2>1. FilesOK
    BY DEF PublishingInv
  <2> QED BY <1>2, <1>4, <2>1, WriteLands
<1>6. LatestIsAVersion'
  <2>1. LatestIsAVersion
    BY DEF PublishingInv
  <2> QED BY <2>1, <1>5 DEF LatestIsAVersion
<1>7. ASSUME NEW s \in fresh PROVE Settles(s, <<>>)'
  <2>1. s \in Tools /\ s # t /\ Settles(s, <<>>)
    BY <1>2 DEF PublishingInv
  <2>2. \A q \in LatestOf(s) \union NumberedOf(s) : q \in Products /\ q # p
    BY <2>1, <1>2, <1>3, ProductsOfTools
  <2>3. \A q \in LatestOf(s) \union NumberedOf(s) : files'[q] = files[q] /\ latest'[q] = latest[q]
    BY <2>2, <1>5
  <2>4. \A q \in LatestOf(s) : latest'[q] = Content(q, collected')
    BY <2>1, <2>3, NothingToWrite DEF Settles
  <2>5. \A q \in NumberedOf(s) : Shows(q)'
    BY <2>1, <2>3, NothingToWrite DEF Settles, Shows
  <2> QED BY <2>4, <2>5 DEF Settles
<1>8. "collection" \in Products
  BY DEF Products
<1> QED BY <1>2, <1>5, <1>6, <1>7, <1>8

LEMMA KillToolStep ==
  ASSUME PublishingInv, KillTool
  PROVE  PublishingInv'
<1>1. /\ tool \in Tools /\ tool' = NoTool /\ writes' = <<>> /\ UNCHANGED <<collected, fresh>>
      /\ \/ UNCHANGED <<files, latest, index>>
         \/ writes # <<>> /\ writes[1].to # "index" /\ Written(writes[1].to, writes[1].product, Torn)
  BY DEF KillTool, PublishingInv
<1>2. /\ FilesOK' /\ LatestIsAVersion' /\ index' = index
      /\ Range(files["collection"]) \subseteq Range(files'["collection"])
      /\ \A s \in fresh : Settles(s, <<>>)'
  <2>1. CASE UNCHANGED <<files, latest, index>>
    <3>1. FilesOK' /\ LatestIsAVersion' /\ \A s \in fresh : Settles(s, <<>>)'
      BY <2>1, <1>1, FilesUntouched DEF PublishingInv
    <3> QED BY <2>1, <3>1
  <2>2. CASE writes # <<>> /\ writes[1].to # "index" /\ Written(writes[1].to, writes[1].product, Torn)
    BY <2>2, <1>1, TornFile
  <2> QED BY <2>1, <2>2, <1>1
<1>3. index' = Absent \/ index' \in Range(files["collection"])'
  BY <1>2 DEF PublishingInv
<1>4. fresh' \in SUBSET (Tools \ {tool'})
  BY <1>1, RecordsAssumption DEF PublishingInv
<1>5. collected' \in Seq(Records) /\ \A s \in fresh' : Settles(s, <<>>)'
  BY <1>1, <1>2 DEF PublishingInv
<1> QED BY <1>1, <1>2, <1>3, <1>4, <1>5 DEF PublishingInv

LEMMA PublishingStep == PublishingInv /\ [PublishingNext]_publishingVars => PublishingInv'
<1> SUFFICES ASSUME PublishingInv, [PublishingNext]_publishingVars PROVE PublishingInv'
  OBVIOUS
<1>1. CASE UNCHANGED publishingVars
  BY <1>1
  DEF publishingVars, PublishingInv, FilesOK, LatestIsAVersion, WritesFit, KeptBefore, Settles,
      Shows, Awaited
<1> QED
  BY <1>1, ReseedStep, BeginToolStep, WriteFileStep, EndToolStep, KillToolStep DEF PublishingNext

LEMMA ToolsAgree == PublishingInv => FinishedRunsAgree
<1> SUFFICES ASSUME PublishingInv PROVE FinishedRunsAgree
  OBVIOUS
<1>1. \A t \in fresh : /\ \A p \in LatestOf(t) : latest[p] = Content(p, collected)
                       /\ \A p \in NumberedOf(t) : Shows(p)
  BY NothingToWrite DEF PublishingInv, Settles
<1>2. "export core" \in fresh => latest["kb"] = Rows(collected) /\ latest["eval"] = Evals(collected)
  <2>1. LatestOf("export core") = {"kb", "eval"}
    BY DEF LatestOf
  <2>2. Content("kb", collected) = Rows(collected) /\ Content("eval", collected) = Evals(collected)
    BY DEF Content
  <2> QED BY <1>1, <2>1, <2>2
<1>3. "manifest" \in fresh => latest["manifest"] = Tally(collected)
  <2>1. LatestOf("manifest") = {"manifest"}
    BY DEF LatestOf
  <2>2. Content("manifest", collected) = Tally(collected)
    BY DEF Content
  <2> QED BY <1>1, <2>1, <2>2
<1>4. "validate" \in fresh => latest["report"] = Content("report", collected)
  <2>1. LatestOf("validate") = {"report"}
    BY DEF LatestOf
  <2> QED BY <1>1, <2>1
<1>5. "export" \in fresh => collected \in Range(files["collection"])
  <2>1. NumberedOf("export") = {"collection"}
    BY DEF NumberedOf
  <2> QED BY <1>1, <2>1 DEF Shows
<1>6. "sheet" \in fresh => Last(files["sheet"]) = collected /\ Last(files["sheet table"]) = collected
  <2>1. NumberedOf("sheet") = {"sheet", "sheet table"}
    BY DEF NumberedOf
  <2> QED BY <1>1, <2>1 DEF Shows
<1> QED BY <1>2, <1>3, <1>4, <1>5, <1>6 DEF FinishedRunsAgree

(* Whatever the seed files write, an export that kb_validate.py passes     *)
(* states no draft as a fact, and a stronger record keeps its question;    *)
(* whenever tools are run and killed, no latest file says what no numbered *)
(* one says, and a run that ends has brought its products up to date.      *)
THEOREM PublishingHolds == PublishingSpec => []PublishingIsSound
<1>1. PublishingInv => PublishingIsSound
  <2> SUFFICES ASSUME PublishingInv PROVE PublishingIsSound
    OBVIOUS
  <2>1. LatestIsAVersion /\ FinishedRunsAgree
    BY ToolsAgree DEF PublishingInv
  <2>2. DraftsAreNeverFacts(collected) /\ StrongestOwns(collected)
    BY DraftsGuide, StrongestClaims DEF PublishingInv
  <2> QED BY <2>1, <2>2 DEF PublishingIsSound
<1> QED BY <1>1, PublishingStart, PublishingStep, PTL DEF PublishingSpec

==============================================================================
