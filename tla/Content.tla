------------------------------- MODULE Content -------------------------------
(***************************************************************************)
(* What the seed files of tools/ put in the knowledge base: one definition *)
(* for each list of records they write, or for a part of a long one.       *)
(*                                                                         *)
(* Of a record the lists keep its id, the kind of object, its confidence,  *)
(* how many phrasings it answers, and which of those are word for word a   *)
(* phrasing of another record: Q(prefix, number, k) is phrasing k of the   *)
(* strongest record that has it.  The texts are left out.                  *)
(***************************************************************************)
EXTENDS Publishing

Q(prefix, n, k) == <<Id(prefix, n), k>>

OwnAsks(prefix, n, asks) == Asks(Id(prefix, n), asks, <<>>)

Sharing(records, phrasings) ==
  [k \in DOMAIN records |->
     IF records[k].id \in DOMAIN phrasings
     THEN [records[k] EXCEPT !.asks = Asks(records[k].id, Len(@), phrasings[records[k].id])]
     ELSE records[k]]

From(first, last) == [k \in 1..(last - first + 1) |-> first + k - 1]

Lessons(prefix, type, conf, asks, ns) ==
  [k \in DOMAIN ns |-> Lesson(Id(prefix, ns[k]), type, conf, OwnAsks(prefix, ns[k], asks))]
Intro(type, conf, asks, ns) == Lessons("ACA-INT", type, conf, asks, ns)
Eq(type, conf, asks, ns) == Lessons("ACA-EQ", type, conf, asks, ns)
Garble(type, conf, asks, ns) ==
  [k \in DOMAIN ns |-> Garbled(Id("ACA-PSY", ns[k]), type, conf, OwnAsks("ACA-PSY", ns[k], asks))]
Answers(conf, asks, ns) ==
  [k \in DOMAIN ns |-> MentorAnswer(Id("MQA", ns[k]), conf, OwnAsks("MQA", ns[k], asks))]
Platforms(evidence, prefix, type, asks, ns) ==
  [k \in DOMAIN ns |-> Platform(Id(prefix, ns[k]), type, 100, OwnAsks(prefix, ns[k], asks), evidence)]
Documents(approved, prefix, type, conf, asks, ns) ==
  [k \in DOMAIN ns |-> Document(Id(prefix, ns[k]), type, conf, OwnAsks(prefix, ns[k], asks), approved)]
Policies(prefix, type, asks, ns) ==
  [k \in DOMAIN ns |-> Policy(Id(prefix, ns[k]), type, OwnAsks(prefix, ns[k], asks))]
Charters(prefix, asks, ns) ==
  [k \in DOMAIN ns |-> Charter(Id(prefix, ns[k]), OwnAsks(prefix, ns[k], asks))]
StyleRules(prefix, conf, asks, ns) ==
  [k \in DOMAIN ns |-> Style(Id(prefix, ns[k]), conf, OwnAsks(prefix, ns[k], asks))]
Catalogue(source, prefix, type, conf, asks, ns) ==
  [k \in DOMAIN ns |-> Catalogued(Id(prefix, ns[k]), type, source, conf, OwnAsks(prefix, ns[k], asks))]
ModelDrafts(domain, prefix, type, conf, asks, ns) ==
  [k \in DOMAIN ns |-> Drafted(Id(prefix, ns[k]), domain, type, conf, OwnAsks(prefix, ns[k], asks))]
Strangers(prefix, asks, ns) ==
  [k \in DOMAIN ns |-> Quarantined(Id(prefix, ns[k]), OwnAsks(prefix, ns[k], asks))]
Tickets(prefix, ns) == [k \in DOMAIN ns |-> Ticket(Id(prefix, ns[k]))]

------------------------------------------------------------------------------
AcademyPolicies ==
    Policies("ACA-RULE", "RULE", 2, <<1, 5>>) \o Policies("ACA-RULE", "RULE", 5, <<2>>)
    \o Policies("ACA-RULE", "RULE", 3, <<3, 4>>)

Governance ==
    Charters("MET-RULE", 1, From(1, 6))

LessonEq01_1 ==
  Sharing(
    Eq("OPERATIONAL_FACT", 95, 3, <<1>>) \o Eq("CONCEPT", 95, 2, <<2>>)
    \o Eq("DEFINITION", 100, 2, <<3>>) \o Eq("EXAMPLE", 100, 1, <<4>>)
    \o Eq("CONCEPT", 100, 3, <<5>>) \o Eq("CONCEPT", 80, 2, <<6>>)
    \o Eq("COMPARISON", 95, 2, <<7>>) \o Eq("PSYCHOLOGY_PATTERN", 95, 3, <<8>>)
    \o Eq("CONCEPT", 85, 2, <<9>>),
      Id("ACA-EQ", 1) :> (1 :> Q("ACA-SUP", 8, 2) @@ 3 :> Q("ACA-SUP", 8, 1)))

LessonEq01_2 ==
    Eq("EXAMPLE", 75, 2, <<10>>) \o Eq("DEFINITION", 95, 2, <<11>>)
    \o Eq("CONCEPT", 95, 1, <<12>>) \o Eq("COMPARISON", 80, 2, <<13>>)
    \o Eq("CONCEPT", 95, 2, <<14>>) \o Eq("RULE", 95, 2, <<15>>)
    \o Eq("PROCEDURE", 95, 2, <<16>>)

LessonEq02 ==
  Sharing(
    Eq("DEFINITION", 100, 2, <<17>>) \o Eq("CONCEPT", 95, 2, <<18, 21>>)
    \o Eq("CONCEPT", 80, 2, <<19>>) \o Eq("OPERATIONAL_FACT", 85, 2, <<20>>)
    \o Eq("RULE", 90, 3, <<22>>) \o Eq("CONCEPT", 100, 2, <<23>>)
    \o Eq("PROCEDURE", 90, 3, <<24>>),
      Id("ACA-EQ", 24) :> (1 :> Q("ACA-EQ", 16, 1)))

LessonEq03_1 ==
    Eq("CONCEPT", 85, 3, <<25>>) \o Eq("CONCEPT", 95, 2, <<26, 28>>)
    \o Eq("CONCEPT", 95, 3, <<27>>) \o Eq("RULE", 100, 4, <<29>>)
    \o Eq("CONCEPT", 95, 1, <<30>>)

LessonEq03_2 ==
    Eq("RULE", 100, 3, <<31>>) \o Eq("CONCEPT", 95, 1, <<32>>) \o Eq("CONCEPT", 90, 2, <<33>>)
    \o Eq("CONCEPT", 95, 2, <<34, 35, 36>>)

LessonEq03_3 ==
    Eq("PROCEDURE", 95, 2, <<37, 41>>) \o Eq("EXAMPLE", 90, 2, <<38>>)
    \o Eq("PSYCHOLOGY_PATTERN", 95, 3, <<39>>) \o Eq("COMMON_MISTAKE", 95, 2, <<40>>)

LessonEq04_1 ==
    Eq("CONCEPT", 100, 2, <<42>>) \o Eq("CONCEPT", 80, 1, <<43>>)
    \o Eq("CONCEPT", 95, 3, <<44>>) \o Eq("CONCEPT", 90, 2, <<45, 46, 47, 49>>)
    \o Eq("CONCEPT", 85, 3, <<48>>)

LessonEq04_2 ==
  Sharing(
    Eq("COMPARISON", 75, 2, <<50>>) \o Eq("RULE", 95, 2, <<51>>)
    \o Eq("PROCEDURE", 90, 2, <<52>>) \o Eq("CONCEPT", 95, 3, <<53>>)
    \o Eq("RULE", 100, 4, <<54>>),
      Id("ACA-EQ", 53) :> (2 :> Q("ACA-EQ", 15, 2)))

LessonIntro01_1 ==
  Sharing(
    Intro("OPERATIONAL_FACT", 95, 3, <<1>>) \o Intro("CATALOG_ITEM", 85, 3, <<2>>)
    \o Intro("RULE", 90, 2, <<3>>) \o Intro("CONCEPT", 95, 2, <<4>>)
    \o Intro("CONCEPT", 90, 2, <<5>>) \o Intro("CONCEPT", 85, 4, <<6>>)
    \o Intro("CONCEPT", 80, 1, <<7>>) \o Intro("CONCEPT", 80, 2, <<8>>)
    \o Intro("CONCEPT", 60, 2, <<9>>) \o Intro("CONCEPT", 55, 1, <<10>>),
      Id("ACA-INT", 3) :> (1 :> Q("ACA-EQ", 15, 2))
      @@ Id("ACA-INT", 5) :> (1 :> Q("ACA-INT", 177, 2))
      @@ Id("ACA-INT", 6) :> (4 :> Q("ACA-CLR", 2, 1))
      @@ Id("ACA-INT", 8) :> (1 :> Q("ACA-INT", 46, 1) @@ 2 :> Q("ACA-INT", 7, 1))
      @@ Id("ACA-INT", 9) :> (1 :> Q("ACA-INT", 31, 1)))

LessonIntro01_2 ==
    Intro("CONCEPT", 75, 2, <<11>>) \o Intro("RULE", 85, 1, <<12>>)
    \o Intro("CONCEPT", 80, 2, <<13>>) \o Intro("CONCEPT", 90, 2, <<14, 19>>)
    \o Intro("RULE", 90, 2, <<15>>) \o Intro("COMMON_MISTAKE", 85, 2, <<16>>)
    \o Intro("RULE", 90, 1, <<17>>) \o Intro("CONCEPT", 95, 2, <<18>>)

LessonIntro02_1 ==
  Sharing(
    Intro("OPERATIONAL_FACT", 90, 2, <<20>>) \o Intro("OPERATIONAL_FACT", 80, 3, <<21>>)
    \o Intro("DEFINITION", 90, 3, <<22>>) \o Intro("CONCEPT", 85, 3, <<23, 26>>)
    \o Intro("RULE", 90, 2, <<24>>) \o Intro("DEFINITION", 90, 2, <<25>>)
    \o Intro("OPERATIONAL_FACT", 85, 2, <<27>>) \o Intro("CONCEPT", 90, 2, <<28>>)
    \o Intro("EXAMPLE", 90, 3, <<29>>),
      Id("ACA-INT", 21) :> (1 :> Q("ACA-INT", 73, 1) @@ 3 :> Q("ACA-INT", 73, 2)))

LessonIntro02_2 ==
  Sharing(
    Intro("RULE", 90, 1, <<30>>) \o Intro("CONCEPT", 75, 2, <<31>>)
    \o Intro("CONCEPT", 80, 2, <<32>>) \o Intro("DEFINITION", 90, 2, <<33>>)
    \o Intro("RULE", 80, 3, <<34>>) \o Intro("PROCEDURE", 90, 2, <<35>>)
    \o Intro("PROCEDURE", 85, 3, <<36>>) \o Intro("CONCEPT", 85, 2, <<37>>),
      Id("ACA-INT", 31) :> (2 :> Q("ACA-INT", 49, 1))
      @@ Id("ACA-INT", 32) :> (2 :> Q("ACA-INT", 22, 2))
      @@ Id("ACA-INT", 34) :> (2 :> Q("ACA-INT", 72, 1))
      @@ Id("ACA-INT", 36) :> (1 :> Q("ACA-INT", 224, 1)))

LessonIntro02_3 ==
  Sharing(
    Intro("RULE", 90, 2, <<38>>) \o Intro("PROCEDURE", 80, 3, <<39>>)
    \o Intro("RULE", 85, 3, <<40>>) \o Intro("COMMON_MISTAKE", 85, 2, <<41>>)
    \o Intro("CONCEPT", 85, 2, <<42, 45>>) \o Intro("RULE", 85, 2, <<43>>)
    \o Intro("CONCEPT", 75, 2, <<44>>),
      Id("ACA-INT", 45) :> (1 :> Q("ACA-EQ", 15, 2)))

LessonIntro03_1 ==
  Sharing(
    Intro("RULE", 90, 2, <<46>>) \o Intro("CONCEPT", 90, 2, <<47, 50>>)
    \o Intro("RULE", 85, 1, <<48>>) \o Intro("CONCEPT", 85, 2, <<49>>)
    \o Intro("EXAMPLE", 85, 2, <<51>>) \o Intro("CONCEPT", 85, 1, <<52>>)
    \o Intro("CONCEPT", 85, 3, <<53>>) \o Intro("DEFINITION", 85, 2, <<54>>)
    \o Intro("RULE", 95, 2, <<55>>) \o Intro("EXAMPLE", 75, 1, <<56>>)
    \o Intro("CONCEPT", 80, 1, <<57>>),
      Id("ACA-INT", 47) :> (1 :> Q("ACA-INT", 177, 1)))

LessonIntro03_2 ==
  Sharing(
    Intro("CONCEPT", 90, 2, <<58, 64, 65>>) \o Intro("CONCEPT", 85, 2, <<59>>)
    \o Intro("DEFINITION", 85, 2, <<60>>) \o Intro("CONCEPT", 50, 2, <<61>>)
    \o Intro("DEFINITION", 90, 1, <<62>>) \o Intro("RULE", 90, 4, <<63>>)
    \o Intro("COMMON_MISTAKE", 85, 2, <<66>>) \o Intro("RULE", 90, 2, <<67>>)
    \o Intro("CONCEPT", 75, 2, <<68>>),
      Id("ACA-INT", 58) :> (1 :> Q("ACA-INT", 178, 1))
      @@ Id("ACA-INT", 63) :> (4 :> Q("ACA-INT", 24, 2))
      @@ Id("ACA-INT", 67) :> (1 :> Q("ACA-INT", 4, 1)))

LessonIntro04_1 ==
    Intro("CONCEPT", 90, 2, <<69>>) \o Intro("CONCEPT", 85, 2, <<70>>)
    \o Intro("RULE", 90, 2, <<71, 76>>) \o Intro("DEFINITION", 85, 2, <<72>>)
    \o Intro("OPERATIONAL_FACT", 90, 3, <<73>>) \o Intro("OPERATIONAL_FACT", 85, 3, <<74>>)
    \o Intro("PROCEDURE", 85, 2, <<75>>)

LessonIntro04_2 ==
    Intro("OPERATIONAL_FACT", 85, 2, <<77, 78>>) \o Intro("PROCEDURE", 85, 2, <<79>>)
    \o Intro("PROCEDURE", 90, 2, <<80>>) \o Intro("TROUBLESHOOTING", 85, 2, <<81>>)
    \o Intro("PROCEDURE", 85, 1, <<82>>) \o Intro("CONCEPT", 85, 1, <<83>>)

LessonIntro05_1 ==
  Sharing(
    Intro("CONCEPT", 90, 3, <<84, 85>>) \o Intro("OPERATIONAL_FACT", 85, 2, <<86>>)
    \o Intro("CONCEPT", 90, 2, <<87>>) \o Intro("PROCEDURE", 85, 2, <<88, 91>>)
    \o Intro("RULE", 85, 2, <<89>>) \o Intro("PROCEDURE", 85, 1, <<90>>)
    \o Intro("PROCEDURE", 90, 3, <<92>>),
      Id("ACA-INT", 86) :> (2 :> Q("ACA-INT", 144, 2))
      @@ Id("ACA-INT", 92) :> (1 :> Q("MT-PROC", 5, 1)))

LessonIntro05_2 ==
  Sharing(
    Intro("PROCEDURE", 90, 1, <<93>>) \o Intro("PROCEDURE", 90, 3, <<94, 95>>)
    \o Intro("PROCEDURE", 85, 1, <<96>>) \o Intro("PROCEDURE", 90, 2, <<97, 99>>)
    \o Intro("CONCEPT", 80, 2, <<98>>) \o Intro("DEFINITION", 85, 2, <<100>>),
      Id("ACA-INT", 99) :> (1 :> Q("MT5-PROC", 2, 2)))

LessonIntro05_3 ==
  Sharing(
    Intro("CONCEPT", 80, 3, <<101>>) \o Intro("PROCEDURE", 90, 2, <<102>>)
    \o Intro("PROCEDURE", 85, 2, <<103, 104>>) \o Intro("CONCEPT", 75, 2, <<105>>)
    \o Intro("PROCEDURE", 85, 1, <<106>>) \o Intro("CONCEPT", 85, 2, <<107>>)
    \o Intro("PROCEDURE", 90, 1, <<108>>),
      Id("ACA-INT", 102) :> (1 :> Q("MT5-PROC", 3, 1))
      @@ Id("ACA-INT", 103) :> (1 :> Q("MT-PROC", 10, 2) @@ 2 :> Q("MT5-PROC", 4, 1))
      @@ Id("ACA-INT", 104) :> (1 :> Q("MT5-PROC", 6, 1))
      @@ Id("ACA-INT", 106) :> (1 :> Q("MT-PROC", 12, 1)))

LessonIntro06 ==
  Sharing(
    Intro("CONCEPT", 90, 2, <<110>>) \o Intro("RULE", 90, 2, <<111>>)
    \o Intro("PROCEDURE", 90, 1, <<112>>) \o Intro("PROCEDURE", 90, 2, <<113>>)
    \o Intro("CONCEPT", 85, 2, <<114>>) \o Intro("PROCEDURE", 85, 1, <<115>>)
    \o Intro("PROCEDURE", 75, 2, <<116>>) \o Intro("PROCEDURE", 85, 2, <<117>>)
    \o Intro("CONCEPT", 80, 2, <<118, 119>>),
      Id("ACA-INT", 111) :> (2 :> Q("MT-CMP", 11, 1)))

LessonIntro07 ==
    Intro("DEFINITION", 90, 2, <<120, 121>>) \o Intro("RULE", 90, 2, <<122>>)
    \o Intro("EXAMPLE", 90, 2, <<123>>) \o Intro("CONCEPT", 85, 1, <<124, 132>>)
    \o Intro("DEFINITION", 90, 3, <<125>>) \o Intro("RULE", 90, 3, <<126, 130>>)
    \o Intro("CONCEPT", 60, 2, <<128>>) \o Intro("DEFINITION", 85, 2, <<129>>)
    \o Intro("CONCEPT", 85, 2, <<131>>)

LessonIntro08a_1 ==
  Sharing(
    Intro("DEFINITION", 90, 2, <<133>>) \o Intro("CONCEPT", 95, 2, <<134>>)
    \o Intro("EXAMPLE", 90, 2, <<135, 136>>) \o Intro("CONCEPT", 90, 2, <<137, 138>>)
    \o Intro("OPERATIONAL_FACT", 80, 2, <<139>>),
      Id("ACA-INT", 139) :> (1 :> Q("MT-TRBL", 2, 2)))

LessonIntro08a_2 ==
    Intro("CONCEPT", 95, 2, <<140>>) \o Intro("CONCEPT", 90, 2, <<141>>)
    \o Intro("EXAMPLE", 80, 1, <<142>>) \o Intro("CONCEPT", 85, 2, <<143>>)
    \o Intro("OPERATIONAL_FACT", 90, 2, <<144>>) \o Intro("CONCEPT", 85, 1, <<145>>)

LessonIntro09_1 ==
  Sharing(
    Intro("CONCEPT", 95, 2, <<146, 149>>) \o Intro("DEFINITION", 95, 2, <<147, 148, 153, 154>>)
    \o Intro("COMPARISON", 95, 3, <<150>>) \o Intro("PROCEDURE", 90, 2, <<151, 152>>),
      Id("ACA-INT", 151) :> (1 :> Q("MT5-PROC", 3, 1)))

LessonIntro09_2 ==
  Sharing(
    Intro("PROCEDURE", 90, 2, <<155, 156, 160>>) \o Intro("EXAMPLE", 90, 1, <<157>>)
    \o Intro("RULE", 95, 2, <<158>>) \o Intro("CONCEPT", 90, 2, <<159>>)
    \o Intro("RULE", 90, 2, <<161>>),
      Id("ACA-INT", 155) :> (1 :> Q("MT5-PROC", 4, 1))
      @@ Id("ACA-INT", 156) :> (1 :> Q("MT-PROC", 10, 2)))

LessonIntro10_1 ==
    Intro("PROCEDURE", 95, 3, <<162>>) \o Intro("CONCEPT", 95, 2, <<164>>)
    \o Intro("DEFINITION", 95, 2, From(165, 169))

LessonIntro10_2 ==
    Intro("CONCEPT", 80, 2, <<170>>) \o Intro("CONCEPT", 95, 2, <<171>>)
    \o Intro("RULE", 95, 2, <<172>>) \o Intro("EXAMPLE", 90, 2, <<173>>)
    \o Intro("CONCEPT", 90, 1, <<174>>) \o Intro("COMMON_MISTAKE", 95, 2, <<175>>)
    \o Intro("RULE", 95, 1, <<176>>)

LessonIntro11_1 ==
    Intro("DEFINITION", 95, 2, <<177>>) \o Intro("CONCEPT", 95, 2, <<178>>)
    \o Intro("CONCEPT", 90, 2, <<179, 180, 181, 184>>) \o Intro("CONCEPT", 90, 1, <<182>>)
    \o Intro("CONCEPT", 85, 3, <<183>>)

LessonIntro11_2 ==
    Intro("CONCEPT", 95, 2, <<185>>) \o Intro("CONCEPT", 80, 2, <<186>>)
    \o Intro("COMMON_MISTAKE", 85, 2, <<187>>) \o Intro("RULE", 90, 2, <<188>>)
    \o Intro("CONCEPT", 95, 1, <<189>>)

LessonIntro12_1 ==
  Sharing(
    Intro("CONCEPT", 90, 2, <<190, 193>>) \o Intro("CONCEPT", 90, 3, <<191>>)
    \o Intro("CONCEPT", 75, 2, <<192>>) \o Intro("DEFINITION", 95, 2, <<194>>)
    \o Intro("CONCEPT", 95, 3, <<195>>),
      Id("ACA-INT", 191) :> (1 :> Q("ACA-CLR", 2, 2))
      @@ Id("ACA-INT", 192) :> (1 :> Q("ACA-INT", 31, 1)))

LessonIntro12_2 ==
    Intro("RULE", 95, 2, <<196, 197>>) \o Intro("COMMON_MISTAKE", 95, 1, <<198>>)
    \o Intro("COMPARISON", 80, 3, <<199>>) \o Intro("CONCEPT", 95, 1, <<200>>)

LessonIntro13 ==
    Intro("CONCEPT", 95, 2, <<201, 204, 205, 206>>) \o Intro("CONCEPT", 90, 2, <<202, 209>>)
    \o Intro("CONCEPT", 95, 3, <<203>>) \o Intro("RULE", 95, 2, <<207>>)
    \o Intro("CONCEPT", 80, 1, <<208>>) \o Intro("PROCEDURE", 95, 2, <<210>>)

LessonIntro14_1 ==
    Intro("OPERATIONAL_FACT", 90, 3, <<211>>) \o Intro("CONCEPT", 85, 3, <<212>>)
    \o Intro("CONCEPT", 90, 2, <<213>>) \o Intro("DEFINITION", 85, 2, <<214>>)
    \o Intro("RULE", 90, 2, <<215>>) \o Intro("RULE", 95, 1, <<216>>)

LessonIntro14_2 ==
  Sharing(
    Intro("CONCEPT", 90, 2, <<217, 218>>) \o Intro("DEFINITION", 75, 2, <<219>>)
    \o Intro("PROCEDURE", 95, 2, <<220>>) \o Intro("CONCEPT", 95, 1, <<221>>),
      Id("ACA-INT", 219) :> (1 :> Q("ACA-CLR", 3, 2) @@ 2 :> Q("ACA-CLR", 3, 1)))

LessonIntro15_1 ==
    Intro("PROCEDURE", 90, 2, <<222>>) \o Intro("OPERATIONAL_FACT", 80, 2, <<223>>)
    \o Intro("CONCEPT", 90, 2, <<224>>) \o Intro("DEFINITION", 90, 2, <<225>>)
    \o Intro("CONCEPT", 85, 2, <<226>>) \o Intro("RULE", 95, 2, <<227>>)
    \o Intro("PROCEDURE", 85, 2, <<228>>)

LessonIntro15_2 ==
    Intro("CONCEPT", 80, 3, <<229>>) \o Intro("PROCEDURE", 85, 2, <<230>>)
    \o Intro("PROCEDURE", 90, 2, <<231>>) \o Intro("RULE", 90, 2, <<232>>)
    \o Intro("PROCEDURE", 90, 1, <<233>>)

LessonIntro16 ==
  Sharing(
    Intro("CONCEPT", 85, 2, <<234, 238>>) \o Intro("CONCEPT", 80, 2, <<235>>)
    \o Intro("OPERATIONAL_FACT", 80, 2, <<236>>) \o Intro("RULE", 85, 2, <<237>>)
    \o Intro("OPERATIONAL_FACT", 70, 2, <<239>>) \o Intro("EXAMPLE", 70, 2, <<240>>)
    \o Intro("CONCEPT", 80, 1, <<241>>),
      Id("ACA-INT", 236) :> (1 :> Q("ACA-RULE", 4, 2)))

LessonIntro17_1 ==
  Sharing(
    Intro("CONCEPT", 95, 2, <<242>>) \o Intro("CONCEPT", 90, 2, <<243, 248>>)
    \o Intro("CATALOG_ITEM", 80, 3, <<244>>) \o Intro("RULE", 95, 2, <<245>>)
    \o Intro("PROCEDURE", 95, 3, <<246>>) \o Intro("CONCEPT", 80, 2, <<247>>),
      Id("ACA-INT", 242) :> (1 :> Q("ACA-INT", 4, 1) @@ 2 :> Q("ACA-INT", 4, 2))
      @@ Id("ACA-INT", 245) :> (1 :> Q("ACA-INT", 18, 2)))

LessonIntro17_2 ==
    Intro("CONCEPT", 85, 2, <<249, 250>>) \o Intro("CONCEPT", 75, 2, <<251>>)
    \o Intro("RULE", 90, 2, <<252>>) \o Intro("OPERATIONAL_FACT", 90, 3, <<253>>)
    \o Intro("CONCEPT", 90, 2, <<254>>)

LessonPsychologyP01_1 ==
    Garble("CONCEPT", 75, 2, <<1>>) \o Garble("RULE", 75, 1, <<2>>)
    \o Garble("RULE", 85, 2, <<3>>) \o Garble("RULE", 80, 1, <<4>>)
    \o Garble("EXAMPLE", 75, 1, <<5>>) \o Garble("COMMON_MISTAKE", 80, 2, <<6>>)
    \o Garble("PROCEDURE", 70, 2, <<7>>) \o Garble("CONCEPT", 60, 1, <<8>>)
    \o Garble("PROCEDURE", 75, 1, <<9>>)

LessonPsychologyP01_2 ==
    Garble("RULE", 85, 2, <<10>>) \o Garble("EXAMPLE", 70, 1, <<11>>)
    \o Garble("COMMON_MISTAKE", 80, 1, <<12>>) \o Garble("CONCEPT", 70, 1, <<13>>)
    \o Garble("CONCEPT", 65, 1, <<14>>) \o Garble("RULE", 80, 2, <<15>>)
    \o Garble("COMMON_MISTAKE", 60, 1, <<16>>)

MentorQa01_1 ==
    Answers(90, 4, <<1, 2, 3, 6, 10, 12, 13>>) \o Answers(95, 3, <<4>>)
    \o Answers(95, 4, <<5, 9, 11>>) \o Answers(90, 5, <<7>>) \o Answers(85, 4, <<8>>)

MentorQa01_2 ==
  Sharing(
    Answers(90, 4, From(14, 18) \o <<20, 24, 26>>) \o Answers(90, 3, <<19>>)
    \o Answers(85, 4, <<21, 22>>) \o Answers(95, 5, <<23>>) \o Answers(95, 4, <<25>>),
      Id("MQA", 23) :> (3 :> Q("ACA-CLR", 4, 1) @@ 4 :> Q("ACA-CLR", 4, 2)))

MentorQa02_1 ==
  Sharing(
    Answers(90, 4, <<27, 28, 30, 32, 34>>) \o Answers(85, 4, <<29, 31>>)
    \o Answers(90, 3, <<33>>) \o Answers(80, 4, <<35>>),
      Id("MQA", 28) :> (2 :> Q("ACA-INT", 207, 1)))

MentorQa02_2 ==
  Sharing(
    Answers(85, 4, <<36>>) \o Answers(70, 4, <<37>>) \o Answers(80, 5, <<38>>)
    \o Answers(75, 5, <<39>>) \o Answers(80, 4, <<40>>) \o Answers(90, 4, <<41, 42>>),
      Id("MQA", 37) :> (3 :> Q("ACA-EXP", 18, 1)) @@ Id("MQA", 38) :> (2 :> Q("ACA-INT", 39, 3)))

MentorQa03_1 ==
    Answers(90, 5, <<43>>) \o Answers(85, 4, <<44, 48>>) \o Answers(85, 5, <<45, 56>>)
    \o Answers(90, 4, From(49, 54) \o <<46, 47>>) \o Answers(95, 4, <<55>>)
    \o Answers(80, 4, <<57>>)

MentorQa03_2 ==
  Sharing(
    Answers(85, 4, <<58, 64, 70>>) \o Answers(75, 5, <<59, 66>>)
    \o Answers(75, 4, <<60, 63, 68>>) \o Answers(80, 4, <<61, 62>>) \o Answers(90, 4, <<65>>)
    \o Answers(70, 4, <<67>>) \o Answers(90, 5, <<69>>),
      Id("MQA", 59) :> (4 :> Q("GEN-DEF", 12, 1))
      @@ Id("MQA", 69) :> (2 :> Q("ACA-RULE", 5, 2) @@ 4 :> Q("ACA-RULE", 5, 1)))

MentorQa04 ==
  Sharing(
    Answers(90, 4, <<71, 72, 75>>) \o Answers(90, 5, <<73>>) \o Answers(85, 4, <<74>>)
    \o Answers(85, 5, <<76>>) \o Answers(75, 4, <<77>>) \o Answers(80, 5, <<78>>)
    \o Answers(80, 4, <<79>>),
      Id("MQA", 76) :> (2 :> Q("ACA-CLR", 4, 2)))

MentorStyle ==
    StyleRules("ACA-STY", 90, 1, From(1, 4) \o <<6, 9, 10>>)
    \o StyleRules("ACA-STY", 85, 1, <<5, 7, 8>>)

Mt4_1 ==
    Platforms("reviewed", "MT4-PROC", "METATRADER_PROCEDURE", 2, <<1, 2, 3, 6, 7>>)
    \o Platforms("reviewed", "MT4-PROC", "METATRADER_PROCEDURE", 1, <<4>>)
    \o Platforms("seen", "MT4-PROC", "METATRADER_PROCEDURE", 1, <<5>>)

Mt4_2 ==
    Platforms("reviewed", "MT4-CONC", "CONCEPT", 1, <<1>>)
    \o Platforms("reviewed", "MT4-CONC", "CONCEPT", 2, <<2>>)
    \o Platforms("reviewed", "MT4-PROC", "METATRADER_PROCEDURE", 1, <<8>>)
    \o Platforms("reviewed", "MT4-PROC", "METATRADER_PROCEDURE", 2, <<10, 12>>)
    \o Platforms("seen", "MT4-PROC", "METATRADER_PROCEDURE", 2, <<11>>)

Mt5_1 ==
  Sharing(
    Platforms("reviewed", "MT5-PROC", "METATRADER_PROCEDURE", 3, <<1>>)
    \o Platforms("seen", "MT5-PROC", "METATRADER_PROCEDURE", 3, <<2, 3, 5>>)
    \o Platforms("reviewed", "MT5-PROC", "METATRADER_PROCEDURE", 2, <<4, 6>>)
    \o Platforms("seen", "MT5-PROC", "METATRADER_PROCEDURE", 2, <<7, 8>>)
    \o Platforms("reviewed", "MT5-PROC", "METATRADER_PROCEDURE", 1, <<9>>),
      Id("MT5-PROC", 5) :> (2 :> Q("MT-TRBL", 9, 2))
      @@ Id("MT5-PROC", 7) :> (1 :> Q("MT-TRBL", 10, 1)))

Mt5_2 ==
  Sharing(
    Platforms("reviewed", "MT5-CONC", "CONCEPT", 2, From(1, 4))
    \o Platforms("reviewed", "MT5-PROC", "METATRADER_PROCEDURE", 2, From(10, 14)),
      Id("MT5-PROC", 10) :> (1 :> Q("MT-CMP", 6, 1))
      @@ Id("MT5-PROC", 13) :> (2 :> Q("MT5-CONC", 1, 2)))

MtCommon_1 ==
  Sharing(
    Platforms("seen", "MT-PROC", "METATRADER_PROCEDURE", 2, <<1, 4, 8>>)
    \o Platforms("reviewed", "MT-PROC", "METATRADER_PROCEDURE", 2, <<2, 3, 5, 10, 11>>)
    \o Platforms("reviewed", "MT-PROC", "METATRADER_PROCEDURE", 1, <<6, 7, 9, 12>>),
      Id("MT-PROC", 11) :> (2 :> Q("ACA-EXP", 42, 1)))

MtCommon_2 ==
    Platforms("reviewed", "MT-PROC", "METATRADER_PROCEDURE", 1, <<13, 15>>)
    \o Platforms("reviewed", "MT-PROC", "METATRADER_PROCEDURE", 2, <<14, 16, 18, 19, 22>>)
    \o Platforms("seen", "MT-PROC", "METATRADER_PROCEDURE", 2, <<17, 21, 23>>)
    \o Platforms("seen", "MT-PROC", "METATRADER_PROCEDURE", 1, <<20>>)

MtComparison ==
    Platforms("reviewed", "MT-CMP", "COMPARISON", 2, <<1, 3, 4, 11>>)
    \o Platforms("seen", "MT-CMP", "COMPARISON", 1, <<2, 10>>)
    \o Platforms("reviewed", "MT-CMP", "COMPARISON", 1, From(5, 9) \o <<12>>)

MtConcepts_1 ==
    Platforms("reviewed", "MT-CONC", "DEFINITION", 3, <<1, 2>>)
    \o Platforms("seen", "MT-CONC", "DEFINITION", 2, <<3, 4, 5>>)
    \o Platforms("reviewed", "MT-CONC", "CONCEPT", 2, <<6, 7>>)
    \o Platforms("seen", "MT-CONC", "CONCEPT", 3, <<8>>)

MtConcepts_2 ==
    Platforms("seen", "MT-CONC", "CONCEPT", 2, From(13, 16) \o <<9>>)
    \o Platforms("reviewed", "MT-CONC", "CONCEPT", 3, <<10>>)
    \o Platforms("reviewed", "MT-CONC", "CONCEPT", 2, <<11, 12>>)

MtTroubleshooting_1 ==
    Platforms("seen", "MT-TRBL", "TROUBLESHOOTING", 2, <<1, 8>>)
    \o Platforms("reviewed", "MT-TRBL", "TROUBLESHOOTING", 2, From(2, 7) \o <<9>>)

MtTroubleshooting_2 ==
    Platforms("seen", "MT-TRBL", "TROUBLESHOOTING", 2, <<10>>)
    \o Platforms("reviewed", "MT-TRBL", "TROUBLESHOOTING", 2, <<11, 12, 13, 17>>)
    \o Platforms("reviewed", "MT-TRBL", "TROUBLESHOOTING", 1, <<14, 15, 16>>)

SsproxFaq_1 ==
    Documents(TRUE, "ACA-EXP", "PROCEDURE", 100, 3, <<1>>)
    \o Documents(TRUE, "ACA-EXP", "TROUBLESHOOTING", 100, 2, <<2, 6>>)
    \o Documents(TRUE, "ACA-EXP", "RULE", 100, 2, <<3, 7>>)
    \o Documents(TRUE, "ACA-EXP", "OPERATIONAL_FACT", 100, 2, <<4>>)
    \o Documents(TRUE, "ACA-EXP", "RULE", 100, 3, <<5>>)
    \o Documents(TRUE, "ACA-EXP", "OPERATIONAL_FACT", 100, 1, <<8>>)
    \o Documents(TRUE, "ACA-EXP", "RULE", 100, 1, <<9>>)
    \o Documents(TRUE, "ACA-EXP", "CONCEPT", 100, 2, <<10>>)
    \o Documents(TRUE, "ACA-EXP", "EXAMPLE", 100, 1, <<11>>)
    \o Documents(TRUE, "ACA-EXP", "CONCEPT", 100, 1, <<12>>)

SsproxFaq_2 ==
    Documents(TRUE, "ACA-EXP", "CONCEPT", 100, 3, <<13>>)
    \o Documents(TRUE, "ACA-EXP", "EXAMPLE", 100, 2, <<14>>)
    \o Documents(TRUE, "ACA-EXP", "RULE", 100, 3, <<15>>)
    \o Documents(TRUE, "ACA-EXP", "COMPARISON", 100, 2, <<16>>)
    \o Documents(TRUE, "ACA-EXP", "COMMON_MISTAKE", 100, 2, <<17>>)
    \o Documents(TRUE, "ACA-EXP", "DEFINITION", 100, 1, <<18>>)
    \o Documents(TRUE, "ACA-EXP", "PROCEDURE", 100, 2, <<19>>)
    \o Documents(TRUE, "ACA-EXP", "CONCEPT", 100, 2, <<20, 22>>)
    \o Documents(TRUE, "ACA-EXP", "DEFINITION", 100, 2, <<21>>)

SsproxFaq_3 ==
    Documents(TRUE, "ACA-EXP", "CONCEPT", 100, 2, From(23, 26))
    \o Documents(TRUE, "ACA-EXP", "OPERATIONAL_FACT", 100, 2, <<27, 33>>)
    \o Documents(TRUE, "ACA-EXP", "RULE", 100, 2, <<28, 29, 31>>)
    \o Documents(TRUE, "ACA-EXP", "RULE", 100, 3, <<30>>)
    \o Documents(TRUE, "ACA-EXP", "OPERATIONAL_FACT", 100, 1, <<32>>)

SsproxFaq_4 ==
    Documents(TRUE, "ACA-EXP", "TROUBLESHOOTING", 100, 1, <<34, 35, 37, 38>>)
    \o Documents(TRUE, "ACA-EXP", "TROUBLESHOOTING", 100, 2, <<36>>)
    \o Documents(TRUE, "ACA-EXP", "PROCEDURE", 100, 1, <<39>>)
    \o Documents(TRUE, "ACA-EXP", "OPERATIONAL_FACT", 100, 1, <<40>>)
    \o Documents(TRUE, "ACA-EXP", "OPERATIONAL_FACT", 100, 4, <<41>>)
    \o Documents(TRUE, "ACA-EXP", "OPERATIONAL_FACT", 100, 2, <<42>>)
    \o Documents(TRUE, "ACA-EXP", "RULE", 100, 2, <<43>>)

SupportPolicy_1 ==
    Documents(TRUE, "ACA-SUP", "OPERATIONAL_FACT", 100, 4, <<1, 7>>)
    \o Documents(TRUE, "ACA-SUP", "OPERATIONAL_FACT", 100, 3, <<2>>)
    \o Documents(TRUE, "ACA-SUP", "RULE", 100, 3, <<3>>)
    \o Documents(TRUE, "ACA-SUP", "CATALOG_ITEM", 100, 3, <<4>>)
    \o Documents(TRUE, "ACA-SUP", "PROCEDURE", 100, 3, <<5>>)
    \o Documents(TRUE, "ACA-SUP", "RULE", 100, 4, <<6>>)

SupportPolicy_2 ==
    Documents(TRUE, "ACA-SUP", "CATALOG_ITEM", 100, 3, <<8>>)
    \o Documents(TRUE, "ACA-SUP", "OPERATIONAL_FACT", 100, 3, <<9, 12>>)
    \o Documents(TRUE, "ACA-SUP", "RULE", 100, 2, <<10>>)
    \o Documents(TRUE, "ACA-SUP", "RULE", 100, 3, <<11>>)

SupportPolicy_3 ==
  Sharing(
    Documents(TRUE, "ACA-SUP", "RULE", 100, 3, <<13, 17>>)
    \o Documents(TRUE, "ACA-SUP", "RULE", 100, 4, <<14>>)
    \o Documents(TRUE, "ACA-SUP", "OPERATIONAL_FACT", 100, 3, <<15>>)
    \o Documents(TRUE, "ACA-SUP", "RULE", 100, 1, <<16>>),
      Id("ACA-SUP", 15) :> (1 :> Q("ACA-OPS", 4, 1)))

SupportStyle ==
    Documents(TRUE, "ACA-STY", "RULE", 100, 1, From(1004, 1009) \o <<1001, 1002>>)
    \o Documents(TRUE, "ACA-STY", "RULE", 100, 2, <<1003>>)

GeneralTerms ==
  Sharing(
    ModelDrafts("general_trading", "GEN-DEF", "GLOSSARY", 90, 3, <<1, 3>>)
    \o ModelDrafts("general_trading", "GEN-DEF", "GLOSSARY", 90, 2, <<2, 7, 9>>)
    \o ModelDrafts("general_trading", "GEN-DEF", "GLOSSARY", 85, 3, <<4, 6>>)
    \o ModelDrafts("general_trading", "GEN-DEF", "GLOSSARY", 80, 2, <<5, 14, 15, 22>>)
    \o ModelDrafts("general_trading", "GEN-DEF", "GLOSSARY", 80, 3, <<8, 11>>)
    \o ModelDrafts("general_trading", "GEN-DEF", "GLOSSARY", 85, 2, <<10, 13, 16, 18, 19, 20>>)
    \o ModelDrafts("general_trading", "GEN-DEF", "GLOSSARY", 75, 2, <<12, 17, 21>>),
      Id("GEN-DEF", 1) :> (1 :> Q("ACA-INT", 120, 1))
      @@ Id("GEN-DEF", 3) :> (1 :> Q("ACA-INT", 100, 1))
      @@ Id("GEN-DEF", 4) :> (1 :> Q("ACA-INT", 125, 1))
      @@ Id("GEN-DEF", 6) :> (2 :> Q("ACA-INT", 130, 1))
      @@ Id("GEN-DEF", 17) :> (1 :> Q("GEN-CONC", 9, 1))
      @@ Id("GEN-DEF", 20) :> (2 :> Q("MT5-PROC", 3, 2))
      @@ Id("GEN-DEF", 21) :> (1 :> Q("GEN-CONC", 15, 1) @@ 2 :> Q("MT-TRBL", 2, 2)))

MarketMechanics ==
  Sharing(
    ModelDrafts("general_trading", "GEN-CONC", "CONCEPT", 85, 2, <<1, 2, 6, 10, 13, 19>>)
    \o ModelDrafts("general_trading", "GEN-CONC", "CONCEPT", 80, 2, <<3, 5, 7, 8, 9, 12, 14, 16, 18, 20>>)
    \o ModelDrafts("general_trading", "GEN-CONC", "CONCEPT", 70, 3, <<4>>)
    \o ModelDrafts("general_trading", "GEN-CONC", "CONCEPT", 90, 2, <<11>>)
    \o ModelDrafts("general_trading", "GEN-CONC", "CONCEPT", 75, 2, <<15>>)
    \o ModelDrafts("general_trading", "GEN-CONC", "CONCEPT", 70, 2, <<17>>),
      Id("GEN-CONC", 7) :> (1 :> Q("ACA-INT", 126, 1))
      @@ Id("GEN-CONC", 19) :> (1 :> Q("ACA-INT", 40, 1)))

PsychologyPatterns ==
  Sharing(
    ModelDrafts("psychology", "PSY-PAT", "PSYCHOLOGY_PATTERN", 75, 2, From(1, 6) \o <<10, 11, 13, 14, 16, 17, 18, 20, 23, 24>>)
    \o ModelDrafts("psychology", "PSY-PAT", "PSYCHOLOGY_PATTERN", 75, 1, <<7, 8, 9, 12, 15, 19, 21, 22>>),
      Id("PSY-PAT", 2) :> (1 :> Q("ACA-EQ", 29, 3))
      @@ Id("PSY-PAT", 6) :> (2 :> Q("MQA", 56, 3)))

SafetyPolicy ==
    <<[ModelDrafts("psychology", "PSY-RULE", "RULE", 70, 2, <<1>>)[1] EXCEPT !.approval = "REVIEW_REQUIRED"]>>

Clarifications ==
    Policies("ACA-CLR", "OPERATIONAL_FACT", 4, <<1>>)
    \o Policies("ACA-CLR", "CONCEPT", 3, <<2, 3>>) \o Policies("ACA-CLR", "PROCEDURE", 5, <<4>>)

SiteCatalogue ==
  Sharing(
    Catalogue("ACADEMY_APP_DATA", "ACA-CAT", "CATALOG_ITEM", 60, 3, From(1, 6))
    \o Catalogue("ACADEMY_WEBSITE", "ACA-OPS", "OPERATIONAL_FACT", 60, 3, <<1>>)
    \o Catalogue("ACADEMY_WEBSITE", "ACA-OPS", "OPERATIONAL_FACT", 60, 4, <<2>>)
    \o Catalogue("ACADEMY_WEBSITE", "ACA-OPS", "PROCEDURE", 60, 3, <<3>>)
    \o Catalogue("ACADEMY_APP_DATA", "ACA-CAT", "CATALOG_ITEM", 60, 2, From(101, 106)),
      Id("ACA-OPS", 1) :> (3 :> Q("ACA-SUP", 2, 1)))

Strange ==
    Strangers("EXT-CONC", 2, From(1, 7))

ReviewItems ==
    Tickets("RQ", From(1, 39))

Conflicts ==
    Tickets("CONF", From(1, 11))

BrokerFact ==
  Sharing(
    <<[Lessons("BRK-FACT", "BROKER_RULE", 60, 4, <<1>>)[1] EXCEPT !.domain = "brokers"]>>,
      Id("BRK-FACT", 1) :> (4 :> Q("ACA-INT", 72, 2)))

ExpertTool ==
    Documents(TRUE, "ACA-OPS", "OPERATIONAL_FACT", 100, 3, <<4>>)

SeededBase ==
  AcademyPolicies \o Governance \o LessonEq01_1 \o LessonEq01_2 \o LessonEq02 \o LessonEq03_1
  \o LessonEq03_2 \o LessonEq03_3 \o LessonEq04_1 \o LessonEq04_2 \o LessonIntro01_1
  \o LessonIntro01_2 \o LessonIntro02_1 \o LessonIntro02_2 \o LessonIntro02_3 \o LessonIntro03_1
  \o LessonIntro03_2 \o LessonIntro04_1 \o LessonIntro04_2 \o LessonIntro05_1 \o LessonIntro05_2
  \o LessonIntro05_3 \o LessonIntro06 \o LessonIntro07 \o LessonIntro08a_1 \o LessonIntro08a_2
  \o LessonIntro09_1 \o LessonIntro09_2 \o LessonIntro10_1 \o LessonIntro10_2 \o LessonIntro11_1
  \o LessonIntro11_2 \o LessonIntro12_1 \o LessonIntro12_2 \o LessonIntro13 \o LessonIntro14_1
  \o LessonIntro14_2 \o LessonIntro15_1 \o LessonIntro15_2 \o LessonIntro16 \o LessonIntro17_1
  \o LessonIntro17_2 \o LessonPsychologyP01_1 \o LessonPsychologyP01_2 \o MentorQa01_1
  \o MentorQa01_2 \o MentorQa02_1 \o MentorQa02_2 \o MentorQa03_1 \o MentorQa03_2 \o MentorQa04
  \o MentorStyle \o Mt4_1 \o Mt4_2 \o Mt5_1 \o Mt5_2 \o MtCommon_1 \o MtCommon_2 \o MtComparison
  \o MtConcepts_1 \o MtConcepts_2 \o MtTroubleshooting_1 \o MtTroubleshooting_2 \o SsproxFaq_1
  \o SsproxFaq_2 \o SsproxFaq_3 \o SsproxFaq_4 \o SupportPolicy_1 \o SupportPolicy_2
  \o SupportPolicy_3 \o SupportStyle \o GeneralTerms \o MarketMechanics \o PsychologyPatterns
  \o SafetyPolicy \o Clarifications \o SiteCatalogue \o Strange \o ReviewItems \o Conflicts
  \o BrokerFact \o ExpertTool

------------------------------------------------------------------------------
(* The content as it stands passes the validator, and no two rows of its   *)
(* export have one title: CORE can import it and tell every row from every *)
(* other (kb_check_core_export.py); no draft goes out as a fact.           *)
SeededBaseIsSound ==
  collected = SeededBase =>
    /\ IsValid(collected)
    /\ IsImportable(Rows(collected))
    /\ DraftsAreNeverFacts(collected) /\ StrongestOwns(collected)

==============================================================================
