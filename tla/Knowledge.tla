------------------------------ MODULE Knowledge ------------------------------
(***************************************************************************)
(* The knowledge base: knowledge/ingest.py brings a file of questions and  *)
(* answers into it, knowledge/retrieval.py looks a question up by words    *)
(* and by vectors and fuses the two rankings, knowledge/evaluate.py scores *)
(* the result.                                                             *)
(*                                                                         *)
(* A document is one piece here: cutting a long one into several is left   *)
(* out.  An import is one transaction, a search is two statements and an   *)
(* import may commit between them.                                         *)
(***************************************************************************)
EXTENDS Integers, SequencesExt

CONSTANTS KbRows,      \* rows of a file: [class, category, question, answer, until]
          MaxKbRows,   \* rows in a file, a bound of the model
          MaxImports,  \* imports, a bound of the model
          Classes,     \* the source classes that are searched
          Limit,       \* hits of a search
          RrfK,        \* RRF_K
          LastKbDay    \* days, a bound of the model

ASSUME KnowledgeAssumption ==
  /\ MaxKbRows \in Nat /\ MaxImports \in Nat /\ LastKbDay \in Nat
  /\ Limit \in Nat \ {0} /\ RrfK \in Nat
  /\ \A row \in KbRows : row.until \in Nat

VARIABLES imported,    \* the files that were imported, in order
          docs,        \* the documents: [key, answer, until, piece, vector]
          pieces,      \* how many pieces were ever written: their ids
          kbDay,       \* current_date
          search       \* the search under way
knowledgeVars == <<imported, docs, pieces, kbDay, search>>

Forever == 0           \* valid_until is null

------------------------------------------------------------------------------
(* _parse_row: what is kept of a row, or nothing.  Keys are compared after *)
(* normalisation: the ways of writing a question are one value here.       *)
Complete(row) == row.question # "" /\ row.answer # "" /\ row.class \in {"official", "mentor"}
Key(row) == <<row.class, row.category, row.question>>

\* Fault: the document that was there stays beside the new one.
UpsertBeside(base, row, piece, embed) ==
  base \union {[key |-> Key(row), answer |-> row.answer, until |-> row.until,
                piece |-> piece, vector |-> embed]}

(* upsert_document and _rebuild_chunks: the pieces are always new *)
Upsert(base, row, piece, embed) ==
  {d \in base : d.key # Key(row)}
    \union {[key |-> Key(row), answer |-> row.answer, until |-> row.until,
             piece |-> piece, vector |-> embed]}

Ingested(base, rows, first, embed) ==
  LET after[k \in 0..Len(rows)] ==
        IF k = 0 THEN base
        ELSE IF Complete(rows[k]) THEN Upsert(after[k - 1], rows[k], first + k, embed)
        ELSE after[k - 1]
  IN  after[Len(rows)]

------------------------------------------------------------------------------
(* _ACTIVE_AND_VALID and the class; nothing in the code ever makes a       *)
(* document inactive                                                       *)
Findable == {d \in docs : (d.until = Forever \/ d.until >= kbDay) /\ d.key[1] \in Classes}

Rankings(set) == {s \in [1..Cardinality(set) -> set] : IsInjective(s)}

Rank(list, d) == IF d \in Range(list) THEN CHOOSE k \in DOMAIN list : list[k] = d ELSE 0

(* The score 1/(K + rank) of each list, as a fraction *)
Part(rank) == IF rank = 0 THEN <<0, 1>> ELSE <<1, RrfK + rank>>
Plus(p, q) == <<p[1] * q[2] + q[1] * p[2], p[2] * q[2]>>
Score(d, words, vectors) == Plus(Part(Rank(words, d)), Part(Rank(vectors, d)))

Higher(p, q) == p[1] * q[2] > q[1] * p[2]
Precedes(d, e, words, vectors) ==
  \/ Higher(Score(d, words, vectors), Score(e, words, vectors))
  \/ ~Higher(Score(e, words, vectors), Score(d, words, vectors)) /\ d.piece < e.piece

(* sorted, and cut off: the hit at place k has k - 1 documents before it    *)
Fused(words, vectors) ==
  LET all == Range(words) \union Range(vectors)
      n   == Cardinality(all)
  IN  [k \in 1..(IF n < Limit THEN n ELSE Limit) |->
         CHOOSE d \in all : Cardinality({e \in all : Precedes(e, d, words, vectors)}) = k - 1]

NoSearch == [at |-> "none", since |-> 0, imports |-> 0, words |-> <<>>, hits |-> <<>>,
             vectors |-> <<>>]

------------------------------------------------------------------------------
KnowledgeInit ==
  /\ imported = <<>> /\ docs = {} /\ pieces = 0 /\ kbDay = 1
  /\ search = NoSearch

Import ==
  /\ Len(imported) < MaxImports
  /\ \E n \in 1..MaxKbRows, embed \in BOOLEAN : \E rows \in [1..n -> KbRows] :
       /\ docs' = Ingested(docs, rows, pieces, embed)
       /\ imported' = Append(imported, rows)
       /\ pieces' = pieces + n
  /\ UNCHANGED <<kbDay, search>>

NextDay == kbDay < LastKbDay /\ kbDay' = kbDay + 1 /\ UNCHANGED <<imported, docs, pieces, search>>

(* _text_candidates: which documents share a word with the question is     *)
(* left open                                                               *)
SearchWords ==
  /\ search.at = "none"
  /\ \E found \in SUBSET Findable : \E words \in Rankings(found) :
       search' = [NoSearch EXCEPT !.at = "words", !.since = kbDay,
                                  !.imports = Len(imported), !.words = words]
  /\ UNCHANGED <<imported, docs, pieces, kbDay>>

(* _vector_candidates, without a threshold, or no embedder at all *)
SearchVectors ==
  /\ search.at = "words"
  /\ \E vectors \in Rankings({d \in Findable : d.vector}) \union {<<>>} :
       search' = [search EXCEPT !.at = "found", !.vectors = vectors,
                                !.hits = Fused(search.words, vectors)]
  /\ UNCHANGED <<imported, docs, pieces, kbDay>>

Answered == search.at = "found" /\ search' = NoSearch /\ UNCHANGED <<imported, docs, pieces, kbDay>>

KnowledgeNext == Import \/ NextDay \/ SearchWords \/ SearchVectors \/ Answered

KnowledgeSpec == KnowledgeInit /\ [][KnowledgeNext]_knowledgeVars

------------------------------------------------------------------------------
(* ingest.py:78-82: a search that no import overlaps brings no document    *)
(* twice and none of an older text than the base holds.                    *)
HitsAreCurrent ==
  search.at = "found" /\ search.imports = Len(imported) =>
    /\ Range(search.hits) \subseteq docs
    /\ \A j, k \in DOMAIN search.hits : search.hits[j].key = search.hits[k].key => j = k

(* Every complete row of the last file is in the base with its answer (of  *)
(* two with one key, the last), however often files were imported, and no  *)
(* question is there twice.                                                *)
LastFileIsKept ==
  /\ \A d, e \in docs : d.key = e.key => d = e
  /\ imported # <<>> =>
       \A k \in DOMAIN Last(imported) :
         LET rows == Last(imported)
         IN  /\ Complete(rows[k])
             /\ \A j \in (k + 1)..Len(rows) : Key(rows[j]) = Key(rows[k]) => ~Complete(rows[j])
             => \E d \in docs : d.key = Key(rows[k]) /\ d.answer = rows[k].answer

(* models.py:327: what expired before the search began is not found, on    *)
(* either way.                                                             *)
ExpiredStaysOut ==
  search.at = "found" =>
    \A k \in DOMAIN search.hits :
      search.hits[k].until = Forever \/ search.hits[k].until >= search.since

(* retrieval.py:7: fusion goes by rank alone.  A document that no ranking  *)
(* puts behind another does not come after it, and is not the one that is  *)
(* cut off.                                                                *)
NoBetter(a, b) == a = b \/ b = 0 \/ (a # 0 /\ a < b)
FusionFollowsTheRanks ==
  search.at = "found" =>
    \A k \in DOMAIN search.hits :
      \A d \in Range(search.words) \union Range(search.vectors) :
        /\ NoBetter(Rank(search.words, d), Rank(search.words, search.hits[k]))
        /\ NoBetter(Rank(search.vectors, d), Rank(search.vectors, search.hits[k]))
        => \E j \in 1..k : search.hits[j] = d

SearchIsSound == HitsAreCurrent /\ LastFileIsKept /\ ExpiredStaysOut /\ FusionFollowsTheRanks

=============================================================================
