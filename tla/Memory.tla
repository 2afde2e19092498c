------------------------------- MODULE Memory -------------------------------
(***************************************************************************)
(* What is remembered of one student: memory/policy.py decides what may    *)
(* stay, memory/store.py writes it, memory/job.py does both for the        *)
(* findings of one extraction, in the transaction of its job.              *)
(*                                                                         *)
(* The transactions are PostgreSQL's, READ COMMITTED: an UPDATE works on   *)
(* the rows that its statement saw, waits for those that another           *)
(* transaction is changing and looks at them again; an INSERT waits for    *)
(* the entries of the partial unique index that others are about to add or *)
(* remove.                                                                 *)
(***************************************************************************)
EXTENDS Integers, FiniteSets, Sequences

CONSTANTS Extractors,    \* workers that may run extraction jobs
          Single,        \* SINGLE_VALUED
          Multiple,      \* the other categories of the white list
          Keys,          \* facts, by their content_key
          Batches,       \* what an extraction may find: sequences of Candidates
          MaxFacts       \* bound: rows that are ever written

Categories == Single \union Multiple
Flaws == <<"contains_pii", "contains_sensitive_topic", "unknown_category", "too_short",
           "too_long", "low_confidence">>

(* A finding: where it wants to go, what it says and what is wrong with it *)
Candidate(category, key, flaws) == [category |-> category, key |-> key, flaws |-> flaws]

ASSUME MemoryAssumption ==
  /\ IsFiniteSet(Extractors) /\ "none" \notin Extractors
  /\ Single \intersect Multiple = {} /\ MaxFacts \in Nat
  /\ \A b \in Batches :
       /\ Len(b) \in Nat /\ DOMAIN b = 1..Len(b)
       /\ \A k \in DOMAIN b :
            /\ b[k].key \in Keys
            /\ "unknown_category" \in b[k].flaws <=> b[k].category \notin Categories

VARIABLES facts,      \* rows of student_memories, in the order of their ids
          rejections, \* rows of memory_rejections: reasons only
          job         \* each extractor: its findings, its place in them, its reasons
memoryVars == <<facts, rejections, job>>

NoJob == [pc |-> "idle", batch |-> <<>>, at |-> 0, seen |-> {}, reasons |-> <<>>]

(* A row is "new" or "leaving" as long as the transaction "by" is open *)
MemoryInit ==
  /\ facts = <<>>
  /\ rejections = {}
  /\ job = [w \in Extractors |-> NoJob]

(* evaluate: the most dangerous flaw first; no flaw means that it may stay *)
Reason(c) ==
  CHOOSE r \in c.flaws :
    \E k \in 1..Len(Flaws) : r = Flaws[k] /\ \A j \in 1..(k - 1) : Flaws[j] \notin c.flaws

Rows == DOMAIN facts
Finding(w) == job[w].batch[job[w].at]
Of(c) == {r \in Rows : facts[r].category = c.category}
Visible(w, r) ==
  IF facts[r].by = w THEN facts[r].status = "new"
  ELSE facts[r].status \in {"active", "leaving"}
Foreign(w, r) == facts[r].by \notin {w, "none"}

(* The findings are known, and the transaction is open *)
Extract(w) ==
  /\ job[w].pc = "idle"
  /\ \E b \in Batches : job' = [job EXCEPT ![w] = [NoJob EXCEPT !.pc = "next", !.batch = b]]
  /\ UNCHANGED <<facts, rejections>>

(* The loop of apply_candidates *)
NextFinding(w) ==
  /\ job[w].pc = "next"
  /\ job[w].at < Len(job[w].batch)
  /\ LET c == job[w].batch[job[w].at + 1]
     IN  job' = [job EXCEPT ![w].at = @ + 1,
                            ![w].pc = IF c.flaws # {} THEN "next"
                                      ELSE IF c.category \in Single THEN "superseding"
                                      ELSE "inserting",
                            ![w].reasons = IF c.flaws # {} THEN Append(@, Reason(c)) ELSE @,
                            ![w].seen = IF c.flaws = {} /\ c.category \in Single
                                        THEN {r \in Of(c) : Visible(w, r)} ELSE {}]
  /\ UNCHANGED <<facts, rejections>>

(* _supersede, when no one else is changing the rows it saw *)
Supersede(w) ==
  /\ job[w].pc = "superseding"
  /\ \A r \in job[w].seen : ~Foreign(w, r)
  /\ facts' = [r \in Rows |->
                 IF r \notin job[w].seen THEN facts[r]
                 ELSE CASE facts[r].status = "active" ->
                             [facts[r] EXCEPT !.status = "leaving", !.by = w]
                        [] facts[r].status = "new" ->
                             [facts[r] EXCEPT !.status = "past", !.by = "none"]
                        [] OTHER -> facts[r]]
  /\ job' = [job EXCEPT ![w].pc = "inserting", ![w].seen = {}]
  /\ UNCHANGED rejections

(* remember: "on conflict (student_id, category, content_key) where active do nothing" *)
Same(w) == {r \in Of(Finding(w)) : facts[r].key = Finding(w).key}

\* Fault: there is no such index.
ConflictNowhere(w) == FALSE

Conflict(w) ==
  \E r \in Same(w) : facts[r].status = "active" \/ facts[r].status = "new"

Insert(w) ==
  /\ job[w].pc = "inserting"
  /\ \A r \in Same(w) : ~Foreign(w, r)
  /\ Len(facts) < MaxFacts
  /\ facts' = IF Conflict(w) THEN facts
              ELSE Append(facts, [category |-> Finding(w).category, key |-> Finding(w).key,
                                  status |-> "new", by |-> w])
  /\ job' = [job EXCEPT ![w].pc = "next"]
  /\ UNCHANGED rejections

SettleJob(w, new, leaving) ==
  facts' = [r \in Rows |->
              IF facts[r].by # w THEN facts[r]
              ELSE [facts[r] EXCEPT !.by = "none",
                                    !.status = IF @ = "new" THEN new ELSE leaving]]

Commit(w) ==
  /\ job[w].pc = "next"
  /\ job[w].at = Len(job[w].batch)
  /\ SettleJob(w, "active", "past")
  /\ rejections' = rejections \union {job[w].reasons[k] : k \in DOMAIN job[w].reasons}
  /\ job' = [job EXCEPT ![w] = NoJob]

(* An error, the end of the process, or PostgreSQL's choice in a deadlock *)
Fail(w) ==
  /\ job[w].pc # "idle"
  /\ SettleJob(w, "past", "active")
  /\ job' = [job EXCEPT ![w] = NoJob]
  /\ UNCHANGED rejections

MemoryNext ==
  \E w \in Extractors :
    Extract(w) \/ NextFinding(w) \/ Supersede(w) \/ Insert(w) \/ Commit(w) \/ Fail(w)

MemorySpec == MemoryInit /\ [][MemoryNext]_memoryVars

------------------------------------------------------------------------------
(* What a reader of the table finds: load_active *)
Active == {r \in Rows : facts[r].status \in {"active", "leaving"}}
FactOf(r) == <<facts[r].category, facts[r].key>>

(* The same fact is not remembered twice (store.py:53, models.py, the      *)
(* partial unique index), whoever extracts it at the same time.            *)
OneFactOnce == \A r, s \in Active : FactOf(r) = FactOf(s) => r = s

(* policy.py:31 wants one value of a single-valued category.  Extractions  *)
(* that overlap do not see each other's values, so that one value for each *)
(* of them may stay, never more, however many came before.                 *)
FewValues ==
  \A c \in Single : Cardinality({r \in Active : facts[r].category = c}) <= Cardinality(Extractors)

(* Nothing is forgotten for nothing: a value goes only when the category   *)
(* has another, and values of the other categories never go.               *)
NothingIsForgotten ==
  \A r \in Active :
    r \notin Active' =>
      /\ facts[r].category \in Single
      /\ \E s \in Active' : facts'[s].category = facts[r].category

(* All three of every step *)
MemoryIsKept == [][OneFactOnce' /\ FewValues' /\ NothingIsForgotten]_memoryVars

=============================================================================
