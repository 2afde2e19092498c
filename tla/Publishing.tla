----------------------------- MODULE Publishing -----------------------------
(***************************************************************************)
(* The knowledge-base tools of tools/: the builders of the seed files make *)
(* records, kb_validate.py looks for errors in them, kb_export_core.py     *)
(* turns them into the rows that MENTORAI CORE imports, and every tool     *)
(* writes its product as a numbered file beside a "latest" one.            *)
(*                                                                         *)
(* A record keeps what the tools decide by: its id, provenance, approval,  *)
(* confidence in hundredths, and the phrasings of the question it answers. *)
(* A tool may be killed between two writes, or within one.                 *)
(***************************************************************************)
EXTENDS Integers, SequencesExt

CONSTANTS FirstBases,   \* the lists of records the seed files may have written
          Reseeds,      \* records a seed file is changed to write
          NoTool, Absent, Torn,  \* no tool; no file; a file half written
          MaxChanges,   \* changed seed files, a bound of the model
          MaxRuns       \* runs of the tools, a bound of the model

ASSUME PublishingAssumption == MaxChanges \in Nat /\ MaxRuns \in Nat

VARIABLES collected,    \* the records of the collection files
          changes,      \* seed files changed so far
          tool,         \* the tool that runs, or NoTool
          writes,       \* what it has still to write, in order
          files,        \* product -> the contents of its numbered files
          latest,       \* product -> the content of its latest file
          copied,       \* the numbered manifests copied beside the exports
          index,        \* the version history that kb_export.py saves
          toolRuns,     \* runs begun so far
          fresh         \* the tools that ended since the base was last changed

publishingVars == <<collected, changes, tool, writes, files, latest, copied, index, toolRuns, fresh>>

------------------------------------------------------------------------------
(* Ids sort by their prefix, then by their number.                         *)
IdPrefixes == <<"ACA-CAT", "ACA-CLR", "ACA-EQ", "ACA-EXP", "ACA-INT", "ACA-OPS", "ACA-PSY",
              "ACA-RULE", "ACA-STY", "ACA-SUP", "BRK-FACT", "CONF", "EXT-CONC", "GEN-CONC",
              "GEN-DEF", "MET-RULE", "MQA", "MT-CMP", "MT-CONC", "MT-PROC", "MT-TRBL",
              "MT4-CONC", "MT4-PROC", "MT5-CONC", "MT5-PROC", "PSY-PAT", "PSY-RULE", "RQ">>

Id(prefix, n) == 10000 * (CHOOSE k \in DOMAIN IdPrefixes : IdPrefixes[k] = prefix) + n
Prefix(r) == IdPrefixes[r.id \div 10000]

(* A phrasing: which question it asks, in which of the ways the keyboards  *)
(* write it, and the category that qualifies it, if one does.              *)
Phrase(question) == [question |-> question, hand |-> "persian", of |-> ""]
Arabic(question) == [Phrase(question) EXCEPT !.hand = "arabic"]

(* The phrasings of record number id: n of its own, but for those that it  *)
(* shares with others.                                                     *)
Asks(id, n, shared) ==
  [k \in 1..n |-> Phrase(IF k \in DOMAIN shared THEN shared[k] ELSE <<id, k>>)]

------------------------------------------------------------------------------
(* The builders.  conf is in hundredths.                                   *)
Blank(id, type, conf, asks) ==
  [id |-> id, type |-> type, domain |-> "academy", source |-> "ACADEMY_DOCUMENT",
   level |-> "ACADEMY_DERIVED", approval |-> "APPROVED", verify |-> FALSE,
   conf |-> conf, asks |-> asks, outside |-> FALSE, whole |-> TRUE]

Graded(conf) == IF conf >= 70 THEN "PENDING_REVIEW" ELSE "REVIEW_REQUIRED"

Lesson(id, type, conf, asks) ==
  [Blank(id, type, conf, asks) EXCEPT
     !.source = "ACADEMY_COURSE_TRANSCRIPT", !.level = "ACADEMY_PRIMARY",
     !.approval = Graded(conf), !.verify = conf < 85]

Garbled(id, type, conf, asks) == [Lesson(id, type, conf, asks) EXCEPT !.verify = TRUE]

MentorAnswer(id, conf, asks) ==
  [Blank(id, "MENTOR_QA", conf, asks) EXCEPT
     !.domain = "mentor_qa", !.source = "MENTOR_CONVERSATION", !.level = "MENTOR_VERIFIED",
     !.approval = Graded(conf)]

(* evidence: "none", the owner's review, or a terminal that was watched,   *)
(* which wins over the review                                              *)
Platform(id, type, conf, asks, evidence) ==
  IF evidence = "none"
  THEN [Blank(id, type, conf, asks) EXCEPT
          !.domain = "metatrader", !.source = "MODEL_DRAFT", !.level = "GENERAL_KNOWLEDGE",
          !.approval = "PENDING_VERIFICATION", !.verify = TRUE]
  ELSE [Blank(id, type, 100, asks) EXCEPT
          !.domain = "metatrader",
          !.source = IF evidence = "seen" THEN "PLATFORM_OBSERVED" ELSE "ACADEMY_REVIEWED"]

Document(id, type, conf, asks, approved) ==
  [Blank(id, type, conf, asks) EXCEPT
     !.level = "ACADEMY_PRIMARY", !.verify = ~approved,
     !.approval = IF approved THEN "APPROVED" ELSE "PENDING_REVIEW"]

Policy(id, type, asks) == Blank(id, type, 100, asks)
Charter(id, asks) == [Blank(id, "RULE", 100, asks) EXCEPT !.domain = "meta"]

Catalogued(id, type, source, conf, asks) ==
  [Blank(id, type, conf, asks) EXCEPT
     !.source = source, !.approval = "PENDING_REVIEW", !.verify = TRUE]

Style(id, conf, asks) == Catalogued(id, "RULE", "MENTOR_CONVERSATION", conf, asks)

Drafted(id, domain, type, conf, asks) ==
  [Blank(id, type, conf, asks) EXCEPT
     !.domain = domain, !.source = "MODEL_DRAFT", !.level = "GENERAL_KNOWLEDGE",
     !.approval = "PENDING_VERIFICATION", !.verify = TRUE]

Quarantined(id, asks) ==
  [Drafted(id, "general_trading", "CONCEPT", 70, asks) EXCEPT
     !.level = "EXTERNAL_METHODOLOGY", !.outside = TRUE]

Ticket(id) ==
  [Blank(id, "none", 0, <<>>) EXCEPT
     !.domain = "meta", !.source = "none", !.level = "none", !.approval = "none"]

(* o.update(kw): the caller has the last word on any field                 *)
Approved(r) == [r EXCEPT !.approval = "APPROVED"]

------------------------------------------------------------------------------
(* kb_validate.py: what counts as an error                                 *)
AcademySources ==
  {"ACADEMY_COURSE_TRANSCRIPT", "ACADEMY_DOCUMENT", "ACADEMY_WEBSITE", "ACADEMY_APP_DATA"}

HasError(r) ==
  \/ ~ r.whole                                     \* the schemas and the type's own fields
  \/ r.level = "ACADEMY_PRIMARY" /\ r.source \notin AcademySources
  \/ r.source = "MODEL_DRAFT" /\ ~ r.verify
  \/ r.source = "MODEL_DRAFT" /\ r.approval \notin {"PENDING_VERIFICATION", "REVIEW_REQUIRED"}
  \/ r.approval = "APPROVED" /\ r.verify
  \/ r.outside /\ r.level = "ACADEMY_PRIMARY"
  \/ r.domain = "mentor_qa" /\ r.level = "ACADEMY_PRIMARY"

IsValid(base) ==
  /\ \A k \in DOMAIN base : ~ HasError(base[k])
  /\ Cardinality({base[k].id : k \in DOMAIN base}) = Len(base)

------------------------------------------------------------------------------
(* kb_export_core.py: who is exported, in which order, under which question *)
OfficialLevels == {"ACADEMY_PRIMARY", "ACADEMY_DERIVED"}
MentorLevels == {"MENTOR_VERIFIED", "MENTOR_UNVERIFIED"}
GeneralLevels == {"GENERAL_KNOWLEDGE", "VENDOR_OFFICIAL", "BROKER_OFFICIAL"}

IsExported(r) ==
  /\ r.type \notin {"CONFLICT_RECORD", "REVIEW_ITEM"} /\ r.domain # "meta"
  /\ r.level \in OfficialLevels \union MentorLevels \union GeneralLevels
  /\ Prefix(r) # "ACA-STY"
  /\ r.approval \notin {"REJECTED", "REVIEW_REQUIRED"}

(* strength_key, as one number: the strongest has the least, and the id is *)
(* the last to decide.  The sort is stable: the k-th has k - 1 ahead of it *)
Strength(r) ==
  ((IF r.approval = "APPROVED" THEN 0 ELSE 2) + (IF r.level \in OfficialLevels THEN 0 ELSE 1)) * 101
    + (100 - r.conf)
Standing(r) == Strength(r) * 1000000 + r.id

ByStrength(base) ==
  LET keys   == {<<Standing(base[i]), i>> : i \in {j \in DOMAIN base : IsExported(base[j])}}
      ahead(p) == {q \in keys : q[1] < p[1] \/ (q[1] = p[1] /\ q[2] < p[2])}
      ranked == {<<Cardinality(ahead(p)) + 1, p[2]>> : p \in keys}
  IN  [k \in 1..Cardinality(keys) |-> base[(CHOOSE p \in ranked : p[1] = k)[2]]]

ClassOf(r) == IF r.level \in OfficialLevels THEN "official" ELSE "mentor"

FactTypes == {"OPERATIONAL_FACT", "CATALOG_ITEM", "DEFINITION", "GLOSSARY", "COMPARISON"}

MappedType(r) ==
  CASE r.type \in {"RULE", "BROKER_RULE"} -> "policy"
    [] r.type \in FactTypes               -> "fact"
    [] OTHER                              -> "guidance"

\* Fault: the approval is not looked at.
AuthorityByType(r) == IF r.domain = "mentor_qa" THEN "guidance" ELSE MappedType(r)

AuthorityOf(r) ==
  IF r.domain = "mentor_qa" \/ r.approval # "APPROVED" THEN "guidance" ELSE MappedType(r)

(* The categories that several prefixes share go by one of them.  That of  *)
(* a mentor's answer goes by its intent, which the model leaves out.       *)
CategoryOf(r) ==
  LET p == Prefix(r) IN
  CASE p \in {"ACA-SUP", "ACA-RULE", "ACA-CLR"} -> "ACA-RULE"
    [] p \in {"ACA-OPS", "ACA-CAT"} -> "ACA-OPS"
    [] p \in {"MT4-CONC", "MT4-PROC", "MT5-CONC", "MT5-PROC"} -> "MT"
    [] p \in {"MT-CMP", "MT-CONC", "MT-PROC", "MT-TRBL"} -> "MT"
    [] p \in {"GEN-CONC", "GEN-DEF"} -> "GEN"
    [] p \in {"PSY-PAT", "PSY-RULE", "ACA-PSY"} -> "PSY"
    [] OTHER -> p

(* question_key drops the hand, never the qualification                    *)
QuestionKey(phrase) == [phrase EXCEPT !.hand = "persian"]

CoreRow(r, primary) ==
  [class |-> ClassOf(r), category |-> CategoryOf(r), question |-> primary,
   authority |-> AuthorityOf(r), record |-> r]

Free(claimed, r) == {k \in DOMAIN r.asks : QuestionKey(r.asks[k]) \notin claimed}

\* Fault: a record that comes too late keeps its first phrasing as it is.
OwnAnyway(claimed, r) ==
  IF Free(claimed, r) # {} THEN r.asks[Min(Free(claimed, r))] ELSE r.asks[1]

(* One record claims its question: the first phrasing nobody stronger has, *)
(* else its first phrasing qualified by its category                       *)
Qualified(r) == [r.asks[1] EXCEPT !.of = CategoryOf(r)]
Primary(claimed, r) ==
  IF Free(claimed, r) # {} THEN r.asks[Min(Free(claimed, r))] ELSE Qualified(r)

(* Of the questions that the k-th record could be exported under, those    *)
(* that a record before it is exported under: all that its claim depends   *)
(* on.  Only a record that could be exported under the same is looked at.  *)
Questions(r) == {QuestionKey(r.asks[k]) : k \in DOMAIN r.asks} \union {QuestionKey(Qualified(r))}
Claimed(primary, list, k) ==
  {q \in Questions(list[k]) :
     \E j \in 1..(k - 1) : q \in Questions(list[j]) /\ QuestionKey(primary[j]) = q}

Rows(base) ==
  LET list == ByStrength(base)
      primary[k \in DOMAIN list] == Primary(Claimed(primary, list, k), list[k])
  IN  [k \in DOMAIN list |-> CoreRow(list[k], primary[k])]

(* every other phrasing becomes a line of the retrieval test               *)
Evals(base) ==
  LET rows == Rows(base)
      lines(row) == [phrase \in Range(row.record.asks) \ {row.question} |-> row.question]
  IN  [i \in DOMAIN rows |-> lines(rows[i])]

(* external_key, the key of CORE's own import                              *)
ExternalKey(row) == <<row.class, row.category, QuestionKey(row.question)>>

(* kb_check_core_export.py: two rows of one key, or of one title           *)
IsImportable(rows) ==
  Cardinality({QuestionKey(rows[i].question) : i \in DOMAIN rows}) = Len(rows)

------------------------------------------------------------------------------
(* The products.  A content is what the file depends on.                   *)
Products == {"report", "manifest", "kb", "eval", "collection", "sheet", "sheet table"}

Tally(base) == [a \in {r.approval : r \in Range(base)} |-> Len(SelectSeq(base, LAMBDA r : r.approval = a))]

Content(product, base) ==
  CASE product = "report"   -> SelectSeq(base, HasError)
    [] product = "manifest" -> Tally(base)
    [] product = "kb"       -> Rows(base)
    [] product = "eval"     -> Evals(base)
    [] OTHER                -> base

Put(place, product) == [to |-> place, product |-> product, content |-> Content(product, collected)]

(* write_versioned_snapshot and emit: nothing, when latest says it already; *)
(* else the numbered file first                                            *)
Snapshot(product) ==
  IF latest[product] = Content(product, collected) THEN <<>>
  ELSE <<Put("number", product), Put("latest", product)>>

ValidateWrites == Snapshot("report")

ManifestWrites ==
  Snapshot("manifest")
    \o (IF Snapshot("manifest") = <<>> THEN <<>> ELSE <<Put("copy", "manifest")>>)

ExportCoreWrites == Snapshot("kb") \o Snapshot("eval")

(* kb_export.py goes by its own history, and saves that when all is written *)
ExportWrites ==
  (IF index = Content("collection", collected) THEN <<>> ELSE <<Put("number", "collection")>>)
    \o <<Put("index", "collection")>>

(* kb_review_sheet.py: the table takes the number of the text              *)
SheetWrites == <<Put("number", "sheet"), Put("number", "sheet table")>>

Tools == {"validate", "manifest", "export core", "export", "sheet"}

WritesOf(t) ==
  CASE t = "validate"    -> ValidateWrites
    [] t = "manifest"    -> ManifestWrites
    [] t = "export core" -> ExportCoreWrites
    [] t = "export"      -> ExportWrites
    [] t = "sheet"       -> SheetWrites

(* The records that there may be: what is general knowledge is a model's   *)
(* draft, by all the builders above, and neither no file nor no tool is a  *)
(* list of records or a tool.                                              *)
Records == (UNION {Range(base) : base \in FirstBases}) \union Reseeds

ASSUME RecordsAssumption ==
  /\ NoTool \notin Tools /\ Absent \notin Seq(Records)
  /\ FirstBases \subseteq Seq(Records)
  /\ \A r \in Records :
       /\ r.id \in Nat /\ r.id < 1000000 /\ r.conf \in Nat /\ r.conf <= 100
       /\ Len(r.asks) \in Nat /\ DOMAIN r.asks = 1..Len(r.asks)
       /\ r.level \in GeneralLevels => r.source = "MODEL_DRAFT"

------------------------------------------------------------------------------
PublishingInit ==
  /\ collected \in FirstBases /\ changes = 0
  /\ tool = NoTool /\ writes = <<>>
  /\ files = [p \in Products |-> <<>>]
  /\ latest = [p \in Products |-> Absent]
  /\ copied = <<>> /\ index = Absent
  /\ toolRuns = 0 /\ fresh = {}

(* write_collection: a seed file writes its records anew, each in its place *)
Reseed ==
  /\ tool = NoTool /\ changes < MaxChanges
  /\ changes' = changes + 1
  /\ \E r \in Reseeds :
       /\ r \notin Range(collected)
       /\ LET kept == [k \in DOMAIN collected |->
                         IF collected[k].id = r.id THEN r ELSE collected[k]]
          IN  collected' = IF r \in Range(kept) THEN kept ELSE Append(kept, r)
  /\ fresh' = {}
  /\ UNCHANGED <<tool, writes, files, latest, copied, index, toolRuns>>

BeginTool(t) ==
  /\ tool = NoTool /\ toolRuns < MaxRuns
  /\ tool' = t /\ writes' = WritesOf(t)
  /\ toolRuns' = toolRuns + 1
  /\ fresh' = fresh \ {t}
  /\ UNCHANGED <<collected, changes, files, latest, copied, index>>

(* One file is opened for writing, which empties it, and written           *)
Written(place, product, content) ==
  /\ files' = IF place = "number" THEN [files EXCEPT ![product] = Append(@, content)] ELSE files
  /\ latest' = IF place = "latest" THEN [latest EXCEPT ![product] = content] ELSE latest
  /\ copied' = IF place = "copy" THEN Append(copied, content) ELSE copied
  /\ index' = IF place = "index" THEN content ELSE index

WriteFile ==
  /\ writes # <<>>
  /\ Written(writes[1].to, writes[1].product, writes[1].content)
  /\ writes' = Tail(writes)
  /\ UNCHANGED <<collected, changes, tool, toolRuns, fresh>>

EndTool ==
  /\ tool # NoTool /\ writes = <<>>
  /\ tool' = NoTool
  /\ fresh' = fresh \union {tool}
  /\ UNCHANGED <<collected, changes, writes, files, latest, copied, index, toolRuns>>

(* The tool is killed, before its next write or within it.  A torn history *)
(* stops kb_export.py for good, which the model leaves out.                *)
KillTool ==
  /\ tool # NoTool
  /\ \/ UNCHANGED <<files, latest, copied, index>>
     \/ /\ writes # <<>> /\ writes[1].to # "index"
        /\ Written(writes[1].to, writes[1].product, Torn)
  /\ tool' = NoTool /\ writes' = <<>>
  /\ UNCHANGED <<collected, changes, toolRuns, fresh>>

PublishingNext ==
  Reseed \/ (\E t \in Tools : BeginTool(t)) \/ WriteFile \/ EndTool \/ KillTool

PublishingSpec == PublishingInit /\ [][PublishingNext]_publishingVars

------------------------------------------------------------------------------
(* What a model wrote and nobody approved never becomes a fact or a policy *)
(* of the Academy, nor does general knowledge: whatever a seed file puts   *)
(* in a record, either kb_validate.py objects or kb_export_core.py leaves  *)
(* it guidance (rule 1 and 2 of its docstring).                            *)
DraftsAreNeverFacts(base) ==
  LET rows == Rows(base) IN
  IsValid(base) =>
    \A i \in DOMAIN rows :
      rows[i].record.source = "MODEL_DRAFT" \/ rows[i].record.level \in GeneralLevels
        => rows[i].authority = "guidance"

(* No record is pushed aside by a weaker one: a phrasing that it had       *)
(* before the one it is exported under belongs to a record that beats it   *)
(* (strength_key's docstring: an approved one before a claimed one, the    *)
(* Academy's before a mentor's, the surer before the less sure).           *)
Beats(r, s) ==
  LET isApproved(x) == x.approval = "APPROVED"
      isOfficial(x) == x.level \in OfficialLevels
  IN \/ isApproved(r) /\ ~ isApproved(s)
     \/ isApproved(r) = isApproved(s) /\ isOfficial(r) /\ ~ isOfficial(s)
     \/ isApproved(r) = isApproved(s) /\ isOfficial(r) = isOfficial(s) /\ r.conf >= s.conf

StrongestOwns(base) ==
  LET rows == Rows(base) IN
  \A i \in DOMAIN rows : \A k \in DOMAIN rows[i].record.asks :
    \/ \E h \in 1..k : rows[i].record.asks[h] = rows[i].question
    \/ \E j \in DOMAIN rows \ {i} :
         /\ QuestionKey(rows[j].question) = QuestionKey(rows[i].record.asks[k])
         /\ Beats(rows[j].record, rows[i].record)

(* What a latest file says whole, a numbered file says too: no content is  *)
(* ever published that was not kept (write_versioned_snapshot and emit).   *)
LatestIsAVersion ==
  \A p \in Products : latest[p] \notin {Absent, Torn} => latest[p] \in Range(files[p])

(* A run that ends leaves its products up to date, whatever an earlier run *)
(* that was killed had left behind.                                        *)
FinishedRunsAgree ==
  /\ "export core" \in fresh =>
       latest["kb"] = Rows(collected) /\ latest["eval"] = Evals(collected)
  /\ "manifest" \in fresh => latest["manifest"] = Tally(collected)
  /\ "validate" \in fresh => latest["report"] = Content("report", collected)
  /\ "export" \in fresh => collected \in Range(files["collection"])
  /\ "sheet" \in fresh => Last(files["sheet"]) = collected /\ Last(files["sheet table"]) = collected

PublishingIsSound ==
  DraftsAreNeverFacts(collected) /\ StrongestOwns(collected) /\ LatestIsAVersion /\ FinishedRunsAgree

(* A phrasing is expected to find the record that owns it ("whoever claims *)
(* a question is the one that should own it").  Violated: the phrasings    *)
(* that a record yielded are still expected to find that record.           *)
EvalExpectsTheOwner ==
  LET rows == Rows(collected) IN
  \A i, j \in DOMAIN rows : \A phrase \in DOMAIN Evals(collected)[i] :
    QuestionKey(rows[j].question) = QuestionKey(phrase)
      => QuestionKey(rows[j].question) = QuestionKey(rows[i].question)

==============================================================================
