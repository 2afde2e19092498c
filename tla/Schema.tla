------------------------------- MODULE Schema -------------------------------
(***************************************************************************)
(* The migrations of the database (migrations/versions/0001 .. 0016) and   *)
(* the mapped classes of db/models.py.  A migration is two sequences of    *)
(* statements; "alembic upgrade" and "alembic downgrade" run those of all  *)
(* the revisions in between in ONE transaction (migrations/env.py), so a   *)
(* statement that is refused leaves the database as it was.  The database  *)
(* is a set of objects, and a few rows of the three tables whose checks    *)
(* the later migrations rewrite.  Types, defaults and lengths of columns   *)
(* are left out.                                                           *)
(***************************************************************************)
EXTENDS Integers, Sequences, FiniteSets

CONSTANTS
  RowIds,      \* rows that may exist
  NoRow,       \* a row that does not
  RowValues    \* what is in them: a table, one of its checks, and a value

VARIABLES
  level,       \* the applied revision; 0 is base
  objects,     \* tables, columns, references, indexes and checks
  tableRows,   \* RowIds -> RowValues or NoRow
  installed    \* has the superuser installed "vector" and "pg_trgm"

schemaVars == <<level, objects, tableRows, installed>>

-----------------------------------------------------------------------------
(* Objects.  "name" is an index or a unique constraint.                    *)
Columns(t, names) == {<<"column", t, c>> : c \in names}
ValueCheck(t, name, values) == <<"check", t, name, values>>

(* Statements                                                              *)
NewTable(t, columns, refs, names, checks) ==
  [do |-> "create", table |-> t,
   parts |-> {<<"table", t>>} \cup Columns(t, columns) \cup {<<"ref", t, r>> : r \in refs}
              \cup {<<"name", t, n>> : n \in names} \cup {ValueCheck(t, c[1], c[2]) : c \in checks}]
DropTable(t) == [do |-> "drop", table |-> t]
AddPart(part) == [do |-> "add", table |-> part[2], kind |-> part[1], name |-> part[3], parts |-> {part}]
TakeAway(kind, t, name) == [do |-> "remove", table |-> t, kind |-> kind, name |-> name]
DeleteRow(t, c, v) == [do |-> "delete", row |-> <<t, c, v>>]
UpdateRow(t, c, v, w) == [do |-> "update", row |-> <<t, c, v>>, to |-> <<t, c, w>>]

Puts(op) == op.do \in {"create", "add"}
Takes(op) == op.do \in {"drop", "remove"}

(* The objects a statement is about: a table with all it has, or a part.   *)
Meant(op, o) == o[2] = op.table /\ (op.do \in {"add", "remove"} => o[1] = op.kind /\ o[3] = op.name)

Fits(r, part) == part[1] = "check" => (<<r[1], r[2]>> = <<part[2], part[3]>> => r[3] \in part[4])
IsChecked(r, db) == \A o \in db : Fits(r, o)

(* A statement is refused over a thing that is there already or is not,    *)
(* a reference that would lead nowhere, or a row the check forbids.        *)
Allowed(s, op) ==
  /\ Puts(op) => \A o \in s.db : ~Meant(op, o)
  /\ Takes(op) => \E o \in s.db : Meant(op, o)
  /\ op.do = "create" => \A o \in op.parts : o[1] = "ref" => <<"table", o[3]>> \in s.db
  /\ op.do = "drop" => \A o \in s.db : o[1] = "ref" /\ o[3] = op.table => o[2] = op.table
  /\ op.do = "add" => /\ <<"table", op.table>> \in s.db
                      /\ \A i \in RowIds : s.rows[i] # NoRow => IsChecked(s.rows[i], op.parts)
  /\ op.do = "update" => \A i \in RowIds : s.rows[i] # NoRow /\ s.rows[i] = op.row => IsChecked(op.to, s.db)

DbAfter(db, op) ==
  CASE Puts(op)  -> db \cup op.parts
    [] Takes(op) -> {o \in db : ~Meant(op, o)}
    [] OTHER     -> db

RowAfter(r, op) ==
  CASE op.do = "drop" /\ r # NoRow /\ r[1] = op.table -> NoRow
    [] op.do = "delete" /\ r = op.row -> NoRow
    [] op.do = "update" /\ r # NoRow /\ r = op.row -> op.to
    [] OTHER -> r

(* One statement on [db, rows, ok]: after a refused one nothing runs.      *)
Statement(s, op) ==
  IF s.ok
    THEN [db |-> DbAfter(s.db, op), rows |-> [i \in RowIds |-> RowAfter(s.rows[i], op)], ok |-> Allowed(s, op)]
    ELSE s

Run(s, ops) ==
  LET after[k \in 0 .. Len(ops)] == IF k = 0 THEN s ELSE Statement(after[k - 1], ops[k]) IN after

Statements(s, ops) == Run(s, ops)[Len(ops)]

(* Several lists of statements, one after the other                        *)
Revisions(s, lists) ==
  LET after[k \in 0 .. Len(lists)] == IF k = 0 THEN s ELSE Statements(after[k - 1], lists[k]) IN after

-----------------------------------------------------------------------------
(* The migrations                                                          *)
OldPurposes == {"answer", "image_description", "memory_extraction"}
NewPurposes == OldPurposes \cup {"instruction_expansion"}
FileKinds == {"statement", "plan", "rejected"}
OldStatuses == {"pending", "approved", "edited", "rejected", "sent", "failed"}
NewStatuses == OldStatuses \cup {"withdrawn"}

FirstTables == <<
  NewTable("mentor_accounts", {"id", "slug", "mentor_name", "phone", "telegram_user_id", "device_model",
    "system_version", "app_version", "session_encrypted", "enabled", "send_paused", "paused_reason",
    "flood_wait_until", "created_at"}, {}, {}, {}),
  NewTable("students", {"id", "display_name", "created_at"}, {}, {}, {}),
  NewTable("identities", {"id", "student_id", "telegram_user_id", "username", "first_name", "last_name",
    "created_at"}, {"students"}, {}, {}),
  AddPart(<<"name", "identities", "ix_identities_student_id">>),
  NewTable("excluded_chats", {"id", "account_id", "telegram_peer_id", "reason", "created_at"},
    {"mentor_accounts"}, {"uq_excluded_account_peer"}, {}),
  NewTable("conversations", {"id", "account_id", "student_id", "telegram_chat_id", "status",
    "assistant_enabled", "last_answered_message_id", "created_at", "updated_at"}, {"mentor_accounts",
    "students"}, {"uq_conversation_account_chat"}, {<<"ck_conversation_status", {"active",
    "awaiting_mentor", "closed"}>>}),
  AddPart(<<"name", "conversations", "ix_conversations_student_id">>),
  NewTable("messages", {"id", "conversation_id", "telegram_message_id", "sender", "text", "media_type",
    "reply_to_message_id", "sent_at", "created_at"}, {"conversations"},
    {"uq_message_conversation_tg_id"}, {<<"ck_message_sender", {"student", "assistant", "mentor"}>>}),
  AddPart(<<"name", "messages", "ix_messages_conversation_sent_at">>),
  NewTable("jobs", {"id", "kind", "payload", "status", "attempts", "max_attempts", "last_error",
    "run_after", "locked_by", "locked_at", "created_at"}, {}, {}, {<<"ck_job_status", {"pending",
    "processing", "done", "failed", "dead"}>>}),
  AddPart(<<"name", "jobs", "ix_jobs_pending">>),
  NewTable("duplicate_deliveries", {"id", "account_id", "telegram_chat_id", "telegram_message_id",
    "seen_at"}, {}, {}, {}),
  AddPart(<<"name", "duplicate_deliveries", "ix_duplicate_deliveries_seen_at">>),
  NewTable("audit_log", {"id", "actor", "action", "target", "detail", "created_at"}, {}, {}, {}),
  AddPart(<<"name", "audit_log", "ix_audit_log_created_at">>) >>

FirstTablesUndone == <<DropTable("audit_log"), DropTable("duplicate_deliveries"), DropTable("jobs"), DropTable("messages"),
  DropTable("conversations"), DropTable("excluded_chats"), DropTable("identities"), DropTable("students"),
  DropTable("mentor_accounts")>>

KnowledgeTables == <<
  NewTable("knowledge_documents", {"id", "external_key", "source_class", "authority", "category",
    "title", "body", "valid_until", "owner", "notes", "active", "created_at", "updated_at"}, {}, {},
    {<<"ck_doc_source_class", {"official", "mentor"}>>, <<"ck_doc_authority", {"fact", "policy",
    "guidance"}>>}),
  AddPart(<<"name", "knowledge_documents", "ix_knowledge_documents_active">>),
  NewTable("knowledge_chunks", {"id", "document_id", "ordinal", "content", "search_text",
    "embedding_model", "created_at"}, {"knowledge_documents"}, {"uq_chunk_document_ordinal"}, {}),
  AddPart(<<"column", "knowledge_chunks", "embedding">>),
  AddPart(<<"column", "knowledge_chunks", "search_vector">>),
  AddPart(<<"name", "knowledge_chunks", "ix_knowledge_chunks_document_id">>),
  AddPart(<<"name", "knowledge_chunks", "ix_knowledge_chunks_fts">>),
  AddPart(<<"name", "knowledge_chunks", "ix_knowledge_chunks_trgm">>),
  AddPart(<<"name", "knowledge_chunks", "ix_knowledge_chunks_embedding">>) >>
KnowledgeTablesUndone == <<DropTable("knowledge_chunks"), DropTable("knowledge_documents")>>

AiTables == <<
  AddPart(<<"column", "mentor_accounts", "reply_mode">>),
  AddPart(ValueCheck("mentor_accounts", "ck_account_reply_mode", {"draft", "auto"})),
  AddPart(<<"column", "mentor_accounts", "control_chat_id">>),
  NewTable("ai_runs", {"id", "conversation_id", "message_id", "outcome", "reason", "confidence",
    "model", "prompt_version", "effort", "latency_ms", "input_tokens", "output_tokens",
    "cache_read_tokens", "retrieved", "response_text", "error", "created_at"}, {"conversations",
    "messages"}, {}, {<<"ck_ai_run_outcome", {"answer", "silence"}>>}),
  AddPart(<<"name", "ai_runs", "ix_ai_runs_conversation">>), AddPart(<<"name", "ai_runs", "ix_ai_runs_created_at">>),
  AddPart(<<"name", "ai_runs", "uq_ai_run_message">>),
  NewTable("drafts", {"id", "ai_run_id", "conversation_id", "proposed_text", "final_text", "status",
    "decided_by", "decided_at", "control_message_id", "created_at"}, {"ai_runs", "conversations"},
    {"uq_draft_ai_run"}, {<<"ck_draft_status", OldStatuses>>}),
  AddPart(<<"name", "drafts", "ix_drafts_pending">>),
  NewTable("escalations", {"id", "conversation_id", "message_id", "ai_run_id", "reason", "created_at",
    "resolved_at"}, {"conversations", "messages", "ai_runs"}, {"uq_escalation_message"}, {}),
  AddPart(<<"name", "escalations", "ix_escalations_open">>) >>

AiTablesUndone == <<DropTable("escalations"), DropTable("drafts"), DropTable("ai_runs"),
  TakeAway("column", "mentor_accounts", "control_chat_id"),
  TakeAway("check", "mentor_accounts", "ck_account_reply_mode"),
  TakeAway("column", "mentor_accounts", "reply_mode")>>

ResolvedBy == <<AddPart(<<"column", "escalations", "resolved_by">>),
                AddPart(<<"name", "escalations", "ix_escalations_open_by_conversation">>)>>
ResolvedByUndone == <<TakeAway("name", "escalations", "ix_escalations_open_by_conversation"),
                      TakeAway("column", "escalations", "resolved_by")>>

MemoryTables == <<
  NewTable("student_memories", {"id", "student_id", "account_id", "category", "content", "content_key",
    "confidence", "source", "source_message_id", "active", "superseded_at", "created_at"},
    {"students", "mentor_accounts", "messages"}, {}, {<<"ck_memory_category", {"course",
    "learning_stage", "interest", "goal", "constraint", "note"}>>, <<"ck_memory_source", {"extracted",
    "mentor"}>>}),
  AddPart(<<"name", "student_memories", "uq_memory_active_content">>),
  AddPart(<<"name", "student_memories", "ix_memory_student_active">>),
  NewTable("memory_rejections", {"id", "student_id", "category", "reason", "detail", "created_at"},
    {"students"}, {}, {}),
  AddPart(<<"name", "memory_rejections", "ix_memory_rejections_created_at">>) >>
MemoryTablesUndone == <<DropTable("memory_rejections"), DropTable("student_memories")>>

PanelTables == <<
  NewTable("panel_users", {"id", "username", "display_name", "password_hash", "role", "account_id",
    "active", "created_at", "last_login_at"}, {"mentor_accounts"},
    {"ck_panel_user_account_matches_role"}, {<<"ck_panel_user_role", {"mentor", "admin"}>>}),
  NewTable("panel_sessions", {"id", "token_hash", "user_id", "created_at", "expires_at", "revoked_at",
    "source_ip"}, {"panel_users"}, {}, {}),
  AddPart(<<"name", "panel_sessions", "ix_panel_sessions_live">>) >>
PanelTablesUndone == <<DropTable("panel_sessions"), DropTable("panel_users")>>

FileTables == <<
  NewTable("message_media", {"id", "message_id", "kind", "mime", "size_bytes", "sha256", "refusal",
    "extracted_text", "metrics", "created_at"}, {"messages"}, {"ck_message_media_refusal"},
    {<<"ck_message_media_kind", FileKinds>>}) >>
FileTablesUndone == <<DropTable("message_media")>>

(* Migrations 0008, 0009 and 0014 replace one check by another.            *)
Rewrite(t, name, values) == <<TakeAway("check", t, name), AddPart(ValueCheck(t, name, values))>>
Pictures == Rewrite("message_media", "ck_message_media_kind", FileKinds \cup {"image"})
PicturesUndone == Rewrite("message_media", "ck_message_media_kind", FileKinds)
Voices == Rewrite("message_media", "ck_message_media_kind", FileKinds \cup {"image", "voice"})

\* Fault: the way back goes one revision too far.
VoicesForgotten == Rewrite("message_media", "ck_message_media_kind", FileKinds)

VoicesUndone == Rewrite("message_media", "ck_message_media_kind", FileKinds \cup {"image"})

UsageTable == <<
  NewTable("model_usage", {"id", "purpose", "model", "input_tokens", "output_tokens",
    "cache_read_tokens", "cost_micros", "priced", "occurred_at"}, {},
    {"ck_model_usage_cost_nonnegative"}, {<<"ck_model_usage_purpose", OldPurposes>>}),
  AddPart(<<"name", "model_usage", "ix_model_usage_occurred_at">>) >>
UsageTableUndone == <<TakeAway("name", "model_usage", "ix_model_usage_occurred_at"), DropTable("model_usage")>>

OutboxTable == <<
  NewTable("deliveries", {"id", "conversation_id", "answered_message_id", "body", "status", "attempts",
    "max_attempts", "telegram_message_id", "last_error", "run_after", "claimed_at", "sent_at",
    "created_at"}, {"conversations", "messages"}, {"uq_delivery_answered_message"},
    {<<"ck_delivery_status", {"pending", "sending", "sent", "failed", "abandoned"}>>}),
  AddPart(<<"name", "deliveries", "ix_deliveries_pending">>),
  AddPart(<<"name", "deliveries", "ix_deliveries_claimed_at">>) >>
OutboxTableUndone == <<TakeAway("name", "deliveries", "ix_deliveries_claimed_at"),
  TakeAway("name", "deliveries", "ix_deliveries_pending"), DropTable("deliveries")>>

HeartBeats == <<NewTable("worker_heartbeats", {"worker_id", "updated_at", "detail"}, {}, {}, {})>>
HeartBeatsUndone == <<DropTable("worker_heartbeats")>>

PartsSent == <<AddPart(<<"column", "deliveries", "sent_parts">>),
               AddPart(<<"name", "deliveries", "ck_delivery_sent_parts">>)>>
PartsSentUndone == <<TakeAway("name", "deliveries", "ck_delivery_sent_parts"),
                     TakeAway("column", "deliveries", "sent_parts")>>

Expansion == Rewrite("model_usage", "ck_model_usage_purpose", NewPurposes)
ExpansionUndone == <<DeleteRow("model_usage", "ck_model_usage_purpose", "instruction_expansion"),
  TakeAway("check", "model_usage", "ck_model_usage_purpose"),
  AddPart(ValueCheck("model_usage", "ck_model_usage_purpose", OldPurposes))>>

DraftRevision == <<AddPart(<<"column", "drafts", "revision">>)>>
DraftRevisionUndone == <<TakeAway("column", "drafts", "revision")>>

InChat == <<AddPart(<<"column", "drafts", "delivery">>),
  AddPart(ValueCheck("drafts", "ck_draft_delivery", {"control_bot", "chat"})),
  TakeAway("check", "drafts", "ck_draft_status"), AddPart(ValueCheck("drafts", "ck_draft_status", NewStatuses))>>
InChatUndone == <<UpdateRow("drafts", "ck_draft_status", "withdrawn", "failed"),
  TakeAway("check", "drafts", "ck_draft_status"), AddPart(ValueCheck("drafts", "ck_draft_status", OldStatuses)),
  TakeAway("check", "drafts", "ck_draft_delivery"), TakeAway("column", "drafts", "delivery")>>

Migrations == <<
  [up |-> FirstTables, down |-> FirstTablesUndone],
  [up |-> KnowledgeTables, down |-> KnowledgeTablesUndone],
  [up |-> AiTables, down |-> AiTablesUndone],
  [up |-> ResolvedBy, down |-> ResolvedByUndone],
  [up |-> MemoryTables, down |-> MemoryTablesUndone],
  [up |-> PanelTables, down |-> PanelTablesUndone],
  [up |-> FileTables, down |-> FileTablesUndone],
  [up |-> Pictures, down |-> PicturesUndone],
  [up |-> Voices, down |-> VoicesUndone],
  [up |-> UsageTable, down |-> UsageTableUndone],
  [up |-> OutboxTable, down |-> OutboxTableUndone],
  [up |-> HeartBeats, down |-> HeartBeatsUndone],
  [up |-> PartsSent, down |-> PartsSentUndone],
  [up |-> Expansion, down |-> ExpansionUndone],
  [up |-> DraftRevision, down |-> DraftRevisionUndone],
  [up |-> InChat, down |-> InChatUndone] >>

Newest == Len(Migrations)

-----------------------------------------------------------------------------
(* db/models.py: the columns each class maps.  search_vector is generated  *)
(* by the database and mapped by no class.                                 *)
MappedAccounts ==
  Columns("mentor_accounts", {"id", "slug", "mentor_name", "phone", "telegram_user_id",
    "device_model", "system_version", "app_version", "session_encrypted", "enabled", "reply_mode",
    "control_chat_id", "send_paused", "paused_reason", "flood_wait_until", "created_at"})
MappedStudents ==
  Columns("students", {"id", "display_name", "created_at"}) \cup
  Columns("identities", {"id", "student_id", "telegram_user_id", "username", "first_name",
    "last_name", "created_at"}) \cup
  Columns("excluded_chats", {"id", "account_id", "telegram_peer_id", "reason", "created_at"})
MappedConversations ==
  Columns("conversations", {"id", "account_id", "student_id", "telegram_chat_id", "status",
    "assistant_enabled", "last_answered_message_id", "created_at", "updated_at"}) \cup
  Columns("messages", {"id", "conversation_id", "telegram_message_id", "sender", "text",
    "media_type", "reply_to_message_id", "sent_at", "created_at"})
MappedWork ==
  Columns("jobs", {"id", "kind", "payload", "status", "attempts", "max_attempts", "last_error",
    "run_after", "locked_by", "locked_at", "created_at"}) \cup
  Columns("duplicate_deliveries", {"id", "account_id", "telegram_chat_id", "telegram_message_id", "seen_at"}) \cup
  Columns("audit_log", {"id", "actor", "action", "target", "detail", "created_at"})
MappedKnowledge ==
  Columns("knowledge_documents", {"id", "external_key", "source_class", "authority", "category", "title",
    "body", "valid_until", "owner", "notes", "active", "created_at", "updated_at"}) \cup
  Columns("knowledge_chunks", {"id", "document_id", "ordinal", "content", "search_text", "embedding",
    "embedding_model", "created_at"})
MappedRuns ==
  Columns("ai_runs", {"id", "conversation_id", "message_id", "outcome", "reason", "confidence", "model",
    "prompt_version", "effort", "latency_ms", "input_tokens", "output_tokens", "cache_read_tokens",
    "retrieved", "response_text", "error", "created_at"}) \cup
  Columns("drafts", {"id", "ai_run_id", "conversation_id", "proposed_text", "revision", "final_text",
    "status", "decided_by", "decided_at", "control_message_id", "delivery", "created_at"}) \cup
  Columns("escalations", {"id", "conversation_id", "message_id", "ai_run_id", "reason", "created_at",
    "resolved_at", "resolved_by"})
MappedMemory ==
  Columns("student_memories", {"id", "student_id", "account_id", "category", "content", "content_key",
    "confidence", "source", "source_message_id", "active", "superseded_at", "created_at"}) \cup
  Columns("memory_rejections", {"id", "student_id", "category", "reason", "detail", "created_at"})
MappedPanel ==
  Columns("panel_users", {"id", "username", "display_name", "password_hash", "role", "account_id",
    "active", "created_at", "last_login_at"}) \cup
  Columns("panel_sessions", {"id", "token_hash", "user_id", "created_at", "expires_at", "revoked_at", "source_ip"})
MappedFiles ==
  Columns("message_media", {"id", "message_id", "kind", "mime", "size_bytes", "sha256", "refusal",
    "extracted_text", "metrics", "created_at"}) \cup
  Columns("model_usage", {"id", "purpose", "model", "input_tokens", "output_tokens",
    "cache_read_tokens", "cost_micros", "priced", "occurred_at"})
(* Delivery maps no sent_parts: the outbox reads and writes it in SQL.     *)
MappedSendings ==
  Columns("deliveries", {"id", "conversation_id", "answered_message_id", "body", "status", "attempts",
    "max_attempts", "telegram_message_id", "last_error", "run_after", "claimed_at", "sent_at",
    "created_at"}) \cup
  Columns("worker_heartbeats", {"worker_id", "updated_at", "detail"})

Mapped == MappedAccounts \cup MappedStudents \cup MappedConversations \cup MappedWork \cup MappedKnowledge
            \cup MappedRuns \cup MappedMemory \cup MappedPanel \cup MappedFiles \cup MappedSendings

-----------------------------------------------------------------------------
SchemaInit ==
  /\ level = 0
  /\ objects = {}
  /\ tableRows = [i \in RowIds |-> NoRow]
  /\ installed \in BOOLEAN

Before == [db |-> objects, rows |-> tableRows, ok |-> TRUE]

(* What one transaction leaves is kept if none of it was refused.          *)
CommitAs(s, n) ==
  /\ s.ok
  /\ level' = n
  /\ objects' = s.db
  /\ tableRows' = s.rows
  /\ UNCHANGED installed

(* "alembic upgrade": one revision or all of them.  0002 refuses to run    *)
(* without the two extensions.                                             *)
Upgrade ==
  \E n \in {level + 1, Newest} :
    /\ n \in level + 1 .. Newest
    /\ 2 \in level + 1 .. n => installed
    /\ CommitAs(Revisions(Before, [i \in 1 .. n - level |-> Migrations[level + i].up])[n - level], n)

(* "alembic downgrade": one revision or to base.                           *)
Downgrade ==
  \E n \in {level - 1, 0} :
    /\ n \in 0 .. level - 1
    /\ CommitAs(Revisions(Before, [i \in 1 .. level - n |-> Migrations[level + 1 - i].down])[level - n], n)

(* The superuser's set-up (docs/SERVER_SETUP.md), at any time.             *)
InstallExtensions == ~installed /\ installed' = TRUE /\ UNCHANGED <<level, objects, tableRows>>

(* The program writes a row; the database refuses what a check forbids.    *)
InsertRow ==
  \E i \in RowIds, r \in RowValues :
    /\ tableRows[i] = NoRow
    /\ <<"table", r[1]>> \in objects
    /\ IsChecked(r, objects)
    /\ tableRows' = [tableRows EXCEPT ![i] = r]
    /\ UNCHANGED <<level, objects, installed>>

SchemaNext == Upgrade \/ Downgrade \/ InstallExtensions \/ InsertRow

-----------------------------------------------------------------------------
(* Every revision, built from nothing                                      *)
Nothing == [db |-> {}, rows |-> [i \in RowIds |-> NoRow], ok |-> TRUE]
Built == Revisions(Nothing, [k \in 1 .. Newest |-> Migrations[k].up])

ColumnsOf(db) == {o \in db : o[1] = "column"}

(* Whatever way a revision was reached, up or down, the database has the   *)
(* objects that building it from nothing gives: a downgrade undoes its     *)
(* upgrade, statement by statement.                                        *)
RevisionTellsTheSchema == objects = Built[level].db

(* At the head every column a class of db/models.py maps is there, and the *)
(* only other ones are the two the program reaches through SQL.            *)
ClassesFitTheHead ==
  level = Newest => ColumnsOf(objects) \ Mapped \subseteq
                     {<<"column", "knowledge_chunks", "search_vector">>, <<"column", "deliveries", "sent_parts">>}
                  /\ Mapped \subseteq objects

(* No row is in a table whose check forbids it.                            *)
RowsFitTheirChecks == \A i \in RowIds : tableRows[i] # NoRow => IsChecked(tableRows[i], objects)

SchemaIsKept == RevisionTellsTheSchema /\ ClassesFitTheHead /\ RowsFitTheirChecks

SchemaSpec == SchemaInit /\ [][SchemaNext]_schemaVars
=============================================================================
