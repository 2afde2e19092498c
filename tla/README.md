# mentorai, specified in TLA+

`src/mentorai` is an assistant for the students of a trading academy.  It reads
the private messages that students send to a mentor's own Telegram account,
decides whether it knows an answer, and either sends it, proposes it to the
mentor, or leaves the question to him.  It is one asyncio process beside
PostgreSQL, a control bot and a small web panel, and what it says cannot be
unsaid: a student must not receive an answer twice, must not receive one the
mentor refused, and must not be left alone because a process died.

The modules here model the path of a message (inbound, job queue, conversation,
decision, drafts and their two decision paths, outbox) and the parts around it
(spending cap, model clients, memory, gate, statements, knowledge base, panel,
migrations, comparison of models), and beside the program the tools of
`src/tools` with the knowledge base they write.  TLC checks them on small
instances; TLAPS proves the safety properties of seventeen of them for all values
of the constants.  Paths of code below are relative to `src/mentorai/src/mentorai/`,
unless they begin with `tools/`; `docs/` is the one at the repository's root.

Contents: 1 the system, 2 the modules, 3 the runs, 4 the proofs, 5 where code and
documents disagree, 6 abstractions and what is not modelled, 7 what is left.

To run a check, in this directory:

    tlc -config OutboxSafety.cfg MCOutbox.tla
    tlapm OutboxProofs.tla


## 1. The system

### 1.1 How a message travels

1. `telegram/gateway.py` receives a message from Telegram.  For a student,
   `persist` stores the message and, when `assistant_may_answer`, a job, in one
   transaction.  For the mentor, it decides whether the message is the draft of
   the chat's box (`drafts.resolve_from_chat`) or a take-over
   (`escalation.on_mentor_message`).
2. `worker.run_forever` claims a job in a transaction of its own, and calls
   `process_message` in a second one.  That second transaction contains the call
   of the model, so it is long.  It ends with an `ai_runs` row (unique per
   message) and one of: a delivery (auto mode), a draft (draft mode), an
   escalation, or nothing; and with `queue.complete`.
3. A draft is shown to the mentor: as a card with buttons in the control bot
   (`worker.notify_draft`), and as text in the writing box of the student's chat
   (`telegram/chat_draft.py`).  The mentor decides in either place.
4. A decided draft becomes a delivery row (`worker.queue_approved_draft`).  The
   row is claimed and committed as `sending` before Telegram is called
   (`delivery.claim_next`, `delivery.claim`), pushed part by part with no
   transaction open (`telegram/sender.py:push`), and settled in a third
   transaction (`worker.deliver_claimed`).
5. `mentorai pause`, `/resume` and the panel change what the others read, at any
   time, from other processes.

Everything in step 2 to 4 runs in one event loop, in which the worker, the
handlers of the bot and the handlers of every Telegram account interleave at
each `await`; the panel and the command line are other processes.  They share
state only through PostgreSQL (READ COMMITTED, row locks, `SKIP LOCKED`), the
gate objects of `telegram/safety.py` (in memory) and Telegram itself.

### 1.2 The components

| Component | State it keeps | Operations | What makes it hard | Correct when |
|---|---|---|---|---|
| Outbox: `delivery.py`, `telegram/sender.py`, half of `worker.py` | rows `deliveries` (status, attempts, sent_parts, run_after, claimed_at), drafts' status, gate in memory | enqueue, claim_next, claim, push, mark_sent, retry_later, abandon, abandon_stale | a call with unknown outcome between two transactions; two executors; crashes; the sweep meets a slow push | no part twice or out of order; rows, drafts and chat agree; every answer is settled |
| Job queue: `jobs/queue.py`, half of `worker.py` | rows `jobs` (status, attempts, run_after, locked_at), `ai_runs` | enqueue, claim, complete, fail, release_stale | claims without owner; a lock taken from a slow worker; exceptions after the commit | one decision per message; nothing closed unseen; attempts bounded; every job rests |
| Drafts and control bot: `drafts.py`, `control/bot.py` | rows `drafts` (status, revision, final_text, control_message_id), cards in the bot's chat | create, notify, approve, edit, reject, repropose, queue | buttons of old cards; reads before the lock; a model call between two sessions | only a text that the mentor saw or wrote goes out, once, and only after a decision |
| Conversation and escalation: `conversation.py`, `escalation.py`, `web/app.py` | status, assistant_enabled, escalations | assistant_may_answer, hand_off, on_mentor_message, maybe_resume, resume_now, toggle | the worker's copy is as old as the model call is long; lost updates between transactions | a hand-over holds, is listed, and is followed by few answers |
| Chat drafts: `telegram/chat_draft.py`, `drafts.resolve_from_chat` | the box of the chat, drafts | create, notify, withdraw, classify, resolve | the mentor and the worker write the same box; his messages are stored late and in any order | one draft open; decisions stand; an accepted proposal keeps the assistant |
| Inbound: `telegram/gateway.py`, `telegram/store.py`, `telegram/normalize.py`, `memory/job.py` | identities, conversations, messages, duplicates, usage | _on_message, record_inbound, persist, should_extract, run | deliveries repeated and at once, downloads outside the transaction, lost transactions | one answer job per message; one conversation per chat; nothing vanishes uncounted |
| Account gate: `telegram/safety.py`, `telegram/sender.py` | token bucket, flood wait, quiet hours, in memory | wait, is_blocked, record_flood, push | two pushers and time between token and message; a restart forgets | no faster than the rate and a burst; shut as long as Telegram asked |
| Spending cap: `ai/budget.py` | usage rows per day and month | price, cost, evaluate, record | check, call and record are three steps of several callers; midnight | the overshoot is bounded; an unknown model costs as the dearest |
| Decision and guard: `ai/runtime.py`, `ai/decision.py`, `ai/guard.py` | `ai_runs` | rules, media, retrieval, cap, call, guard, record | the order of the conditions; sums in words and digits | only sums that an official source states; no call that a rule forbids |
| Model clients: `ai/openai_client.py`, `ai/client.py` | none | post, retry, interpret | retries of what was already worked on, by the code and by a library; bodies of every shape | a text or an error, in the end, and its tokens counted |
| Student memory: `memory/*` | facts with a partial unique index | extract, policy, supersede, insert | two extractions that do not see each other; failures in the middle | one current fact per key; nothing forgotten for nothing |
| Media: `media/*` | `message_media` | read numbers, sheets, statements; review | totals among the trades, gaps in a sheet, four styles of a number, measures rounded before they meet a limit | the advice is what the curve deserves |
| Knowledge base: `knowledge/*` | documents, chunks | import, search by words and vectors, fuse | an import between the two statements of a search; expiry | current, unexpired, once, and in the order of the ranks |
| Panel and access: `web/*`, `access.py` | sessions, audit log | log in, pages, forms, log out | the answer leaves before the commit; pages that stay open; sessions that end under a request | a read escapes the record only with its own commit; a form works in its own session only |
| Migrations: `migrations/*`, `db/models.py` | the schema | upgrade, downgrade | rows that a narrower check forbids; a schema written twice | the revision tells the schema; the classes fit it |
| Comparison of models: `model_compare.py` | sheet and key files | run, mark, report | the sheet comes back sorted or shortened | a mark reaches its author; the advice would have kept bad answers back |
| Knowledge-base tools: `tools/kb_*.py`, `tools/seed_*.py` | numbered files and latest ones | collect, validate, export, check, manifest, sheet | claims that depend on all before; a tool killed between two files | drafts never become facts; the strongest record owns its question |
| Linking, heart-beat, listings | rows of their own | one row at a time | little | see 6.3 |

The application and the tools share no state while they run: the tools are
started by hand, one at a time, and what they export is imported by
`mentorai kb-import`.  Beside these the repository holds their products
(`knowledge_base`, `exports`) and a legacy site.


## 2. The modules

| Module | What it is |
|---|---|
| `Outbox`, `OutboxPromise`, `OutboxProofs`, `MCOutbox` | the outbox with faults of process, Telegram and database; what it promises the student, in two actions and two variables; theorems, the refinement among them; instances |
| `Jobs`, `JobPromise` | the job queue, and what it promises the message that a job is about |
| `Client` | one call of a model with its retries |
| `MCWork` | `Jobs`, `Client` and `Outbox`: what must come to an end |
| `Inbound`, `MCInbound` | messages on their way in |
| `Conversation`, `ConversationPromise` | who speaks, and what that promises the student and the mentor |
| `PathProofs`, `MCPath` | theorems about `Inbound` and `Conversation`; both in one run |
| `Guard`, `Budget`, `Answer`, `MCAnswer` | the price guard, the price list, and what becomes of one question |
| `Spending`, `SpendingProofs` | the cap and those who spend; theorems about them and about `Client` |
| `Memory` | what is remembered of a student |
| `Drafts`, `MCDrafts` | drafts in the control bot |
| `ChatDrafts` | drafts in the writing box |
| `DecisionsProofs` | theorems about `Drafts`, `ChatDrafts` and `Answer` |
| `MCDecisions` | `Answer`, `Spending`, `Memory`, `Drafts`, `ChatDrafts` in one run |
| `Gate`, `Media`, `Knowledge`, `Panel`, `Trial` | the account's gate, statements, the knowledge base, the panel, the comparison of models |
| `Schema`, `MCSchema` | the sixteen migrations and the mapped classes |
| `DatabaseProofs` | theorems about `Jobs` and `Schema` |
| `Publishing`, `Content` | the tools of `tools/`, and the records that the seed files write |
| `PartsProofs` | theorems about `Gate`, `Panel`, `Memory` and `Media` |
| `KnowledgeProofs` | theorems about `Knowledge`, `Trial` and `Publishing` |
| `Lists` | what these proofs need to know of lists: induction over their places, recursion, first and last place, the place of a member in an order |
| `MCPanel`, `MCParts` | two users of the panel; the parts from `Gate` to `Content`, each on an instance of its own |

Each model has one action per operation of the code, and an action is what the
code does between two points at which another actor can run: an `await` on the
network where no transaction is open, or a commit.  A transaction whose effects
no one sees before its commit, and whose reads are of rows it has locked or of
rows whose age does not matter, is one action; where it reads early and commits
late, it is two, with what it read in a variable whose name begins with `saw`.

### 2.1 Outbox

One mentor account.  A *delivery* is an answer to one message, as the table's
unique constraint has it.  An *executor* is an asyncio task that pushes: the
worker, or a handler of the bot that has just approved a draft.

| Variable | In the code |
|---|---|
| `status, attempts, sentParts` | the columns of `deliveries`; `"absent"` before the row exists |
| `due`, `aged` | `run_after <= now()`; `claimed_at < now() - STALE_AFTER` |
| `draft` | `drafts.status` of the answer's draft, `"none"` in auto mode |
| `accountPaused`, `gatePaused`, `flood` | `mentor_accounts.send_paused`; the gate's copy of it; `now < flood_wait_until` |
| `connected` | the account is in `channels` and `gates` |
| `sweepDue` | `now - last_sweep > STALE_LOCK_AFTER` of `run_forever`, in memory |
| `pc, job, base, done, seen, outcome` | the frame of one `deliver_claimed`: `base` is `Claimed.sent_parts`, `done` the parts of this push, `seen` `Claimed.send_paused` |
| `inbox`, `read` | what Telegram has: parts in the student's chat, the read mark |

`EnqueueAuto`, `Approve` and `QueueDraft` make rows (`process_message`,
`_on_callback`, `queue_approved_draft`); `ClaimNext` and `ClaimQueued` are
`claim_next` and `claim`; `Start`, `Begin`, `SendPart` are `push`, cut at its
awaits; `Record` is the last transaction with `mark_sent`, `retry_later` and
`abandon`, each with the settlement of the draft that the code does in the same
transaction; `RecordFails` is its rollback; `Sweep` is `abandon_stale`, in an
idle round more than ten minutes after the last one or after the start
(`sweepDue`, which `SweepFallsDue` sets and a crash resets).
`RetryDue`, `ClaimAges`, `FloodEnds` are time, `Pause` is `mentorai pause` in
another process and `Crash` the end and restart of this one.

`SendPart` has three outcomes, because Telegram has: the part is there; it is
known not to be there (`FloodWaitError`); or nobody knows.  In the last case the
model lets the part be there or not.

`OutboxPromise` is the promise without any of this: `Reach` appends the next
missing part, `Finish` records a complete answer.  `Outbox` implements it with
`answered` mapped to "the row is `sent`".

### 2.2 Jobs

Jobs of kind `answer_message`.  `Claim`, `Complete`, `Fail`, `Stale` are the
functions of `jobs/queue.py`; `Decide`, `Skip` and `Rollback` are the ends of the
long transaction; `Return`, `Raise` and `Fails` are what follows the commit and
the `except` of `run_forever`; `Lose` is the death of a worker, or the failure of
`queue.fail` itself, that `contextlib.suppress` hides.  `decided` counts the
`ai_runs` rows of the message; that the second insert is impossible is the unique
constraint, which the model has as the guard of `Decide`, so nothing is claimed of
it.  `Sweep` is `release_stale` in an idle round; when it is due, each worker knows
of its own loop (`sweepDue`), and one that is started again (`Restart`, or `Lose`)
waits anew.

`cli.py` starts one worker, but the queue is written for several (`SKIP LOCKED`,
`locked_by`), and docs/ARCHITECTURE.md:126 speaks of two; the model has any
number.  `JobPromise` is the queue without workers, locks and clock: a job is
asked, tried, decided or skipped, opened again or given up.  `skipped` and `faults` are ghosts, read by properties only (`faults`
also bounds the faults, see 3).

### 2.3 Drafts

`PressApprove` and `ReplyText` are the part of a handler before the lock,
`Approve`, `Edit` and `Refuse` the part under it.  The distinction is the point:
`drafts._claim` selects the row `FOR UPDATE`, but SQLAlchemy does not overwrite
the attributes of an object which the session holds already, so `approve` and
`edit` decide on the status that was loaded before the wait (`sawStatus`,
`sawRevision`).  `reject` and `repropose` load the draft under the lock and have
no such copy.  `ReplyInstruction`, `Expand`, `Repropose` and `ShowCard` are
`_expand_instruction`, in three sessions and two network calls.  `Create`,
`Notify` and `Link` are the worker's side, `QueueDraft` and `Settle` the
delivery, of which `Outbox` has the detail.

A proposal is identified by its revision.  `cards` is the set of revisions that
were shown to the mentor with an approve button.

### 2.4 Conversation

One conversation: `status`, `enabled`, its questions with their jobs and
escalations, the age of the mentor's last word.  `Receive` and `Persist` are the
read and the commit of `persist` for a student's message, `MentorWrites` and
`TakeOver` or `AcceptDraft` those for a message of the mentor.  A worker claims a
question and reads the conversation (`Begin`, `Return`, `Skip`); after the model
has answered it commits (`Answer`, `StaySilent`, `HandOff`) or rolls back.
`Order` and `Resume` are the read and the commit of `/resume` and of the panel's
`resolve`.

Writes follow the ORM: a column is written only where the transaction's own copy
of it changed.  So `TakeOver` sets `status` only if the mentor's transaction *saw*
`active`, and `Answer` leaves it alone even if it has changed meanwhile.
`maybe_resume` changes the object before the model is called and the next query
flushes it; the row is then locked until the commit (`Hold`, `RowIsHeld`), and
other writers of `status` wait.

`ConversationPromise` is what student and mentor see of it, with no job, worker or
copy of a row.  A question is open until it is answered, listed as an escalation
or left to the mentor, who reads it in Telegram (`Fate`); the word is the
assistant's or the mentor's, and passes by `HandOver`, `TakeBack`, `MentorWrites`
and `Operate`.

### 2.5 ChatDrafts

One chat, its box, the drafts in the order in which they were made, and what the
mentor has sent and the process has not yet stored.  `Create`, `Withdraw`,
`Resolve` and `Classify` are `drafts.py`; `Check`, `NoClient`, `Look`, `Write`,
`Refuse` are `chat_draft.notify`, cut at its transaction and its two calls of
Telegram; `Escape` is any other exception, which `notify_draft` swallows, or the
end of the process; `Type` and `Send` are the mentor; `Persist` and `Lose` the
late storing of what he sent.

`resolve_from_chat` compares `sent_at` with `created_at - CLOCK_SKEW`.  A message
sent when draft *n* was the newest is never older than draft *n*; for a later
draft the answer depends on clocks, on the skew and on when its transaction
began, so both are possible (`MayPrecede`).

### 2.6 Inbound

One mentor account, its private chats, and the tasks in which Telethon runs the
handler, one for each delivery and as many at once as there are.  `Deliver`,
`Skip`, `ReadAttachment` are `_on_message` before the transaction; `Identify`,
`Introduce`, `Record` the statements of `record_inbound`; `CommitDuplicate` and
`CommitMessage` the two ends of `persist`; `Fail` its rollback at any point, after
which nobody tries again.  `Extract` is the worker's `memory_job.run`.

| Variable | In the code |
|---|---|
| `identities`, `owner`, `stored`, `duplicates`, `charged` | the rows of `identities`, `conversations` (its `student_id`), `messages`, `duplicate_deliveries`, `model_usage` |
| `answerJobs`, `extractJobs` | rows that `persist` put into `jobs`, of its two kinds |
| `memory` | for each student, the chats in which the remembered facts were learnt |
| `pc`, `msg`, `called`, `known`, `opened`, `duplicate`, `nth` | the frame of one handler: what it has read so far |
| `delivered`, `dropped`, `calls`, `wasted` | ghosts: what happened in the world and no table keeps |

An insert whose key another open transaction has inserted waits; this is the
guard of `Introduce` and `Record`.  When the other commits, an insert into
`identities` or `conversations` fails (`Fail`), one into `messages` finds a
duplicate, since it says `on conflict do nothing`.  The statements between two
awaits on the database that read nothing another task can change are one action.
Whether the assistant may answer is left open here: `Conversation` decides it.


### 2.7 A question and its price: Guard, Budget, Answer, Spending

`Guard` is `ai/guard.py` on tokens, which is what `text/persian.py` leaves of the
characters: numbers (digits, width, decimals), scale words, units and other words.
What the code matches with a regular expression from the left, the module reads
backwards from the unit; `Scaled` multiplies by the scales in the order in which
the code lists them, each once.  `Said` and `Meant` are a second definition, of what a
reader of the text understands; the property compares the two.  `Budget` is the
price list and `evaluate` of `ai/budget.py` as functions.

`Answer` is `handle_message`: `ObeyRule` (a fixed rule fires), `ReviewStatement`
and `LeaveMedia` (what a file leaves to be decided), `LackSources`, `RespectCap`,
`CallInVain`, `Judge`, one for each `return` of the code.  A text is the set of
word lists of `decision.py` it hits.  `OthersSpend` is everybody else.

`Spending` has the callers.  A worker's job begins a transaction, checks, calls
and records in it (`Begin`, `Check`, `RecordUsage`, or `RollBack`); an instruction
of the mentor checks in one transaction and records in another; `DescribePicture`
records and checks nothing.  `Midnight` comes at any time.  A row is stamped with
the day on which its transaction began, the check sums the day of the clock.

### 2.8 Client

`Post`, the four answers of the network (`Disconnect`, `Busy`, `Refuse`,
`Garble`), `Respond` with a body of any shape, `WakeUp` after a pause.  `billed`
is the provider's side: a request whose answer was lost may have been worked on.
`AskAnthropic` is the other client.  It is built with a timeout and no limit of
retries (`ai/client.py:153`), so its library sends a request again by itself, as
often as its own default says (`LibraryAsksAgain`, `LibraryRetries`), and then
returns or raises (`LibraryReturns`, `LibraryRaises`); the code sees neither the
number of requests nor what those before the last one cost.  An answer states in
its usage what it cost, and a body of any shape what it was; a `Retry-After` is
taken as it is between nothing and `MaxBackoff`, a negative one too.

### 2.9 Memory

`Extract` reads the findings of a model, `NextFinding` lets the policy judge one,
`Supersede` and `Insert` are the two statements of `remember`, `Commit` and `Fail`
the ends of the job's transaction.  Two extractors run with READ COMMITTED: an
update sees the rows committed before it and waits for those being changed; an
insert waits for a key of the partial unique index that another is about to add or
remove (`Conflict`).

### 2.10 Gate

A clock in ticks, the bucket in the same unit, quiet hours in the account's local
time, and pushes that overlap.  `Start`, `TakeToken`, `SendPart`, `MeetFloodWait`,
`BreakOff` are `push`, cut at its waits.  `barred` is Telegram's side: no call
before this time.  `hurt` collects what the code does not promise against: another
push was under way, the refusal came later than `Margin` after the push began, the
process was restarted.

### 2.11 Media, Knowledge, Panel, Trial

*Media*: pure functions over a statement's rows, a sheet's cells, and a number in
one of the terminals' styles, each a function defined by recursion along its list
(`Chosen`, `Sums`, the accounts of `Drawdown`, `LayOut`, `Glue`, `Thousands`); the
property has a second definition of the curve (`Equity`, `Peak`, `Falls`), which
looks at all its points at once.  What a report prints of itself comes before what
its rows say (`Printed`, `Counted`).  The profit factor is kept in thousandths and
the draw-down in hundredths of a percent, as `statement.py` rounds them before
`review.py` compares; where a quotient lies half-way, the floating-point division
decides, and the model lets it fall on either side (`Nearest`, `ties`).
*Knowledge*: `Import` is one transaction,
`SearchWords` and `SearchVectors` the two statements of a search; which documents
match, and in what order, is any ranking of those that may be found.  *Panel*: a
request is `Ask` (which resolves the session), then `ServePage`, `Toggle`,
`SignOut` or `Refuse`, and, once the browser has its answer, `CommitRequest` or
`FailToCommit`: the code after the `yield` of `_session_dependency` runs when the
response has been sent.  `closing` is the transaction between the two, `unkept`
the pages whose commit failed.  The page stays in the browser with the form it was
rendered with.  *Trial*: `Begin` loads candidates and questions, `Exclude` drops
those a rule or missing sources exclude, `AskRow` asks all candidates one
question, `Grade` is the mentor, who may sort and shorten the sheet; `Scored` and
`Advice` are the report.

### 2.12 Schema

The database is a set of objects (tables, columns, references, indexes, the values
a check allows) and a few rows.  A migration is two lists of statements, its way up
and its way back (`Voices`, `VoicesUndone`).  A statement creates or drops a table,
adds or removes a part, deletes or updates rows: `Allowed` says when PostgreSQL
accepts it, `DbAfter` and `RowAfter` what it leaves.  `Upgrade` and `Downgrade` run
the lists of one revision or of all in one transaction (`Revisions`), and a refused
statement leaves everything as it was (`CommitAs`).  `InsertRow` is the program
between two deployments, `InstallExtensions` the superuser.  `Built` is each
revision as a fresh database has it; `Mapped` is `db/models.py`, written down once
more from the classes.

### 2.13 Publishing and Content

`Publishing` has the builders of records that the seed files use (`Lesson`,
`Policy`, `Drafted`, ...), the errors `kb_validate.py` looks for, and
`kb_export_core.py`: the order of strength (a record's rank is the number of those
before it, which is what a stable sort makes of the key), the rows, in which each
record claims what is left of its questions (`Free`, `Claimed`: what those before
it were exported under), and the evaluations.  A tool is the list of its writes; it
may be killed between two or within one (`KillTool`).

`Content` has the lists of records that the seed files of `tools/` write, with
what the tools decide by, a definition for each list.  With them the model gives
the numbers of the real exporter: of 734 records it makes 643 rows (498 official,
145 of the mentor; 38 facts, 23 policies, 582 guidance), 845 evaluations, and four
titles that a category had to qualify.


## 3. The runs

Five runs must pass.  A run holds several *subjects*: parts that share no
variable.  The initial state chooses one, only it takes steps, and the others rest
in their initial states; so a run is the sum of its instances and not their
product, and every property speaks of its own part.  Seven runs must fail.

Every bound below is a constant of its configuration, except where a guard names
it.  Symmetry is used for actors and names that no action tells apart; none is
used where liveness is checked.

| Run | Instance | Asks |
|---|---|---|
| `outbox_safety` | answers of 2 and 1 parts, worker and one bot handler, 2 attempts; 768,808 states | the safety of the outbox, and that it implements `OutboxPromise` |
| `work` | 1 job, 2 workers, 3 attempts, 2 faults; a call with 2 retries of its own or 2 of the library; one answer of 2 parts with 2 attempts; 25,092 states | safety of queue and call, and that job, call and delivery end |
| `path` | 1 chat, 3 messages delivered up to twice, 3 tasks, extraction at each 2nd; 3 questions, 2 workers, 1 operator; 630,583 states | duplicates, first contact and losses; hand-overs |
| `decisions` | texts with 1 unit and 2 scales; 1 worker, 1 mentor, 2 days; 2 extractions of 2 keys; 1 draft, 3 handlers, 2 revisions; 3 drafts in the chat, 2 messages in flight; 338,080 states | what is said, what it costs, what is remembered, what is sent |
| `parts` | 7 subjects and the seeded base, see below; 738,084 states | the parts around the path |
| `outbox_lost_approval`, `drafts_race`, `panel_audit`, `conversation_off`, `inbound_memory`, `voice_rules`, `conversation_resolve` | the smallest that show it | findings 1 to 7 |

### What they show

**outbox_safety.**  `OnceInOrder`: no part reaches a student twice or out of
order.  `OneHolder`: worker and bot never hold one row.  `ResumesWhereItStopped`:
a row that may be pushed again counts exactly the parts that are in the chat; this
is why the first is true over retries.  `SentMeansSent`: row, draft, read mark and
chat tell one story, both ways.  `SettledIsFinal`, `PauseHolds`: a settled row
that nobody holds is left alone; a delivery claimed under a pause sends nothing,
although the gate was made before the pause.  `KeepsPromise`: the refinement.

**work.**  `ClosedIsLeftAlone`; `JobKeepsPromise`: two holders of one
job, the sweep and failures after the commit included, a job is done only if it was
decided or skipped, is opened again only with attempts left, and once given up is
tried by nobody any more, though a slow worker may still bring it to its end;
`AttemptsAreAccounted`: `release_stale` does not look at `max_attempts`, and still
a job is tried at most `MaxAttempts` times, plus one for each worker that may be
holding it late, less one, plus one for each fault.  `EveryJobRests` and
`EverySettles`: whatever died before and however often, once the processes stay up
(`calm`) every job ends done or dead and stays so, and every answer that was
queued is settled.  Without that premise both are false, since who is started again
within ten minutes never sweeps.  `CallIsAccounted`: a call ends with a text or an
error, within its retries and pauses or those of the library, never reports more
than the provider charges, and falls short by at most one request for each that was
never answered.  `CallEnds`.

**path.**  `OneAnswerJob`: two tasks with one message make one job.
`OpenedOnce`: student and mentor may write first at the same moment; the chat has
one conversation, whose student never changes, and no message without one.
`DuplicatesAreCounted`: each delivery is in progress, lost with its transaction,
stored, or a row of `duplicate_deliveries`, so the rate of duplicates that the
table is for is exact up to failures.  `SpendIsCounted`: a description is charged
before the duplicate is noticed, and escapes only with a rolled-back transaction.
`FrozenUntilMentorReplies`: without a word of the mentor only an operator gives a
handed-over conversation back.  `ListedUntilSeen`: it stays in the list of open
escalations until a person has looked.  `ConversationKeepsPromise`: a question has
one fate, so that none is both answered and listed, or answered after it was left
to the mentor; one that is listed leaves the list only when a person clears all of
it; the assistant takes the word back only after the mentor has written; and after
a hand-over at most one answer per worker still goes out.

**decisions.**  `AnswerIsGrounded`: the sums of an answer are sums that an
official source states, as a reader understands both, and no call is paid for
that a fixed rule, a missing source or the cap forbids.  The first half has a
premise, that a sum is one term; section 5 says what happens without it.
`CapIsNearlyKept`: a day's checked calls pass the cap by one call for each caller
and one more for each job that straddled midnight.  `MemoryIsKept`: one row per
fact, at most one value per overlapping extraction where one is wanted, and
nothing disappears unless something of its category takes its place.
`OnlySeenTextIsSent`: the text that goes out is the mentor's own or was on a card
with an approve button, even with stale reads and old buttons.
`UndecidedIsNotSent`; `OneOpenDraft`;
`DecisionStands`: neither a late failure nor a newer draft nor an older message
takes a decision back; `ProposalKeepsAssistant`: sending the open proposal
unchanged approves it and leaves the assistant on.

**parts.**  Each property is one part's, the conjunction of the statements named
in its module.

* `GateIsKept`: with two pushers and a bucket of one, in any window no more
  messages than rate, burst and one per push allow; and the gate stays shut as
  long as Telegram asked, unless `hurt` names the reason.
* `ReadingIsSound`: over all statements of up to three rows (winning, losing and
  fee-bearing trades, deposits, withdrawals, rows of other kinds) the draw-down is
  the worst of the curve, and praise or a halt fits it: every fall of 30% makes a
  halt, and none below 29.995% does, which is what the rounding makes of the limit;
  a factor from printed gross amounts is the one the rows give; totals change
  nothing; cells stay in their columns; amounts in each of four styles are read as meant.
* `SearchIsSound`: after any two imports of two rows, a search that no import
  overlaps brings current documents once, and never expired ones; of two rows with
  one key the last stays; the fusion never puts a document behind one that
  neither ranking prefers.
* `PanelIsGuarded`: what was shown is in the audit log under the name of the
  person who saw it, or its transaction is about to commit, or that very commit
  failed; it was in scope and within the session; and a switch is never made
  without its record, nor but on a page that this person had been shown in this
  session.  That the failing commit does lose the record is finding 3.
* `SchemaIsKept`: every way up and down, with rows in between and a server with
  and without its extensions, gives the schema of a fresh upgrade; the classes
  map what the head has; no row breaks its check.
* `TrialIsFair`: a run costs no more than its limit and one question; a mark goes
  to the candidate that wrote the answer, however the sheet comes back; with an
  advised threshold no answer that was marked bad would have been sent.
* `PublishingIsSound`: drafts of a model and general knowledge never become facts
  or policies of the Academy; no record loses a question to a weaker one; a latest
  file says what some numbered file says; a tool that ends leaves its products up
  to date, whatever was killed before.
* `SeededBaseIsSound`: the knowledge base that the seed files write is valid, and
  its export can be imported without one row overwriting another.

### Why the bounds are enough

*Outbox.*  Rows interact only through the executors, the gate and the sweep, so
two rows show every interaction; one of two parts is the least for which "resume
in the middle" exists, one of a single part the case in which first and last
coincide.  Two executors make the contention of worker and bot; two attempts make
a retry and its exhaustion.  *Jobs.*  Nothing in the queue relates two jobs but
the order of claims, which the model leaves free.  Two workers are a late
holder and a present one, who change places; with three attempts each of them has
had one before the limit is reached; with two faults a job is lost, recovered and
lost again.  The safety properties are theorems for any number of workers.
*Client.*  Two retries are a first, a middle and a last attempt, and two are what
the library's default is.  *Inbound.*  Chats meet only in the mentor's identity and in memory, so
one chat shows every race and two (finding 5) the mixing; three tasks are two
deliveries of one message and one of another; two deliveries make a duplicate.
*Conversation.*  Three questions are one that hands over, one already being
answered and one still in the queue, with two workers to do the first two at once.
*Drafts.*  Drafts are independent; three handlers are an approver, an editor and
one that reproposes between them; two revisions are an old card, a current one and
one to come.  *ChatDrafts.*  Three drafts with `_OUR_RECENT` 2 let a proposal be
forgotten; two messages in flight can be stored in either order.  *Answer.*  Two
scales are the least in which one can be lost or doubled; the lists of texts are in
`MCAnswer`.  *Spending.*  One caller of each kind and a cap of two calls make both
stale checks; the theorem is for any number.  *Memory.*  Two extractions, a
single-valued category with two keys, one with many, three rows: a conflict on one
key, two values of one category, and one finding after another in a transaction.
*Gate.*  A burst of one and an interval of two ticks make every message wait; waits
of 1 and 3 ticks are shorter and longer than the margin; five ticks cross the quiet
hours.  *Media.*  Three rows are a rise, a fall and a rise, with falls
and factors at a limit, just below it and half-way between two digits; reports that
print a factor, gross amounts only, or neither.  *Knowledge.*  Two rows
under one key, two files, and a day that ends between.  *Panel.*  One browser in
which an administrator and a mentor sign in by turns, two sessions of one hour, two
pages.  A browser is not answered again before its last transaction has ended.
*Schema.*  All sixteen revisions in full; two rows over the tables whose checks
change.  *Trial.*  Two candidates, files of up to three rows of which two share an
id, a limit that the first question may pass.  *Publishing.*  Two small bases, one
changed seed file, two runs of tools, of which the first may be killed; and the
real base whole.

The proofs remove the bounds of seventeen modules for the safety properties.  What
remains bounded is liveness (one delivery, one job, one call), the module without
a proof (`Content`), and the guards: `MaxRevision` (revisions of
a draft), `MaxDrafts`, `MaxInFlight`, `MaxDeliveries`, `MaxFacts`, `LastDay`,
`LastTick`, `LastHour`, `MaxReads`, `LastKbDay`, `MaxImports`, `MaxKbRows`, `MaxChanges`,
`MaxRuns` and `MaxFaults` (faults per job: without a bound on faults no job need
ever rest, as a process that always dies does no work).

`CHECK_DEADLOCK FALSE` is set for all but the runs of `Outbox` and `Conversation`
alone.  In the others a system may come to rest: every job done, a call ended,
every delivery handled, every draft settled, a clock at its bound, a comparison
marked.

### Fairness

Nothing makes a process stay up, so `WorkFairness` says what a process owes while
it does: `calm` is set once, at any time or never, no process is killed after it,
and only steps taken in calm are fair (`Owed`).
*Outbox.*  Weak fairness of every step of an executor that has begun: the event
loop runs each ready task, and every call of Telegram returns or raises.  Weak
fairness of `ClaimNext(d)`: `run_forever` never returns and drains all that is due
in each round.  Weak fairness of `RetryDue`, `ClaimAges` and `SweepFallsDue`: time
passes.  `Sweep` is fair in calm only: it is done in an idle round
(`worker.py:420, 435`), ten minutes after the start at the earliest, so calm means
that the process stays up *and* now and again finds no job.  One that is started
again and again, or is always busy, never sweeps and leaves a row in `sending` for
ever: without `calm` as their premise TLC refutes both liveness properties.
Nothing obliges a mentor to approve or a flood wait to be short, so `EverySettles`
holds with refusals repeated for ever: the attempts run out.  *Jobs.*  Weak
fairness, in calm, of each worker's loop as a whole, its sweep included, and of
time; claims compete, so no particular job or branch is promised anything.  Deaths
with a job in hand go on in calm, up to `MaxFaults` for each job.  *Client.*  Weak
fairness of its steps as a whole: every request has a timeout (`openai_client.py`,
`client.py:153`), and a sleep ends.


## 4. The proofs

In every module `Spec => []IInv` is proved from `Init => IInv` and
`IInv /\ [Next]_vars => IInv'`, with a step per action, and the properties follow
from `IInv`.  The assumptions are those named `ConstantsAssumption`,
`BoundsAssumption` or alike in the modules; they say that "nothing" is not a
delivery, job or question, that bounds and prices are numbers, and that the sets
that are counted are finite.

| Theorem | Property | Says, for all constants |
|---|---|---|
| `OutboxProofs!NeverTwice`, `Exclusive`, `RetriesAreExact`, `SentIsTrue`, `SettledStays`, `PauseIsHeeded` | `OnceInOrder`, `OneHolder`, `ResumesWhereItStopped`, `SentMeansSent`, `SettledIsFinal`, `PauseHolds` | the safety of the outbox, for any answers, parts, executors and attempts |
| `OutboxProofs!ImplementsPromise` | `KeepsPromise` | the refinement |
| `DatabaseProofs!AttemptsAreBounded`, `ClosedStays` | `AttemptsAreAccounted`, `ClosedIsLeftAlone` | the safety of the queue, for any finite set of workers |
| `DatabaseProofs!ImplementsPromise` | `JobKeepsPromise` | the refinement; with it `NothingIsClosedUnseen`, that what is done was decided or skipped |
| `DatabaseProofs!SchemaHolds` | `SchemaIsKept` | every revision has the same objects whichever way it was reached, the head has what the classes map, and no row breaks a check, for any rows with any values |
| `DecisionsProofs!SentTextWasSeen`, `NothingUndecidedIsSent` | `OnlySeenTextIsSent`, `UndecidedIsNotSent` | for any number of drafts, handlers and revisions |
| `DecisionsProofs!OneIsOpen`, `DecisionsStand`, `ProposalIsAccepted` | `OneOpenDraft`, `DecisionStands`, `ProposalKeepsAssistant` | for any number of drafts and messages |
| `DecisionsProofs!AnswerHolds` | `AnswerIsGrounded` | for any answers, sources, units, scales, prices and caps, numbers of any length |
| `PathProofs!StaysListed`, `StaysFrozen` | `ListedUntilSeen`, `FrozenUntilMentorReplies` | for any questions, operators and finite set of workers |
| `PathProofs!ImplementsPromise` | `ConversationKeepsPromise` | the refinement, for the same; with it `AnswersEnd`, the bound on late answers (`LastWords`) |
| `PathProofs!AnsweredOnce`, `OpenedOnceOnly`, `NoDeliveryVanishes`, `NoSpendIsHidden` | `OneAnswerJob`, `OpenedOnce`, `DuplicatesAreCounted`, `SpendIsCounted` | for any chats, messages and deliveries, and any finite set of tasks |
| `SpendingProofs!CapHolds` | `CapIsNearlyKept` | the overshoot, for any finite sets of workers and mentors, any caps and any dearest call |
| `SpendingProofs!CallsAreAccounted` | `CallIsAccounted` | a call ends with a text or an error, and what it cost is known up to the requests that were never answered, whoever sent them anew, for any retries of both kinds, pauses and cost |
| `PartsProofs!GateHolds` | `GateIsKept` | the rate and the wait, for any finite set of pushers, any burst, interval, margin and waits |
| `PartsProofs!PanelHolds` | `PanelIsGuarded` | a page that was shown is recorded, about to be, or lost with its own commit, and a form works in its session only, for any browsers, viewers, conversations, sessions and lifetime |
| `PartsProofs!MemoryHolds` | `MemoryIsKept` | one row per fact, the bound on values, and that nothing is forgotten for nothing, for any finite set of extractors and any findings |
| `PartsProofs!ReadingHolds` | `ReadingIsSound` | the advice with its rounded measures, the two ways to a factor, the totals, the columns and the amounts, for any statements, summaries, footers and sheets, and amounts of any size |
| `KnowledgeProofs!SearchHolds` | `SearchIsSound` | for any files of documents, imports, dates, rankings and number of hits |
| `KnowledgeProofs!TrialHolds` | `TrialIsFair` | for any candidates, questions, replies, limits and sheets |
| `KnowledgeProofs!PublishingHolds` | `PublishingIsSound` | for any bases of records, changes and killed tools |
| `SpendingProofs!UnknownIsDearest` | | a model without a price is charged no less than any that has one (`budget.py`, the fallback price), for any price list and any number of tokens |
| `TypeCorrect`, `DraftsTypeCorrect`, `ChatTypeCorrect`, ... | | the type invariants, which the runs need not check any more |

Each theorem is about its module's own specification.  In a run with several
subjects the part takes the same steps from the same initial states.

The inductive invariants, and why the properties alone are not inductive:

* **Outbox.**  `OnceInOrder` says nothing of what a sleeping row will do next.
  `HeldBy` relates a holder to its row and chat: between the claim and the record,
  `base + done` parts are in the chat (or more, if the outcome is unknown), and the
  row counts `base` of them.  The row need *not* be `sending`: the sweep may have
  abandoned it under a slow push, and the invariant allows for it.  `WaitsFor` is
  the frame of a handler that approved and has not claimed; `RowOf` says that a
  pending row counts the chat exactly, that a sent one is complete and read;
  `DraftOf` ties the draft to the row.  That at most one executor holds a row rests
  on this: only the holder makes a row pending again, and lets go of it in the same
  step; the sweep never does.
* **Jobs.**  The count of attempts is bounded through `LateClaims`: once a job that
  is still open has had all its attempts, only `release_stale` opens it again, so
  each further attempt is matched by a worker still deciding or failing it, or by
  a fault.  It counts a set of workers; the lemmas about adding and removing one
  member come from `FiniteSetTheorems`.  For the refinement two facts are added,
  that who holds a job has tried it (`HeldIsTried`) and that a dead one has no
  attempt left (`DeadIsTried`), without which `fail` might open it again.
* **Drafts.**  `HandlerOf`: a handler that approves carries a revision that was
  shown with a button, and a handler past its decision stands for a draft that is
  decided, whoever decided it in the end.
* **Conversation.**  `LateIsAccounted`: answers given late plus workers still in
  the middle of one are at most the number of workers, since a worker begins only
  if the conversation is the assistant's.  For the refinement, `ClaimedOnce`: no
  two workers are about one question; and `OneFate`: a question whose job is not
  done has no answer and no escalation yet, and one that is done has not both.
  Of the steps of a worker only its commit is then a step of the promise; claims,
  reads, locks and rollbacks do not show (`WorkIsHidden`).
* **ChatDrafts.**  `OnlyNewestIsOpen`: an open draft is the newest, so a message
  can decide no other; `TextsFollowDrafts`: a proposal in the box or in flight
  belongs to a draft already made, and a message knows its draft;
  `WorkerHasDraft`: the worker's draft exists, or there is room to make it.
* **Inbound.**  `RecordingIsNew` and `OpeningIsNew` say what an open transaction
  holds: the rows it has inserted are in no table and in no other open
  transaction, and the conversation it found will stay.  With them a commit never
  adds a message or an owner twice.  The two accounts are invariants on top, kept
  because each step adds or removes one task of one message
  (`ReleaseCounts`, `DeliverCounts`, `DescriptionCounts`).
* **Spending.**  Below the cap any number of calls may be under way, so the bound
  says nothing of the next record.  `TodayShares`: once the day has reached the
  cap, its sum and the dearest price for each call under way are together within
  the bound; a check lets no caller in any more, and a record moves one price from
  the calls to the sum.  `PastShares` says the same of a day that is over, for the
  workers whose transactions began on it: they may be checked by the new day and
  are recorded on the old one, which is the second summand of the bound.
  `FutureIsEmpty` and `StampsArePast` make midnight a change of names only.
* **Client.**  `BillIsKnown`: while a request is out, only those before it can have
  been billed without an answer, and each of them was one attempt, of the code's
  loop or of the library's.
* **Gate.**  `BucketPays`: of every message sent, those after it, those being typed
  and what is left in the bucket were paid by the burst and the time since.  The
  rate alone says nothing of tokens taken and not yet used.  `OpenWhenBegun`: a
  push that is under way began when the gate was open, so the wait it meets ends
  after any wait before it.
* **Panel.**  `Within`: whoever asks, or was shown a page, signed in before and has
  not left since; sessions only get older, so this stays.  `PageWasShown` carries
  it from a page to the form that comes back from it.  `ClosingFits` says what a
  transaction will find that has been answered: one that signs in finds its row
  unused, and for one that signs out nobody comes afterwards with its token
  (`IsLeft`), because the cookie left the browser with the answer and no other
  browser ever had it (`OneBrowser`).
* **Memory.**  `TwiceByOneOnly`: two rows of one fact that are not past belong to
  one open transaction, which takes the one away and writes the other; that is what
  the partial unique index allows, and the end of the transaction leaves one.
  `AuthorsDiffer`: of the values of a single-valued category that are active
  together, each can be given an extractor of its own, and none that is still
  writing one without taking the other away; this bounds their number by that of
  the extractions that overlap.  `ValueStays`: one of them is being taken away by
  nobody, or by a transaction that writes its successor.
* **Media.**  The state is one case, chosen once, so the invariant is only what
  cases there are (`MediaTypeOK`); the work is in what is computed along a list.
  `Reads` relates the account after k rows to the curve of k trades: its peak is the
  highest point so far, its worst fall one of the falls and no less than any, its
  share the largest of theirs.  Fractions are compared by cross products, so a row
  keeps this only because that order is transitive for positive denominators
  (`FractionsAreOrdered`).  `NearestIsNear` says what rounding does to a quotient,
  a tie on either side, and `RoundedShare` and `RoundedFactor` what a rounded
  measure on one side of a limit says of the exact one.  That praise implies a gain is not in the curve: gains
  and losses, which are summed apart, make the result (`GainsAndLosses`).  `Placed`
  says that a row so far ends before the column of the next cell, and
  `ThousandsAreWritten`, an induction over all smaller numbers, that an amount of
  any size is written in groups that read as it.
* **Answer.**  What is kept of a message is what the step that handled it has
  checked, so there is little to carry along; the work is in the lemmas.  The guard
  and the reader compute differently: the one looks back from the unit, joins the
  numbers and multiplies by each listed scale that occurs; the other adds and
  multiplies from left to right.  `NumbersAreJoined` and `ScalesAreCounted` follow
  the reader through a sum of one term with no scale twice, and
  `PlainSumIsRead` says that both then arrive at the same amount.
* **Knowledge.**  `WordsWereFound` and `WordsAreOld` say what the first statement
  of a search leaves to the second: its documents were unexpired then, are in the
  base if no import has followed, and have numbers below all that come later, so
  that they are never mistaken for new ones.  `RowByRow` follows an import: what
  it has written so far holds the last version of each row that it has passed.
* **Trial.**  `OrderFollowsId`: the same question is always shown with its
  candidates in one order, so a sheet may be re-sorted and shortened without
  harm; `SpentIsBounded`: while the run goes on it is within the limit, and one
  question costs no more than the dearest reply of each candidate;
  `SheetIsOfThisRun`: every row that came back is, marks aside, one that was
  handed out, and none comes back twice.
* **Publishing.**  The export goes through the records by rank: `OneForEachPlace`
  says that the number of those before it gives each record a place of its own.
  The claims are a function defined by its own earlier values, which are shown to
  exist record by record (`EveryRecordClaims`), and from that equation `Passed`:
  what a record passes over is owned by one before it, which is a stronger one.
  The writes of a tool are another matter: `WritesFit` says
  that what it has still to write is what the base now says and is numbered before
  it is made the latest file; `Settles`, that each of its products is up to date
  or still to be written.  A tool that is killed leaves the first and gives up the
  second, which is why an interrupted run proves nothing about its products until
  it is repeated.

* **Schema.**  That the objects are those of the revision is inductive only
  together with what the rows do (`SchemaInv`): each revision can be built from
  nothing, and every row fits the checks that are in force (`RowsHold`).  A way up
  with rows in the tables then arrives where the way up without them does, since
  rows are never more than a reason to refuse (`RowsOnlyRefuse`).  For a way back
  each pair of lists is compared object by object: what the one puts last the
  other takes, and what the one leaves alone the other does too (`IsMirrored`), so
  that nothing new stays and nothing old is lost (`DownUndoesUp`).  Three checks
  are not mirrored but replaced, by migrations 0008, 0009, 0014 and 0016, and going
  back gives them the values they had only because those are known at every
  revision between (`BuiltChecks`).  Nothing is computed: the sixteen lists are
  used for what they touch, and the rest is about any lists of statements.

Two kinds of proof need more than one step of a system.  What a list holds after it
was built, sorted or folded is shown by induction over its places; the provers
cannot instantiate the library's theorems for that, whose argument is a predicate,
so `Lists` proves them once for *sets* of places (`Induction`, `PlaceInduction`)
and for functions that are given step by step (`Recursion`).  A definition by
recursion over 1..n is then shown to satisfy its own equation before anything is
said of its values (`JoinedStepByStep`, `ScaledStepByStep`, `RunGoes` and alike).

The modules name what the proofs assume of the constants.  Beyond what is said
above: the confidences, costs and dates of replies and documents are numbers, and
some reply is the dearest (`Trial`); the records have numbers below a million, a
confidence of at most 100 and a list of questions, and general knowledge is a draft
of a model, as it is by every builder of the tools (`Publishing`); the scales are
listed once each, with a factor (`Guard`); texts are made of tokens (`Answer`); a
sheet has the cells of a row in the order of their columns, as the format demands,
and what a terminal prints under the trades is typed neither as a trade nor as a
balance (`Media`).
One assumption is arithmetic: `PowersAssumption` says that the powers of two up to
the number of retries are natural numbers, which the provers do not know.

Left to TLC: liveness (`EverySettles`, `EveryJobRests`, `CallEnds`), which needs
`ENABLED`; the violations of section 5, which are counterexamples; and
`SeededBaseIsSound`, a statement about the one base that is there, in which there
is nothing to generalise.  Every other invariant and action property of the runs
is a theorem.


## 5. Where code and documents disagree

Each is a run that fails, with a statement of the documents or of a comment as its
property.

1. `outbox_lost_approval`: a crash between the approval and the creation of the
   row leaves an approved draft that nothing ever sends (ADR-030, lines 957-959).
2. `drafts_race`: a press of approve that loaded the draft before a rejection
   overwrites the rejection, and the answer goes out (`drafts.py:61-63`).
3. `panel_audit`: a conversation has been shown and the commit that holds its audit
   row fails, since the code after the `yield` of a request's dependency runs when
   the response has been sent (`web/app.py:38-50`, `fastapi==0.141.1` in
   `requirements.lock:293`); the comment at `web/app.py:41-42` says that no way is
   left on which a read loses its record.
4. `conversation_off`: a conversation that is switched off, with status
   `awaiting_mentor`, is answered through `maybe_resume`, which looks at the status
   only (`conversation.py:44`, ADR-008).
5. `inbound_memory`: `_resolve_conversation` (`telegram/store.py:79`) takes the
   student of whoever wrote first.  In a chat that the mentor opens this is the
   student made for the mentor himself, the same one in each such chat, and the
   facts extracted from all of them are recalled in all of them.  ADR-027 (lines
   835-836) says that memory belongs to the student, and docs/ARCHITECTURE.md:100
   that an identity belongs to one.
6. `voice_rules`: the fixed rules look at the text of a message before the text of
   its voice is known, so that a spoken complaint goes to the model
   (docs/MEDIA.md:54, ADR-023).
7. `conversation_resolve`: the panel's resolve reads the conversation, closes every
   escalation that is open when its update runs, and gives the assistant back only
   if the status that it read says so.  A hand-over that a worker commits in between
   loses its escalation and stays handed over: it is on no list and the assistant
   keeps silent (`web/app.py:336-346`, `escalation.py:163, 175-176`).

Others were met and have no run of their own.

*Sending.*

* `retry_later` updates by id, whatever the status.  A push slower than
  `STALE_AFTER` that is then refused puts back to `pending` a row that the sweep
  had abandoned, where ADR-030 (lines 944-946) says that a row left in `sending`
  never returns to `pending`.  No part is sent twice by it, as `outbox_safety` and
  `NeverTwice` show; but an abandonment that may have been reported is taken back.
* What the mentor types between `get_drafts` and `set_message`
  (`telegram/chat_draft.py:63` and 72) is overwritten; ADR-036, line 1264, says it
  never is.  `ChatDrafts` reaches it by `Look`, `Type`, `Write`.
* A read mark stays on a message whose answer is never sent, when the send after
  `mark_read` is refused until the attempts are used up (`telegram/sender.py:168`).
* A new proposal, or a draft after a crash, may have no card that shows it
  (`control/bot.py:434`, `worker.py:183`); an abandoned answer is handed to nobody
  (`delivery.py:274`).
* A worker that is started again within ten minutes, or is never idle, does not
  sweep: a row left in `sending` and a job left in `processing` stay so
  (`worker.py:420, 435`), the premise `calm` of the liveness properties.
* A second, shorter flood wait overwrites a longer one (`telegram/safety.py:105`),
  and a push that is under way does not know of it: the exceptions in `hurt`.

*Deciding.*

* `maybe_resume` brings the assistant back for a question queued before the
  hand-over (`worker.py:136`); ADR-037 (docs/ARCHITECTURE_DECISIONS.md:1321) says
  it cannot.  `Conversation` has it.
* The guard accepts a sum put together from several terms if its total is official
  (`ai/guard.py:131`), which is why `OnlyOfficialSums` asks for one term.
* Descriptions of pictures are recorded and never checked against the cap
  (`telegram/gateway.py:343`); a request that is sent again
  may have been billed (`ai/openai_client.py:153`, and out of the code's sight by the
  library of `ai/client.py:153`).
* A job that was released after its last attempt is tried once more
  (`jobs/queue.py:118`), which `AttemptsAreAccounted` bounds.
* Extractions that overlap leave a value each in a single-valued category
  (`memory/store.py:22`), which `FewValues` bounds.

*Around.*

* A search whose two statements straddle an import may bring a document twice, in
  two versions (`knowledge/retrieval.py:153`): the premise of `HitsAreCurrent`.
* `parse_number` takes "1.500" for one and a half and gives up on "1.234.567"
  (`media/numbers.py`); the model writes amounts as the terminals do.
* The file of questions may hold one id twice, since only the question is compared
  (`model_compare.py`), and their marks are then one: the premise of
  `AdviceIsSafe`.
* For 30 phrasings the exported evaluations expect the record that yielded the
  question, not the one that owns it (`tools/kb_export_core.py:403`).
  `Publishing!EvalExpectsTheOwner` states it.
* An edited draft that has been sent counts as approved without an edit, because
  `mark_sent` overwrites the status from which `web/queries.py:130` reads it
  (`drafts.py:82-86`, `queries.py:48-54`).
* Going back from revision 0014 deletes the financial records that its comment says
  must forbid the way back (lines 33-36 of the migration).
* A trade whose profit and fees cancel out may, as a sum of floating-point numbers,
  be a loss or a gain of less than a millionth of a cent, and is then counted among
  them (`media/statement.py:354-355`); the model's amounts are exact.
* `next_version` of `tools/kb_lib.py` stops counting at v1000.
* The CHECK of `ModelUsage` in `db/models.py` lacks the purpose
  `instruction_expansion` that migration 0014 allows.


## 6. Abstractions, and what is not modelled

### 6.1 Abstractions that matter

* *Text* is a part number, a revision, a set of marks, a sequence of tokens, or one
  of "empty, own, proposal, edited".  `split_messages` is the constant `Parts`.
  Similarity of two texts is whether one was made from the other; two proposals are
  different texts.  Whether two phrasings are one question is decided by their
  normal form, which is a value.
* *Time* is a flag that time sets (`due`, `aged`, `flood`, `mentorWord`), or a
  counter where durations are compared (`Gate`, `Panel`, `Knowledge`, `Spending`).
* *Order*: a worker may claim any due job or row, where the code takes the oldest.
  This allows more behaviours; the liveness properties hold all the same.
* *PostgreSQL*: transactions are atomic at their commit, with the row locks as
  described in 2.  Serialization failures do not exist under READ COMMITTED;
  deadlock errors and lost connections are `RecordFails`, `Rollback`, `Fails`.
* *ChatDrafts*: two equal messages in flight are one.  The second would find the
  draft decided and be an ordinary message.
* *Inbound*: messages have no numbers, and documents and voices no cost; a picture
  stands for whatever a model reads.  The count of `should_extract` is read at the
  insert of its own message, which gives the same results as reading it later in
  the same transaction.  In a transaction that rolls back all is lost, so where it
  fails does not matter.
* *Conversation*: one gateway call per question, jobs without stale locks (those
  are in `Jobs`), no status `closed`, which nothing sets.
* *Money* is in micro-dollars, and a price times a number of tokens is not rounded.
  Amounts of a statement are whole cents; the code adds them as floating-point
  numbers.  Their error is in the model where a rounding is a tie (`ties` in
  `Media`), and not where a sum should be nothing (section 5).
* *Panel*: a request's answer and the commit after it are two steps here.  In
  `Conversation` a request of the panel ends with its commit; when its answer left
  matters only to who reads it.
* *Knowledge*: a document is one chunk; those longer than 700 characters, a few of
  the exported ones, are cut by the code into several.

### 6.2 Partly modelled

Inbound: edits of a message are not handled by the code; message numbers and the
rows of attachments are left out.  Control bot: `/pending`, `/status`, who is an
operator and the texts.  Decision: the word lists are marks; prompts and the
wording of the expanded instruction are left out.  Knowledge: which documents
match, the cutting of long texts, the metrics of `evaluate`.  Media: limits of
archives, HTML tables, plans; pictures and voices are outcomes.  Panel: failed
log-ins, lists, pages without a state.  Command line and session: what they change
in a modelled table is an action; set-up, settings and encryption are not.
Comparison of models: the statistics of the report and `model_check`.  Tools:
`kb_ui_claims.py`, rendering to Markdown and the wording of rows; the texts of the
records.

### 6.3 Not modelled

Health and heart-beat (reads only, but for one row that is overwritten).  Text and
calendar functions on characters.  The transcriber, a stateless service.  The
legacy site and the files under `exports` and `knowledge_base`, which are products
of the tools.


## 7. What is left

In order of importance:

1. The composition of `Outbox` and `Conversation`: read marks that cover no
   unanswered question (`last_answered_message_id`), the order of answers
   (`telegram/sender.py:216`), an abandoned answer, and what then becomes of the
   student (`delivery.py:274`).
2. Abstract specifications of the drafts (one text, seen by the mentor, at most
   once) and of the account gate, which `Drafts` and `Gate` should implement.
3. Cases of `cli.py` and `web/app.py` that change one row at a time.
