------------------------------- MODULE Drafts -------------------------------
(***************************************************************************)
(* Drafts decided in the control bot: drafts.py, the handlers of           *)
(* control/bot.py, worker.notify_draft and worker.queue_approved_draft.    *)
(*                                                                         *)
(* Handlers of the bot are tasks of one event loop and interleave at every *)
(* await.  A decision reads the draft, then locks its row (drafts._claim); *)
(* the SELECT FOR UPDATE waits for the other transaction but does not      *)
(* refresh an object that the session has loaded before.  So a handler     *)
(* that still refers to the loaded object decides on what it saw before    *)
(* the lock: approve (current) and edit (draft) do; reject, withdraw and   *)
(* repropose load the draft under the lock.                                *)
(*                                                                         *)
(* A proposed text is identified by its revision.                          *)
(***************************************************************************)
EXTENDS Naturals

CONSTANTS AllDrafts,
          Handlers,      \* concurrent handlers of the bot
          NoDraft,       \* what an idle handler is about
          NoText, Own,   \* no text; a text the mentor wrote himself
          MaxRevision    \* bound on the instructions given for a draft

ASSUME ConstantsAssumption ==
  /\ NoDraft \notin AllDrafts
  /\ NoText \notin Nat /\ Own \notin Nat /\ Own # NoText
  /\ MaxRevision \in Nat

VARIABLES
  (* table drafts *)
  status,          \* "absent" until the row exists
  revision,
  final,           \* final_text
  linked,          \* control_message_id is set
  (* table deliveries, one row per draft *)
  body,
  settled,         \* the push of the row is over
  (* the chat with the mentor *)
  cards,           \* revisions shown with an approve button
  (* the process *)
  connected,       \* the account has a channel
  notice,          \* notify_draft of the worker: "due", "shown", "over"
  pc, about, sawStatus, sawRevision

table   == <<status, revision, final, linked>>
row     == <<body, settled>>
handler == <<pc, about, sawStatus, sawRevision>>
vars    == <<table, row, cards, connected, notice, handler>>

Statuses == {"absent", "pending", "approved", "edited", "rejected", "sent", "failed"}
Stages   == {"idle", "approving", "editing", "decided", "expanding", "expanded", "reproposed"}
Texts    == Nat \union {NoText, Own}

TypeOK ==
  /\ status \in [AllDrafts -> Statuses]
  /\ revision \in [AllDrafts -> Nat]
  /\ final \in [AllDrafts -> Texts]
  /\ linked \in [AllDrafts -> BOOLEAN]
  /\ body \in [AllDrafts -> Texts]
  /\ settled \in [AllDrafts -> BOOLEAN]
  /\ cards \in [AllDrafts -> SUBSET Nat]
  /\ connected \in BOOLEAN
  /\ notice \in [AllDrafts -> {"due", "shown", "over"}]
  /\ pc \in [Handlers -> Stages]
  /\ about \in [Handlers -> AllDrafts \union {NoDraft}]
  /\ sawStatus \in [Handlers -> Statuses]
  /\ sawRevision \in [Handlers -> Nat]

Init ==
  /\ status = [d \in AllDrafts |-> "absent"]
  /\ revision = [d \in AllDrafts |-> 0]
  /\ final = [d \in AllDrafts |-> NoText]
  /\ linked = [d \in AllDrafts |-> FALSE]
  /\ body = [d \in AllDrafts |-> NoText]
  /\ settled = [d \in AllDrafts |-> FALSE]
  /\ cards = [d \in AllDrafts |-> {}]
  /\ connected \in BOOLEAN
  /\ notice = [d \in AllDrafts |-> "due"]
  /\ pc = [h \in Handlers |-> "idle"]
  /\ about = [h \in Handlers |-> NoDraft]
  /\ sawStatus = [h \in Handlers |-> "absent"]
  /\ sawRevision = [h \in Handlers |-> 0]

-----------------------------------------------------------------------------
(* Handlers.                                                               *)

\* The handler returns and its session is gone.
Release(h) ==
  /\ pc' = [pc EXCEPT ![h] = "idle"]
  /\ about' = [about EXCEPT ![h] = NoDraft]
  /\ sawStatus' = [sawStatus EXCEPT ![h] = "absent"]
  /\ sawRevision' = [sawRevision EXCEPT ![h] = 0]

Goto(h, stage) ==
  /\ pc' = [pc EXCEPT ![h] = stage]
  /\ UNCHANGED <<about, sawStatus, sawRevision>>

\* The session of the handler loads the draft and keeps it.
Load(h, d, stage) ==
  /\ pc[h] = "idle"
  /\ pc' = [pc EXCEPT ![h] = stage]
  /\ about' = [about EXCEPT ![h] = d]
  /\ sawStatus' = [sawStatus EXCEPT ![h] = status[d]]
  /\ sawRevision' = [sawRevision EXCEPT ![h] = revision[d]]

-----------------------------------------------------------------------------
(* The worker: a new draft and its card.                                   *)

\* drafts.create, committed with the job.
Create(d) ==
  /\ status[d] = "absent"
  /\ status' = [status EXCEPT ![d] = "pending"]
  /\ UNCHANGED <<revision, final, linked, row, cards, connected, notice, handler>>

\* notify_draft sends the card, or fails (no chat linked, Telegram refuses).
Notify(d) ==
  /\ status[d] # "absent"
  /\ notice[d] = "due"
  /\ \/ /\ cards' = [cards EXCEPT ![d] = @ \union {revision[d]}]
        /\ notice' = [notice EXCEPT ![d] = "shown"]
     \/ /\ notice' = [notice EXCEPT ![d] = "over"]
        /\ UNCHANGED cards
  /\ UNCHANGED <<table, row, connected, handler>>

\* Its second transaction remembers the message, so that replies find the draft.
Link(d) ==
  /\ notice[d] = "shown"
  /\ linked' = [linked EXCEPT ![d] = TRUE]
  /\ notice' = [notice EXCEPT ![d] = "over"]
  /\ UNCHANGED <<status, revision, final, row, cards, connected, handler>>

-----------------------------------------------------------------------------
(* The buttons of a card: _on_callback.                                    *)

\* Fault: the button carries no revision.
PressApproveOfAny(h, d) ==
  /\ cards[d] # {}
  /\ Load(h, d, "approving")
  /\ UNCHANGED <<table, row, cards, connected, notice>>

\* Approve: an old card is refused at once; else `current` stays loaded.
PressApprove(h, d) ==
  /\ revision[d] \in cards[d]
  /\ Load(h, d, "approving")
  /\ UNCHANGED <<table, row, cards, connected, notice>>

\* drafts.approve under the lock, with the status and the text loaded before.
Approve(h) ==
  LET d == about[h] IN
  /\ pc[h] = "approving"
  /\ sawStatus[h] = "pending"
  /\ status' = [status EXCEPT ![d] = "approved"]
  /\ final' = [final EXCEPT ![d] = sawRevision[h]]
  /\ Goto(h, "decided")
  /\ UNCHANGED <<revision, linked, row, cards, connected, notice>>

\* Reject, from any card: the draft is loaded under the lock.
PressReject(d) ==
  /\ cards[d] # {}
  /\ status[d] = "pending"
  /\ status' = [status EXCEPT ![d] = "rejected"]
  /\ UNCHANGED <<revision, final, linked, row, cards, connected, notice, handler>>

\* DraftNotPending: somebody has decided before.
Refuse(h) ==
  /\ pc[h] \in {"approving", "editing"}
  /\ sawStatus[h] # "pending"
  /\ Release(h)
  /\ UNCHANGED <<table, row, cards, connected, notice>>

-----------------------------------------------------------------------------
(* A reply to the card: _on_reply and _expand_instruction.                 *)

\* A plain reply is the text to send; `draft` stays loaded.
ReplyText(h, d) ==
  /\ linked[d]
  /\ Load(h, d, "editing")
  /\ UNCHANGED <<table, row, cards, connected, notice>>

\* Fault: the text is stored, the decision is not.
EditUndecided(h) ==
  LET d == about[h] IN
  /\ pc[h] = "editing"
  /\ sawStatus[h] = "pending"
  /\ final' = [final EXCEPT ![d] = Own]
  /\ Goto(h, "decided")
  /\ UNCHANGED <<status, revision, linked, row, cards, connected, notice>>

\* drafts.edit under the lock, with the status loaded before.
Edit(h) ==
  LET d == about[h] IN
  /\ pc[h] = "editing"
  /\ sawStatus[h] = "pending"
  /\ status' = [status EXCEPT ![d] = "edited"]
  /\ final' = [final EXCEPT ![d] = Own]
  /\ Goto(h, "decided")
  /\ UNCHANGED <<revision, linked, row, cards, connected, notice>>

\* A reply with the prefix is an instruction.  Only the id of the draft is kept
\* for the call of the model; its status is not looked at.
ReplyInstruction(h, d) ==
  /\ linked[d]
  /\ pc[h] = "idle"
  /\ pc' = [pc EXCEPT ![h] = "expanding"]
  /\ about' = [about EXCEPT ![h] = d]
  /\ UNCHANGED <<table, row, cards, connected, notice, sawStatus, sawRevision>>

\* The model writes a text, or none that may be shown (budget, error, guard).
Expand(h) ==
  /\ pc[h] = "expanding"
  /\ Goto(h, "expanded") \/ Release(h)
  /\ UNCHANGED <<table, row, cards, connected, notice>>

\* drafts.repropose in a session of its own: refused when the draft was decided
\* in the meantime.  At most MaxRevision times.
Repropose(h) ==
  LET d == about[h] IN
  /\ pc[h] = "expanded"
  /\ \/ /\ status[d] = "pending"
        /\ revision[d] < MaxRevision
        /\ revision' = [revision EXCEPT ![d] = @ + 1]
        /\ sawRevision' = [sawRevision EXCEPT ![h] = revision[d] + 1]
        /\ pc' = [pc EXCEPT ![h] = "reproposed"]
        /\ UNCHANGED <<about, sawStatus>>
     \/ /\ status[d] # "pending"
        /\ Release(h)
        /\ UNCHANGED revision
  /\ UNCHANGED <<status, final, linked, row, cards, connected, notice>>

\* The new text is shown with its own buttons, or Telegram refuses the message.
ShowCard(h) ==
  /\ pc[h] = "reproposed"
  /\ \/ cards' = [cards EXCEPT ![about[h]] = @ \union {sawRevision[h]}]
     \/ UNCHANGED cards
  /\ Release(h)
  /\ UNCHANGED <<table, row, connected, notice>>

-----------------------------------------------------------------------------
(* Sending a decided draft.                                                *)

\* delivery.enqueue: on conflict do nothing.
Enqueue(d) ==
  body' = [body EXCEPT ![d] = IF @ = NoText THEN final[d] ELSE @]

\* send_draft_now, first transaction (queue_approved_draft).
QueueDraft(h) ==
  LET d == about[h] IN
  /\ pc[h] = "decided"
  /\ \/ /\ connected
        /\ Enqueue(d)
        /\ UNCHANGED status
     \/ /\ ~ connected
        /\ status' = [status EXCEPT ![d] = "failed"]
        /\ UNCHANGED body
  /\ Release(h)
  /\ UNCHANGED <<revision, final, linked, settled, cards, connected, notice>>

\* The push ends (see Outbox): the draft follows the row, or is left alone when
\* the attempts are used up.
Settle(d) ==
  /\ body[d] # NoText
  /\ ~ settled[d]
  /\ settled' = [settled EXCEPT ![d] = TRUE]
  /\ \/ status[d] \in {"sent", "failed"} /\ UNCHANGED status
     \/ status[d] \notin {"sent", "failed"}
        /\ \E verdict \in {status[d], "sent", "failed"} :
             status' = [status EXCEPT ![d] = verdict]
  /\ UNCHANGED <<revision, final, linked, body, cards, connected, notice, handler>>

\* The process dies and is started again.
Crash ==
  /\ connected' \in BOOLEAN
  /\ notice' = [d \in AllDrafts |-> IF status[d] = "absent" THEN "due" ELSE "over"]
  /\ pc' = [h \in Handlers |-> "idle"]
  /\ about' = [h \in Handlers |-> NoDraft]
  /\ sawStatus' = [h \in Handlers |-> "absent"]
  /\ sawRevision' = [h \in Handlers |-> 0]
  /\ UNCHANGED <<table, row, cards>>

-----------------------------------------------------------------------------
Next ==
  \/ \E d \in AllDrafts : Create(d) \/ Notify(d) \/ Link(d) \/ PressReject(d) \/ Settle(d)
  \/ \E h \in Handlers, d \in AllDrafts :
       PressApprove(h, d) \/ ReplyText(h, d) \/ ReplyInstruction(h, d)
  \/ \E h \in Handlers :
       \/ Approve(h) \/ Edit(h) \/ Refuse(h)
       \/ Expand(h) \/ Repropose(h) \/ ShowCard(h) \/ QueueDraft(h)
  \/ Crash

Spec == Init /\ [][Next]_vars

-----------------------------------------------------------------------------
(* Properties.                                                             *)

\* What is sent was seen: the text of a decision, and the text of the delivery,
\* is the mentor's own or stood on a card with an approve button, although the
\* proposal may change between the card, the press and the lock
\* (drafts.py 117-119, control/bot.py 315-318).
OnlySeenTextIsSent ==
  \A d \in AllDrafts :
    /\ final[d] \in {NoText, Own} \union cards[d]
    /\ body[d] \in {NoText, Own} \union cards[d]

\* Nothing is queued for the student while the mentor has not decided.
UndecidedIsNotSent ==
  \A d \in AllDrafts : body[d] # NoText => status[d] \notin {"absent", "pending"}

\* "Lock the draft so that two decisions on it at once are not possible"
\* (drafts.py 61).
DecidedOnce ==
  [][\A d \in AllDrafts :
       status[d] \in {"approved", "edited", "rejected"} =>
         status'[d] \in {status[d], "sent", "failed"} /\ final'[d] = final[d]]_vars
=============================================================================
