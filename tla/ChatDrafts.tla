----------------------------- MODULE ChatDrafts -----------------------------
(***************************************************************************)
(* Drafts in the writing box of the student's chat (ADR-036): drafts.py    *)
(* create, withdraw and resolve_from_chat, chat_draft.py, the worker that  *)
(* calls them and gateway.persist for the messages the mentor sends.       *)
(*                                                                         *)
(* One conversation, one worker (cli.py starts worker-1 alone).  The mentor*)
(* types into the same box and sends from it while the worker reads it and *)
(* writes to it; what the mentor sent reaches persist later, in any order, *)
(* or never.  Proposals are pairwise different texts, and only a text the  *)
(* mentor made of a proposal is similar to it.                             *)
(***************************************************************************)
EXTENDS Naturals, FiniteSets, FiniteSetsExt

CONSTANTS MaxDrafts,     \* bound: drafts of the conversation
          MaxInFlight,   \* bound: messages of the mentor not yet stored
          OurRecent      \* _OUR_RECENT

ASSUME BoundsAssumption ==
  /\ MaxDrafts \in Nat
  /\ MaxInFlight \in Nat
  /\ OurRecent \in Nat \ {0}

VARIABLES draftStatus,  \* table drafts; the drafts are numbered as they are made
          newest,   \* number of the last one
          holder,   \* who answers: "assistant" (conversation active) or "mentor"
          worker,   \* where the worker is, always about the newest draft
          box,      \* Telegram: the text in the writing box
          chat      \* sent by the mentor, not yet stored

chatVars == <<draftStatus, newest, holder, worker, box, chat>>

Drafts == 1..MaxDrafts

Empty       == [form |-> "empty", of |-> 0]
OwnWords    == [form |-> "own", of |-> 0]         \* the mentor's own words
Proposal(d) == [form |-> "proposal", of |-> d]
Edited(d)   == [form |-> "edited", of |-> d]      \* made of it, still similar

BoxTexts == {Empty, OwnWords} \union {Proposal(d) : d \in Drafts} \union {Edited(d) : d \in Drafts}

Decided == {"approved", "edited", "withdrawn"}

ChatTypeOK ==
  /\ draftStatus \in [Drafts -> {"none", "pending"} \union Decided]
  /\ newest \in 0..MaxDrafts
  /\ holder \in {"assistant", "mentor"}
  /\ worker \in {"idle", "answering", "created", "checked", "writing", "withdrawing"}
  /\ box \in BoxTexts
  /\ chat \subseteq [text : BoxTexts \ {Empty}, after : 0..MaxDrafts]

ChatInit ==
  /\ draftStatus = [d \in Drafts |-> "none"]
  /\ newest = 0
  /\ holder = "assistant"
  /\ worker = "idle"
  /\ box = Empty
  /\ chat = {}

-----------------------------------------------------------------------------
(* drafts.py.                                                              *)

Pending == {d \in Drafts : draftStatus[d] = "pending"}

\* Fault: the status is not looked at again under the lock.
WithdrawnAnyway(gone) == [d \in Drafts |-> IF d \in gone THEN "withdrawn" ELSE draftStatus[d]]

\* withdraw, for each of `gone`: only what is still pending.
Withdrawn(gone) ==
  [d \in Drafts |-> IF d \in gone \intersect Pending THEN "withdrawn" ELSE draftStatus[d]]

\* classify_sent.
Classify(d, text) ==
  CASE text = Proposal(d) -> "approved"
    [] text = Edited(d)   -> "edited"
    [] OTHER              -> "withdrawn"

-----------------------------------------------------------------------------
(* The worker.                                                             *)

\* A question is taken up while the conversation is the assistant's.
BeginDraft ==
  /\ worker = "idle"
  /\ holder = "assistant"
  /\ newest < MaxDrafts
  /\ worker' = "answering"
  /\ UNCHANGED <<draftStatus, newest, holder, box, chat>>

\* Silence, which may hand the conversation over, or a rollback.
StaySilent ==
  /\ worker = "answering"
  /\ worker' = "idle"
  /\ holder' \in {holder, "mentor"}
  /\ UNCHANGED <<draftStatus, newest, box, chat>>

\* Fault: the unanswered draft stays open beside the new one.
CreateBeside ==
  /\ worker = "answering"
  /\ newest' = newest + 1
  /\ draftStatus' = [draftStatus EXCEPT ![newest + 1] = "pending"]
  /\ worker' = "created"
  /\ UNCHANGED <<holder, box, chat>>

\* create: a new draft, and the unanswered one is withdrawn with it.
CreateDraft ==
  /\ worker = "answering"
  /\ newest' = newest + 1
  /\ draftStatus' = [Withdrawn(Drafts) EXCEPT ![newest + 1] = "pending"]
  /\ worker' = "created"
  /\ UNCHANGED <<holder, box, chat>>

\* notify, its first transaction: is the draft still open?
CheckDraft ==
  /\ worker = "created"
  /\ worker' = IF draftStatus[newest] = "pending" THEN "checked" ELSE "idle"
  /\ UNCHANGED <<draftStatus, newest, holder, box, chat>>

\* The account has no client.
NoClient ==
  /\ worker = "created"
  /\ worker' = "withdrawing"
  /\ UNCHANGED <<draftStatus, newest, holder, box, chat>>

\* _our_recent_texts.
Recent == {Proposal(d) : d \in {e \in 1..newest : e + OurRecent > newest}}

\* get_drafts: a text that is not ours is left alone.
Look ==
  /\ worker = "checked"
  /\ worker' = IF box = Empty \/ box \in Recent THEN "writing" ELSE "withdrawing"
  /\ UNCHANGED <<draftStatus, newest, holder, box, chat>>

\* set_message, over whatever the box holds by now.
Write ==
  /\ worker = "writing"
  /\ box' = Proposal(newest)
  /\ worker' = "idle"
  /\ UNCHANGED <<draftStatus, newest, holder, chat>>

\* FloodWaitError, RPCError, ValueError.  An error of Telegram's server may
\* come after the text is in the box.
RefuseDraft ==
  /\ worker \in {"checked", "writing"}
  /\ worker' = "withdrawing"
  /\ \/ UNCHANGED box
     \/ worker = "writing" /\ box' = Proposal(newest)
  /\ UNCHANGED <<draftStatus, newest, holder, chat>>

\* Withdraw is a transaction of its own, and looks at the draft again.
Withdraw ==
  /\ worker = "withdrawing"
  /\ draftStatus' = Withdrawn({newest})
  /\ worker' = "idle"
  /\ UNCHANGED <<newest, holder, box, chat>>

\* Another exception, which notify_draft swallows, or the end of the process.
Escape ==
  /\ worker \in {"created", "checked", "writing", "withdrawing"}
  /\ worker' = "idle"
  /\ UNCHANGED <<draftStatus, newest, holder, box, chat>>

-----------------------------------------------------------------------------
(* The mentor at his own Telegram.                                         *)

Type ==
  /\ box' \in {OwnWords, Empty} \union {Edited(d) : d \in {e \in Drafts : box = Proposal(e)}}
  /\ UNCHANGED <<draftStatus, newest, holder, worker, chat>>

\* The message leaves the box; it knows the drafts made so far (sent_at).
Send ==
  /\ box # Empty
  /\ Cardinality(chat) < MaxInFlight
  /\ chat' = chat \union {[text |-> box, after |-> newest]}
  /\ box' = Empty
  /\ UNCHANGED <<draftStatus, newest, holder, worker>>

-----------------------------------------------------------------------------
(* gateway.persist, for a message of the mentor.                           *)

\* Fault: the comparison with the time of the draft the other way round.
MayPrecedeReversed(m, d) == d <= m.after

\* sent_at < created_at - CLOCK_SKEW: never for a draft the message knows of,
\* and for a later one as the clocks have it.
MayPrecede(m, d) == d > m.after

\* An ordinary message: on_mentor_message.
TakeOver(m) ==
  /\ \/ Pending = {}
     \/ Pending # {} /\ MayPrecede(m, Max(Pending))
  /\ holder' = "mentor"
  /\ UNCHANGED draftStatus

\* resolve_from_chat: it is the decision about the newest open draft.
Resolve(m) ==
  /\ Pending # {}
  /\ LET d == Max(Pending) IN
       /\ draftStatus' = [Withdrawn(Drafts) EXCEPT ![d] = Classify(d, m.text)]
       /\ holder' = IF draftStatus'[d] = "withdrawn" THEN "mentor" ELSE holder

Persist(m) ==
  /\ TakeOver(m) \/ Resolve(m)
  /\ chat' = chat \ {m}
  /\ UNCHANGED <<newest, worker, box>>

\* The handler fails or the process ends: the message is never stored.
Lose(m) ==
  /\ chat' = chat \ {m}
  /\ UNCHANGED <<draftStatus, newest, holder, worker, box>>

\* /resume.
Resume ==
  /\ holder = "mentor"
  /\ holder' = "assistant"
  /\ UNCHANGED <<draftStatus, newest, worker, box, chat>>

-----------------------------------------------------------------------------
ChatNext ==
  \/ BeginDraft \/ StaySilent \/ CreateDraft
  \/ CheckDraft \/ NoClient \/ Look \/ Write \/ RefuseDraft \/ Withdraw \/ Escape
  \/ Type \/ Send
  \/ \E m \in chat : Persist(m) \/ Lose(m)
  \/ Resume

ChatSpec == ChatInit /\ [][ChatNext]_chatVars

-----------------------------------------------------------------------------
(* Properties.                                                             *)

\* "So that at no moment two drafts stay open" (drafts.py 46-47): the message
\* the mentor sends decides one draft, and it is clear which.
OneOpenDraft == \A d, e \in Drafts : {draftStatus[d], draftStatus[e]} = {"pending"} => d = e

\* A decision about a draft is never taken back, whoever comes late: the worker
\* withdrawing after a failure, a newer draft, or an older message of the mentor.
DecisionStands ==
  [][\A d \in Drafts : draftStatus[d] \in Decided => draftStatus'[d] = draftStatus[d]]_chatVars

\* Sending the open proposal as it is approves it and leaves the conversation
\* with the assistant (docs/ARCHITECTURE_DECISIONS.md 1253), whatever was made,
\* withdrawn or delivered before it.
ProposalKeepsAssistant ==
  [][\A m \in chat, d \in Drafts :
       Persist(m) /\ draftStatus[d] = "pending" /\ m.text = Proposal(d)
         => draftStatus'[d] = "approved" /\ holder' = holder]_chatVars
=============================================================================
