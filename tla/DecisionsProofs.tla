--------------------------- MODULE DecisionsProofs ---------------------------
(***************************************************************************)
(* Proofs about the decisions that are taken about a message: the cards of *)
(* the control bot (Drafts), for any drafts, any number of concurrent      *)
(* handlers and of instructions, the writing box of a chat (ChatDrafts),   *)
(* for any number of drafts, of messages in flight and of recent texts,    *)
(* and the answer of the model with its guard (Answer), for any texts,     *)
(* sources, scales, units, prices and caps.                                *)
(***************************************************************************)
EXTENDS Drafts, ChatDrafts, Answer, Lists, SequenceTheorems

------------------------------------------------------------------------------
(* Drafts                                                                  *)


\* A busy handler is about a draft; one that approves has seen a shown revision,
\* one that has decided has left its mark on the status.
HandlerOf(h) ==
  /\ pc[h] # "idle" => about[h] \in AllDrafts
  /\ pc[h] = "approving" => sawRevision[h] \in cards[about[h]]
  /\ pc[h] = "decided" => status[about[h]] \notin {"absent", "pending"}

\* The inductive invariant.
DraftsInv ==
  /\ TypeOK
  /\ OnlySeenTextIsSent
  /\ UndecidedIsNotSent
  /\ \A h \in Handlers : HandlerOf(h)

-----------------------------------------------------------------------------
\* A step that forgets no card and takes no decision back keeps what the
\* handlers that it does not touch know.
LEMMA OthersKeep ==
  ASSUME DraftsInv, NEW g \in Handlers,
         pc'[g] = pc[g], about'[g] = about[g], sawRevision'[g] = sawRevision[g],
         \A d \in AllDrafts : cards[d] \subseteq cards'[d],
         \A d \in AllDrafts :
           status[d] \notin {"absent", "pending"} => status'[d] \notin {"absent", "pending"}
  PROVE  HandlerOf(g)'
BY DEF DraftsInv, HandlerOf

\* The same for the texts, when neither text changes.
LEMMA TextsKeep ==
  ASSUME DraftsInv, final' = final, body' = body,
         \A d \in AllDrafts : cards[d] \subseteq cards'[d],
         \A d \in AllDrafts :
           status[d] \notin {"absent", "pending"} => status'[d] \notin {"absent", "pending"}
  PROVE  OnlySeenTextIsSent' /\ UndecidedIsNotSent'
<1>1. OnlySeenTextIsSent'
  BY DEF DraftsInv, OnlySeenTextIsSent
<1>2. UndecidedIsNotSent'
  BY DEF DraftsInv, UndecidedIsNotSent
<1>3. QED
  BY <1>1, <1>2

-----------------------------------------------------------------------------
(* One lemma per group of actions.                                         *)

LEMMA InitEstablishes == Init => DraftsInv
<1> SUFFICES ASSUME Init PROVE DraftsInv
  OBVIOUS
<1>1. TypeOK
  BY DEF Init, TypeOK, Statuses, Stages, Texts
<1>2. OnlySeenTextIsSent /\ UndecidedIsNotSent
  BY DEF Init, OnlySeenTextIsSent, UndecidedIsNotSent
<1>3. \A h \in Handlers : HandlerOf(h)
  BY DEF Init, HandlerOf
<1>4. QED
  BY <1>1, <1>2, <1>3 DEF DraftsInv

\* Steps that touch no handler.
LEMMA DraftStep ==
  ASSUME DraftsInv, NEW d \in AllDrafts,
         Create(d) \/ Notify(d) \/ Link(d) \/ PressReject(d) \/ Settle(d)
  PROVE  DraftsInv'
<1> USE DEF Create, Notify, Link, PressReject, Settle, table, row, handler
<1>1. TypeOK'
  <2>1. CASE Create(d) \/ Link(d) \/ PressReject(d)
    BY <2>1 DEF DraftsInv, TypeOK, Statuses
  <2>2. CASE Notify(d)
    BY <2>2 DEF DraftsInv, TypeOK
  <2>3. CASE Settle(d)
    BY <2>3 DEF DraftsInv, TypeOK, Statuses
  <2>4. QED
    BY <2>1, <2>2, <2>3
<1>2. \A c \in AllDrafts : cards[c] \subseteq cards'[c]
  BY DEF DraftsInv, TypeOK
<1>3. ASSUME NEW c \in AllDrafts, status[c] \notin {"absent", "pending"}
      PROVE  status'[c] \notin {"absent", "pending"}
  BY <1>3 DEF DraftsInv, TypeOK
<1>4. OnlySeenTextIsSent' /\ UndecidedIsNotSent'
  BY <1>2, <1>3, TextsKeep
<1>5. \A g \in Handlers : HandlerOf(g)'
  BY <1>2, <1>3, OthersKeep
<1>6. QED
  BY <1>1, <1>4, <1>5 DEF DraftsInv

\* A handler starts.
LEMMA StartStep ==
  ASSUME DraftsInv, NEW h \in Handlers, NEW d \in AllDrafts,
         PressApprove(h, d) \/ ReplyText(h, d) \/ ReplyInstruction(h, d)
  PROVE  DraftsInv'
<1> USE DEF PressApprove, ReplyText, ReplyInstruction, Load, table, row
<1>1. TypeOK'
  <2>1. CASE PressApprove(h, d) \/ ReplyText(h, d)
    BY <2>1 DEF DraftsInv, TypeOK, Stages
  <2>2. CASE ReplyInstruction(h, d)
    BY <2>2 DEF DraftsInv, TypeOK, Stages
  <2>3. QED
    BY <2>1, <2>2
<1>2. OnlySeenTextIsSent' /\ UndecidedIsNotSent'
  BY TextsKeep
<1>3. HandlerOf(h)'
  BY DEF DraftsInv, TypeOK, HandlerOf
<1>4. \A g \in Handlers \ {h} : HandlerOf(g)'
  BY OthersKeep DEF DraftsInv, TypeOK
<1>5. QED
  BY <1>1, <1>2, <1>3, <1>4 DEF DraftsInv

\* A handler decides, on the status and the revision it saw.
LEMMA DecideStep ==
  ASSUME DraftsInv, NEW h \in Handlers, Approve(h) \/ Edit(h)
  PROVE  DraftsInv'
<1> USE DEF Approve, Edit, Goto, row
<1>1. PICK d \in AllDrafts : d = about[h]
  BY DEF DraftsInv, HandlerOf
<1>2. TypeOK'
  <2>1. CASE Approve(h)
    BY <1>1, <2>1 DEF DraftsInv, TypeOK, Statuses, Stages, Texts
  <2>2. CASE Edit(h)
    BY <1>1, <2>2 DEF DraftsInv, TypeOK, Statuses, Stages, Texts
  <2>3. QED
    BY <2>1, <2>2
<1>3. /\ status'[d] \in {"approved", "edited"}
      /\ \A c \in AllDrafts \ {d} : status'[c] = status[c]
  BY <1>1 DEF DraftsInv, TypeOK
<1>4. final'[d] \in {Own} \union cards[d]
  BY <1>1 DEF DraftsInv, TypeOK, HandlerOf
<1>5. OnlySeenTextIsSent'
  BY <1>1, <1>4 DEF DraftsInv, TypeOK, OnlySeenTextIsSent
<1>6. UndecidedIsNotSent'
  BY <1>3 DEF DraftsInv, UndecidedIsNotSent
<1>7. HandlerOf(h)'
  BY <1>1, <1>3 DEF DraftsInv, TypeOK, HandlerOf
<1>8. \A g \in Handlers \ {h} : HandlerOf(g)'
  BY <1>3, OthersKeep DEF DraftsInv, TypeOK
<1>9. QED
  BY <1>2, <1>5, <1>6, <1>7, <1>8 DEF DraftsInv

\* A handler refuses, or works on a proposal.
LEMMA ProposeStep ==
  ASSUME DraftsInv, NEW h \in Handlers,
         Refuse(h) \/ Expand(h) \/ Repropose(h) \/ ShowCard(h)
  PROVE  DraftsInv'
<1> USE DEF Refuse, Expand, Repropose, ShowCard, Release, Goto, table, row
<1>1. TypeOK'
  <2>1. CASE Refuse(h) \/ Expand(h)
    BY <2>1 DEF DraftsInv, TypeOK, Statuses, Stages
  <2>2. CASE Repropose(h)
    <3>1. PICK d \in AllDrafts : d = about[h]
      BY <2>2 DEF DraftsInv, HandlerOf
    <3>2. QED
      BY <2>2, <3>1 DEF DraftsInv, TypeOK, Statuses, Stages
  <2>3. CASE ShowCard(h)
    <3>1. PICK d \in AllDrafts : d = about[h]
      BY <2>3 DEF DraftsInv, HandlerOf
    <3>2. QED
      BY <2>3, <3>1 DEF DraftsInv, TypeOK, Statuses, Stages
  <2>4. QED
    BY <2>1, <2>2, <2>3
<1>2. \A c \in AllDrafts : cards[c] \subseteq cards'[c]
  BY DEF DraftsInv, TypeOK
<1>3. OnlySeenTextIsSent' /\ UndecidedIsNotSent'
  BY <1>2, TextsKeep
<1>4. HandlerOf(h)'
  BY DEF DraftsInv, TypeOK, HandlerOf
<1>5. \A g \in Handlers \ {h} : HandlerOf(g)'
  BY <1>2, OthersKeep DEF DraftsInv, TypeOK
<1>6. QED
  BY <1>1, <1>3, <1>4, <1>5 DEF DraftsInv

\* A decided draft is put into the outbox, with the final text it has now.
LEMMA QueueStep ==
  ASSUME DraftsInv, NEW h \in Handlers, QueueDraft(h)
  PROVE  DraftsInv'
<1> USE DEF QueueDraft, Enqueue, Release
<1>1. PICK d \in AllDrafts : d = about[h]
  BY DEF DraftsInv, HandlerOf
<1>2. TypeOK'
  BY <1>1 DEF DraftsInv, TypeOK, Statuses, Stages
<1>3. ASSUME NEW c \in AllDrafts, status[c] \notin {"absent", "pending"}
      PROVE  status'[c] \notin {"absent", "pending"}
  BY <1>3 DEF DraftsInv, TypeOK
<1>4. status[d] \notin {"absent", "pending"}
  BY <1>1 DEF DraftsInv, HandlerOf
<1>5. OnlySeenTextIsSent'
  BY <1>1 DEF DraftsInv, TypeOK, OnlySeenTextIsSent
<1>6. ASSUME NEW c \in AllDrafts, body'[c] # NoText
      PROVE  status'[c] \notin {"absent", "pending"}
  BY <1>1, <1>3, <1>4, <1>6 DEF DraftsInv, TypeOK, UndecidedIsNotSent
<1>7. HandlerOf(h)'
  BY DEF DraftsInv, TypeOK, HandlerOf
<1>8. \A g \in Handlers \ {h} : HandlerOf(g)'
  BY <1>3, OthersKeep DEF DraftsInv, TypeOK
<1>9. QED
  BY <1>2, <1>5, <1>6, <1>7, <1>8 DEF DraftsInv, UndecidedIsNotSent

LEMMA CrashStep ==
  ASSUME DraftsInv, Crash
  PROVE  DraftsInv'
<1> USE DEF Crash, table, row
<1>1. TypeOK'
  BY DEF DraftsInv, TypeOK, Statuses, Stages
<1>2. OnlySeenTextIsSent' /\ UndecidedIsNotSent'
  BY TextsKeep
<1>3. \A g \in Handlers : HandlerOf(g)'
  BY DEF HandlerOf
<1>4. QED
  BY <1>1, <1>2, <1>3 DEF DraftsInv

LEMMA StutterStep ==
  ASSUME DraftsInv, UNCHANGED vars
  PROVE  DraftsInv'
<1> USE DEF vars, table, row, handler
<1>1. TypeOK'
  BY DEF DraftsInv, TypeOK
<1>2. OnlySeenTextIsSent' /\ UndecidedIsNotSent'
  BY TextsKeep
<1>3. \A g \in Handlers : HandlerOf(g)'
  BY OthersKeep
<1>4. QED
  BY <1>1, <1>2, <1>3 DEF DraftsInv

LEMMA NextPreserves == DraftsInv /\ [Next]_vars => DraftsInv'
BY DraftStep, StartStep, DecideStep, ProposeStep, QueueStep, CrashStep, StutterStep
   DEF Next

-----------------------------------------------------------------------------
(* The theorems.                                                           *)

\* The inductive invariant holds in every reachable state.
THEOREM DraftsInvariance == Spec => []DraftsInv
BY InitEstablishes, NextPreserves, PTL DEF Spec

\* Drafts, rows and handlers keep their types.
THEOREM DraftsTypeCorrect == Spec => []TypeOK
<1>1. DraftsInv => TypeOK
  BY DEF DraftsInv
<1>2. QED
  BY <1>1, DraftsInvariance, PTL

\* No student is sent a text that no mentor wrote or had before his eyes, in
\* spite of the decisions that stale reads let through.
THEOREM SentTextWasSeen == Spec => []OnlySeenTextIsSent
<1>1. DraftsInv => OnlySeenTextIsSent
  BY DEF DraftsInv
<1>2. QED
  BY <1>1, DraftsInvariance, PTL

\* Nothing is queued before the mentor decides.
THEOREM NothingUndecidedIsSent == Spec => []UndecidedIsNotSent
<1>1. DraftsInv => UndecidedIsNotSent
  BY DEF DraftsInv
<1>2. QED
  BY <1>1, DraftsInvariance, PTL

------------------------------------------------------------------------------
(* ChatDrafts                                                              *)


\* An open draft is the last one made.
OnlyNewestIsOpen ==
  /\ \A d \in Drafts : draftStatus[d] = "pending" => d = newest
  /\ \A d \in Drafts : d > newest => draftStatus[d] = "none"

\* No text is older than the draft it comes from, in the box or on its way.
TextsFollowDrafts ==
  /\ box.of <= newest
  /\ \A m \in chat : m.text.of <= m.after /\ m.after <= newest

\* Where the worker is, there is a draft, or room for one.
WorkerHasDraft ==
  /\ worker = "answering" => newest < MaxDrafts
  /\ worker \in {"created", "checked", "writing", "withdrawing"} => newest \in Drafts

\* The inductive invariant.
ChatInv ==
  /\ ChatTypeOK
  /\ OnlyNewestIsOpen
  /\ TextsFollowDrafts
  /\ WorkerHasDraft

-----------------------------------------------------------------------------
(* drafts.py.                                                              *)

\* While only the newest draft can be open, Max(Pending) is that draft.
LEMMA NewestIsCandidate ==
  ASSUME ChatTypeOK, OnlyNewestIsOpen, Pending # {}
  PROVE  Max(Pending) = newest /\ newest \in Drafts /\ draftStatus[newest] = "pending"
<1>1. Pending = {newest} /\ newest \in Drafts
  BY DEF Pending, OnlyNewestIsOpen
<1>2. newest \in Nat
  BY BoundsAssumption DEF ChatTypeOK
<1>3. \A x \in {newest} : newest >= x
  BY <1>2
<1>4. Max({newest}) = newest
  BY <1>3 DEF Max
<1>5. QED
  BY <1>1, <1>4 DEF Pending

\* Withdrawn changes open drafts only, and leaves none of `gone` open.
LEMMA WithdrawnIsNarrow ==
  ASSUME ChatTypeOK, NEW gone
  PROVE  /\ Withdrawn(gone) \in [Drafts -> {"none", "pending"} \union Decided]
         /\ \A d \in Drafts : draftStatus[d] # "pending" => Withdrawn(gone)[d] = draftStatus[d]
         /\ \A d \in Drafts : Withdrawn(gone)[d] = "pending" => draftStatus[d] = "pending" /\ d \notin gone
         /\ \A d \in Drafts : Withdrawn(gone)[d] = "none" => draftStatus[d] = "none"
BY DEF ChatTypeOK, Withdrawn, Pending, Decided

LEMMA DistinctTexts ==
  ASSUME NEW d \in Drafts
  PROVE  /\ {Empty, OwnWords, Proposal(d), Edited(d)} \subseteq BoxTexts
         /\ Empty.of = 0 /\ OwnWords.of = 0 /\ Proposal(d).of = d /\ Edited(d).of = d
         /\ Proposal(d) # Empty /\ Edited(d) # Empty /\ OwnWords # Empty
BY DEF BoxTexts, Empty, OwnWords, Proposal, Edited

LEMMA ClassifyType ==
  ASSUME NEW d, NEW text
  PROVE  Classify(d, text) \in Decided
BY DEF Classify, Decided

-----------------------------------------------------------------------------
(* The inductive invariant.                                                *)

LEMMA Initially == ChatInit => ChatInv
<1>1. 0 \in 0..MaxDrafts /\ Drafts \subseteq Nat
  BY BoundsAssumption DEF Drafts
<1>2. QED
  BY <1>1 DEF ChatInit, ChatInv, ChatTypeOK, OnlyNewestIsOpen, TextsFollowDrafts, WorkerHasDraft,
     BoxTexts, Empty, Decided

\* create.
LEMMA CreateKeeps == ChatInv /\ CreateDraft => ChatInv'
<1> SUFFICES ASSUME ChatInv, CreateDraft
             PROVE  ChatInv'
  OBVIOUS
<1> USE DEF ChatInv
<1>0. /\ newest \in Nat /\ newest' = newest + 1
      /\ newest' \in Drafts /\ newest' \in 0..MaxDrafts
      /\ \A d \in Drafts : d \in Nat
  BY BoundsAssumption DEF ChatTypeOK, WorkerHasDraft, CreateDraft, Drafts
<1>1. draftStatus' = [Withdrawn(Drafts) EXCEPT ![newest'] = "pending"]
  BY <1>0 DEF CreateDraft
<1>2. \A d \in Drafts : draftStatus'[d] = IF d = newest' THEN "pending" ELSE Withdrawn(Drafts)[d]
  BY <1>1, WithdrawnIsNarrow
<1>3. ChatTypeOK'
  BY <1>0, <1>1, WithdrawnIsNarrow DEF ChatTypeOK, CreateDraft
<1>4. OnlyNewestIsOpen'
  <2>1. ASSUME NEW d \in Drafts, draftStatus'[d] = "pending"
        PROVE  d = newest'
    BY <2>1, <1>2, WithdrawnIsNarrow
  <2>2. ASSUME NEW d \in Drafts, d > newest'
        PROVE  draftStatus'[d] = "none"
    <3>1. d > newest /\ d # newest'
      BY <2>2, <1>0
    <3>2. draftStatus[d] = "none"
      BY <3>1 DEF OnlyNewestIsOpen
    <3>3. QED
      BY <3>1, <3>2, <1>2, WithdrawnIsNarrow
  <2>3. QED
    BY <2>1, <2>2 DEF OnlyNewestIsOpen
<1>5. TextsFollowDrafts'
  <2>1. box.of \in Nat
    BY <1>0 DEF ChatTypeOK, BoxTexts, Empty, OwnWords, Proposal, Edited
  <2>2. box'.of <= newest'
    BY <2>1, <1>0 DEF CreateDraft, TextsFollowDrafts
  <2>3. ASSUME NEW m \in chat
        PROVE  m.text.of <= m.after /\ m.after <= newest'
    <3>1. m.after \in Nat
      BY BoundsAssumption DEF ChatTypeOK
    <3>2. QED
      BY <3>1, <1>0 DEF TextsFollowDrafts
  <2>4. QED
    BY <2>2, <2>3 DEF CreateDraft, TextsFollowDrafts
<1>6. WorkerHasDraft'
  BY <1>0 DEF WorkerHasDraft, CreateDraft
<1>7. QED
  BY <1>3, <1>4, <1>5, <1>6

\* The worker's other steps: only withdraw touches a draft.
LEMMA WorkerKeeps ==
  ChatInv /\ (BeginDraft \/ StaySilent \/ CheckDraft \/ NoClient \/ Look \/ Write \/ RefuseDraft \/ Withdraw \/ Escape)
    => ChatInv'
<1> SUFFICES ASSUME ChatInv,
                    \/ BeginDraft \/ StaySilent \/ CheckDraft \/ NoClient \/ Look
                    \/ Write \/ RefuseDraft \/ Withdraw \/ Escape
             PROVE  ChatInv'
  OBVIOUS
<1> USE DEF ChatInv
<1>0. newest' = newest /\ newest \in Nat /\ chat' = chat
  BY BoundsAssumption DEF ChatTypeOK, BeginDraft, StaySilent, CheckDraft, NoClient, Look, Write, RefuseDraft,
     Withdraw, Escape
<1>1. draftStatus' = draftStatus \/ (Withdraw /\ draftStatus' = Withdrawn({newest}))
  BY DEF BeginDraft, StaySilent, CheckDraft, NoClient, Look, Write, RefuseDraft, Withdraw, Escape
<1>2. box' = box \/ (newest \in Drafts /\ box' = Proposal(newest))
  BY DEF BeginDraft, StaySilent, CheckDraft, NoClient, Look, Write, RefuseDraft, Withdraw, Escape, WorkerHasDraft
<1>3. ChatTypeOK'
  <2>1. draftStatus' \in [Drafts -> {"none", "pending"} \union Decided]
    BY <1>1, WithdrawnIsNarrow DEF ChatTypeOK
  <2>2. box' \in BoxTexts
    BY <1>2, DistinctTexts DEF ChatTypeOK
  <2>3. /\ worker' \in {"idle", "answering", "created", "checked", "writing", "withdrawing"}
        /\ holder' \in {"assistant", "mentor"}
    BY DEF ChatTypeOK, BeginDraft, StaySilent, CheckDraft, NoClient, Look, Write, RefuseDraft, Withdraw, Escape
  <2>4. QED
    BY <1>0, <2>1, <2>2, <2>3 DEF ChatTypeOK
<1>4. OnlyNewestIsOpen'
  <2>1. CASE draftStatus' = draftStatus
    BY <2>1, <1>0 DEF OnlyNewestIsOpen
  <2>2. CASE draftStatus' = Withdrawn({newest})
    <3>1. ASSUME NEW d \in Drafts, draftStatus'[d] = "pending"
          PROVE  d = newest
      BY <3>1, <2>2, WithdrawnIsNarrow DEF OnlyNewestIsOpen
    <3>2. ASSUME NEW d \in Drafts, d > newest
          PROVE  draftStatus'[d] = "none"
      <4>1. draftStatus[d] = "none"
        BY <3>2 DEF OnlyNewestIsOpen
      <4>2. QED
        BY <4>1, <2>2, WithdrawnIsNarrow
    <3>3. QED
      BY <3>1, <3>2, <1>0 DEF OnlyNewestIsOpen
  <2>3. QED
    BY <1>1, <2>1, <2>2
<1>5. TextsFollowDrafts'
  BY <1>0, <1>2, DistinctTexts DEF TextsFollowDrafts
<1>6. WorkerHasDraft'
  BY <1>0 DEF WorkerHasDraft, BeginDraft, StaySilent, CheckDraft, NoClient, Look, Write, RefuseDraft, Withdraw, Escape
<1>7. QED
  BY <1>3, <1>4, <1>5, <1>6

\* The mentor at his own Telegram.
LEMMA MentorKeeps == ChatInv /\ (Type \/ Send) => ChatInv'
<1> SUFFICES ASSUME ChatInv, Type \/ Send
             PROVE  ChatInv'
  OBVIOUS
<1> USE DEF ChatInv
<1>0. /\ newest \in Nat /\ UNCHANGED <<draftStatus, newest, holder, worker>>
      /\ OnlyNewestIsOpen' /\ WorkerHasDraft'
  BY BoundsAssumption DEF ChatTypeOK, Type, Send, OnlyNewestIsOpen, WorkerHasDraft
<1>1. Empty \in BoxTexts /\ OwnWords \in BoxTexts /\ Empty.of = 0 /\ OwnWords.of = 0
  BY DEF BoxTexts, Empty, OwnWords
<1>2. CASE Type
  <2>1. box' \in BoxTexts /\ box'.of <= newest
    <3>1. CASE box' \in {OwnWords, Empty}
      BY <3>1, <1>0, <1>1
    <3>2. CASE box' \in {Edited(d) : d \in {e \in Drafts : box = Proposal(e)}}
      <4> PICK d \in Drafts : box = Proposal(d) /\ box' = Edited(d)
        BY <3>2
      <4>1. QED
        BY DistinctTexts DEF TextsFollowDrafts
    <3>3. QED
      BY <1>2, <3>1, <3>2 DEF Type
  <2>2. QED
    BY <2>1, <1>0, <1>2 DEF Type, ChatTypeOK, TextsFollowDrafts
<1>3. CASE Send
  <2>1. chat' = chat \union {[text |-> box, after |-> newest]} /\ box' = Empty /\ box # Empty
    BY <1>3 DEF Send
  <2>2. QED
    BY <2>1, <1>0, <1>1 DEF ChatTypeOK, TextsFollowDrafts
<1>4. QED
  BY <1>2, <1>3

\* A message of the mentor is stored, or lost.
LEMMA PersistKeeps ==
  ASSUME ChatInv, NEW m \in chat, Persist(m) \/ Lose(m)
  PROVE  ChatInv'
<1> USE DEF ChatInv
<1>0. /\ UNCHANGED <<newest, worker, box>> /\ chat' \subseteq chat /\ newest \in Nat
      /\ WorkerHasDraft' /\ TextsFollowDrafts'
  BY BoundsAssumption DEF ChatTypeOK, Persist, Lose, WorkerHasDraft, TextsFollowDrafts
<1>1. CASE draftStatus' = draftStatus
  <2>1. holder' \in {"assistant", "mentor"}
    BY DEF ChatTypeOK, Persist, Lose, TakeOver, Resolve
  <2>2. QED
    BY <1>0, <1>1, <2>1 DEF ChatTypeOK, OnlyNewestIsOpen
<1>2. CASE Resolve(m)
  <2>1. /\ newest \in Drafts
        /\ draftStatus' = [Withdrawn(Drafts) EXCEPT ![newest] = Classify(newest, m.text)]
        /\ holder' \in {"assistant", "mentor"}
    BY <1>2, NewestIsCandidate DEF Resolve, ChatTypeOK
  <2>2. Classify(newest, m.text) \in Decided
    BY ClassifyType
  <2>3. ChatTypeOK'
    BY <1>0, <2>1, <2>2, WithdrawnIsNarrow DEF ChatTypeOK
  <2>4. ASSUME NEW d \in Drafts, draftStatus'[d] = "pending"
        PROVE  FALSE
    BY <2>4, <2>1, <2>2, WithdrawnIsNarrow DEF Decided
  <2>5. ASSUME NEW d \in Drafts, d > newest
        PROVE  draftStatus'[d] = "none"
    <3>1. draftStatus[d] = "none" /\ d # newest
      BY <2>5, <1>0 DEF OnlyNewestIsOpen
    <3>2. QED
      BY <3>1, <2>1, WithdrawnIsNarrow
  <2>6. QED
    BY <1>0, <2>3, <2>4, <2>5 DEF OnlyNewestIsOpen
<1>3. QED
  BY <1>1, <1>2 DEF Persist, Lose, TakeOver

LEMMA ResumeKeeps == ChatInv /\ Resume => ChatInv'
BY DEF ChatInv, Resume, ChatTypeOK, OnlyNewestIsOpen, TextsFollowDrafts, WorkerHasDraft

LEMMA Stutters == ChatInv /\ UNCHANGED chatVars => ChatInv'
BY DEF chatVars, ChatInv, ChatTypeOK, OnlyNewestIsOpen, TextsFollowDrafts, WorkerHasDraft

\* The inductive invariant holds, for any bounds.
THEOREM ChatInvariance == ChatSpec => []ChatInv
<1>1. ChatInv /\ [ChatNext]_chatVars => ChatInv'
  <2> SUFFICES ASSUME ChatInv, [ChatNext]_chatVars
               PROVE  ChatInv'
    OBVIOUS
  <2>1. CASE \/ BeginDraft \/ StaySilent \/ CheckDraft \/ NoClient \/ Look
             \/ Write \/ RefuseDraft \/ Withdraw \/ Escape
    BY <2>1, WorkerKeeps
  <2>2. CASE CreateDraft
    BY <2>2, CreateKeeps
  <2>3. CASE Type \/ Send
    BY <2>3, MentorKeeps
  <2>4. CASE \E m \in chat : Persist(m) \/ Lose(m)
    BY <2>4, PersistKeeps
  <2>5. CASE Resume
    BY <2>5, ResumeKeeps
  <2>6. CASE UNCHANGED chatVars
    BY <2>6, Stutters
  <2>7. QED
    BY <2>1, <2>2, <2>3, <2>4, <2>5, <2>6 DEF ChatNext
<1>2. QED
  BY <1>1, Initially, PTL DEF ChatSpec

-----------------------------------------------------------------------------
(* What follows.                                                           *)

\* Drafts, box and chat keep their types.
THEOREM ChatTypeCorrect == ChatSpec => []ChatTypeOK
BY ChatInvariance, PTL DEF ChatInv

\* Two drafts of a conversation are never open together (drafts.create).
THEOREM OneIsOpen == ChatSpec => []OneOpenDraft
<1>1. ChatInv => OneOpenDraft
  BY DEF ChatInv, OnlyNewestIsOpen, OneOpenDraft
<1>2. QED
  BY <1>1, ChatInvariance, PTL

\* No late step takes a decision back: not withdraw, not create, not the next
\* message of the mentor (drafts.withdraw, drafts.resolve_from_chat).
THEOREM DecisionsStand == ChatSpec => DecisionStands
<1> DEFINE Stands == \A d \in Drafts : draftStatus[d] \in Decided => draftStatus'[d] = draftStatus[d]
<1>1. ChatInv /\ [ChatNext]_chatVars => [Stands]_chatVars
  <2> SUFFICES ASSUME ChatInv, ChatNext
               PROVE  Stands
    OBVIOUS
  <2> USE DEF ChatInv
  <2>0. \A gone : \A d \in Drafts : draftStatus[d] \in Decided => Withdrawn(gone)[d] = draftStatus[d]
    BY WithdrawnIsNarrow DEF Decided
  <2>1. CASE draftStatus' = draftStatus
    BY <2>1
  <2>2. CASE Withdraw
    BY <2>2, <2>0 DEF Withdraw
  <2>3. CASE CreateDraft
    <3> SUFFICES ASSUME NEW d \in Drafts, draftStatus[d] \in Decided
                 PROVE  draftStatus'[d] = draftStatus[d]
      OBVIOUS
    <3>1. d # newest + 1
      <4>1. newest \in Nat
        BY BoundsAssumption DEF ChatTypeOK
      <4>2. draftStatus[d] # "none"
        BY DEF Decided
      <4>3. QED
        BY <4>1, <4>2 DEF OnlyNewestIsOpen
    <3>2. draftStatus'[d] = Withdrawn(Drafts)[d]
      BY <2>3, <3>1, WithdrawnIsNarrow DEF CreateDraft
    <3>3. QED
      BY <3>2, <2>0
  <2>4. CASE \E m \in chat : Resolve(m)
    <3> PICK m \in chat : Resolve(m)
      BY <2>4
    <3> SUFFICES ASSUME NEW d \in Drafts, draftStatus[d] \in Decided
                 PROVE  draftStatus'[d] = draftStatus[d]
      OBVIOUS
    <3>1. d # newest /\ Max(Pending) = newest
      BY NewestIsCandidate DEF Resolve, Decided
    <3>2. draftStatus'[d] = Withdrawn(Drafts)[d]
      BY <3>1, WithdrawnIsNarrow DEF Resolve
    <3>3. QED
      BY <3>2, <2>0
  <2>5. QED
    BY <2>1, <2>2, <2>3, <2>4 DEF ChatNext, BeginDraft, StaySilent, CheckDraft, NoClient, Look, Write, RefuseDraft,
       Escape, Type, Send, Persist, TakeOver, Lose, Resume
<1>2. QED
  BY <1>1, ChatInvariance, PTL DEF ChatSpec, DecisionStands

\* Sending the open proposal unchanged approves it and leaves the conversation
\* with the assistant (drafts.resolve_from_chat, gateway.persist).
THEOREM ProposalIsAccepted == ChatSpec => ProposalKeepsAssistant
<1> DEFINE Keeps == \A m \in chat, d \in Drafts :
                      Persist(m) /\ draftStatus[d] = "pending" /\ m.text = Proposal(d)
                        => draftStatus'[d] = "approved" /\ holder' = holder
<1>1. ChatInv => [Keeps]_chatVars
  <2> SUFFICES ASSUME ChatInv, NEW m \in chat, NEW d \in Drafts,
                      Persist(m), draftStatus[d] = "pending", m.text = Proposal(d)
               PROVE  draftStatus'[d] = "approved" /\ holder' = holder
    OBVIOUS
  <2> USE DEF ChatInv
  <2>1. Pending # {} /\ d = newest
    BY DEF Pending, OnlyNewestIsOpen
  <2>2. Max(Pending) = d
    BY <2>1, NewestIsCandidate
  <2>3. d <= m.after /\ m.after \in Nat /\ d \in Nat
    BY DistinctTexts, BoundsAssumption DEF ChatTypeOK, TextsFollowDrafts, Drafts
  <2>4. ~ TakeOver(m)
    BY <2>1, <2>2, <2>3 DEF TakeOver, MayPrecede
  <2>5. Resolve(m)
    BY <2>4 DEF Persist
  <2>6. draftStatus'[d] = Classify(d, m.text)
    BY <2>2, <2>5, WithdrawnIsNarrow DEF Resolve
  <2>7. Classify(d, m.text) = "approved"
    BY DEF Classify, Proposal, Edited
  <2>8. QED
    BY <2>2, <2>5, <2>6, <2>7 DEF Resolve
<1>2. QED
  BY <1>1, ChatInvariance, PTL DEF ProposalKeepsAssistant

------------------------------------------------------------------------------
(* The answer of the model.  What its guard computes digit by digit, scale *)
(* by scale and token by token is computed step by step.                   *)
LEMMA TenToIsNatural ==
  ASSUME NEW w \in Nat
  PROVE  TenTo(w) \in Nat
<1> DEFINE power[k \in 0..w] == IF k = 0 THEN 1 ELSE 10 * power[k - 1]
           step == [p \in (1..w) \X Nat |-> 10 * p[2]]
           Body(f, k) == IF k = 0 THEN 1 ELSE 10 * f[k - 1]
<1>1. TenTo(w) = power[w]
  BY DEF TenTo
<1>2. power = CHOOSE f : f = [k \in 0..w |-> Body(f, k)]
  OBVIOUS
<1> HIDE DEF power
<1>3. PICK f : Follows(f, step, 1, w, Nat)
  <2>1. IsStep(step, w, Nat)
    BY DEF IsStep
  <2> HIDE DEF step, Body
  <2> QED BY <2>1, Recursion
<1>4. f \in [0..w -> Nat] /\ f[0] = 1
  BY <1>3 DEF Follows
<1>5. \A k \in 1..w : f[k] = 10 * f[k - 1]
  <2> SUFFICES ASSUME NEW k \in 1..w PROVE f[k] = 10 * f[k - 1]
    OBVIOUS
  <2>1. k - 1 \in 0..w
    OBVIOUS
  <2>2. <<k, f[k - 1]>> \in (1..w) \X Nat
    BY <1>4, <2>1
  <2>3. f[k] = step[<<k, f[k - 1]>>]
    BY <1>3 DEF Follows
  <2> QED BY <2>2, <2>3
<1>6. f = [k \in 0..w |-> Body(f, k)]
  <2>1. \A k \in 0..w : f[k] = Body(f, k)
    BY <1>4, <1>5
  <2> HIDE DEF Body
  <2> QED BY <1>4, <2>1
<1>7. power = [k \in 0..w |-> Body(power, k)]
  <2> HIDE DEF Body
  <2> QED BY <1>2, <1>6
<1>8. power[0] = 1 /\ \A k \in 1..w : power[k] = 10 * power[k - 1]
  <2>1. \A k \in 0..w : power[k] = Body(power, k)
    <3> HIDE DEF Body
    <3> QED BY <1>7
  <2>2. 0 \in 0..w /\ \A k \in 1..w : k \in 0..w /\ k # 0
    OBVIOUS
  <2> QED BY <2>1, <2>2
<1>9. \A k \in 0..w : power[k] \in Nat
  <2> DEFINE P == {k \in 0..w : power[k] \in Nat}
  <2>1. 0 \in P
    BY <1>8
  <2>2. \A k \in 1..w : k - 1 \in P => k \in P
    BY <1>8
  <2>3. P = 0..w
    <3>1. P \in SUBSET (0..w)
      OBVIOUS
    <3> HIDE DEF P
    <3> QED BY <2>1, <2>2, <3>1, PlaceInduction
  <2> QED BY <2>3
<1> QED BY <1>1, <1>9

Numerals == [kind : {"number"}, digits : Nat, width : Nat, dots : Nat, tail : Nat]

LEMMA NumeralsJoin ==
  ASSUME NEW m \in Numerals, NEW n \in Numerals
  PROVE  Digits(m, n) \in Numerals /\ NumberOf(m) \in Nat
<1>1. TenTo(n.width) \in Nat /\ n.width \in Nat /\ n.dots \in Nat /\ n.tail \in Nat /\ n.digits \in Nat
  BY TenToIsNatural DEF Numerals
<1>2. m.width \in Nat /\ m.dots \in Nat /\ m.tail \in Nat /\ m.digits \in Nat
  BY DEF Numerals
<1> DEFINE digits == m.digits * TenTo(n.width) + n.digits
           tail == IF n.dots > 0 THEN n.tail ELSE m.tail + n.width
<1>3. digits \in Nat /\ tail \in Nat /\ m.width + n.width \in Nat /\ m.dots + n.dots \in Nat
  BY <1>1, <1>2
<1>4. Digits(m, n) = [kind |-> "number", digits |-> digits, width |-> m.width + n.width,
                      dots |-> m.dots + n.dots, tail |-> tail]
  BY DEF Digits, Number
<1> HIDE DEF digits, tail
<1>5. Digits(m, n) \in Numerals
  BY <1>3, <1>4 DEF Numerals
<1>6. NumberOf(m) \in Nat
  BY <1>2 DEF NumberOf
<1> QED BY <1>5, <1>6

JoinsTo(number, text, a, b) ==
  /\ number \in [0..(b - a) -> Numerals]
  /\ number[0] = text[a]
  /\ \A k \in 1..(b - a) : number[k] = Digits(number[k - 1], text[a + k])
  /\ Joined(text, a, b) = number[b - a]

LEMMA JoinedStepByStep ==
  ASSUME NEW text, NEW a \in Nat, NEW b \in Nat, a <= b, \A k \in a..b : text[k] \in Numerals
  PROVE  \E number : JoinsTo(number, text, a, b)
<1> DEFINE n == b - a
           number[k \in 0..(b - a)] == IF k = 0 THEN text[a] ELSE Digits(number[k - 1], text[a + k])
           step == [p \in (1..n) \X Numerals |-> Digits(p[2], text[a + p[1]])]
           Body(f, k) == IF k = 0 THEN text[a] ELSE Digits(f[k - 1], text[a + k])
<1>1. Joined(text, a, b) = number[n]
  BY DEF Joined
<1>2. number = CHOOSE f : f = [k \in 0..n |-> Body(f, k)]
  OBVIOUS
<1> HIDE DEF number
<1>3. n \in Nat /\ text[a] \in Numerals /\ \A k \in 1..n : text[a + k] \in Numerals
  OBVIOUS
<1> HIDE DEF n
<1>4. PICK f : Follows(f, step, text[a], n, Numerals)
  <2>1. \A k \in 1..n, m \in Numerals : Digits(m, text[a + k]) \in Numerals
    BY <1>3, NumeralsJoin
  <2>2. IsStep(step, n, Numerals)
    BY <2>1 DEF IsStep
  <2> HIDE DEF step, Body
  <2> QED BY <1>3, <2>2, Recursion
<1>5. f \in [0..n -> Numerals] /\ f[0] = text[a]
  BY <1>4 DEF Follows
<1>6. \A k \in 1..n : f[k] = Digits(f[k - 1], text[a + k])
  <2> SUFFICES ASSUME NEW k \in 1..n PROVE f[k] = Digits(f[k - 1], text[a + k])
    OBVIOUS
  <2>1. k - 1 \in 0..n
    BY <1>3
  <2>2. <<k, f[k - 1]>> \in (1..n) \X Numerals
    BY <1>5, <2>1
  <2>3. f[k] = step[<<k, f[k - 1]>>]
    BY <1>4 DEF Follows
  <2> QED BY <2>2, <2>3
<1>7. f = [k \in 0..n |-> Body(f, k)]
  <2>1. \A k \in 0..n : f[k] = Body(f, k)
    BY <1>3, <1>5, <1>6
  <2> HIDE DEF Body
  <2> QED BY <1>5, <2>1
<1>8. number = [k \in 0..n |-> Body(number, k)]
  <2> HIDE DEF Body
  <2> QED BY <1>2, <1>7
<1>9. number[0] = text[a] /\ \A k \in 1..n : number[k] = Digits(number[k - 1], text[a + k])
  <2>1. \A k \in 0..n : number[k] = Body(number, k)
    <3> HIDE DEF Body
    <3> QED BY <1>8
  <2>2. 0 \in 0..n /\ \A k \in 1..n : k \in 0..n /\ k # 0
    BY <1>3
  <2> QED BY <2>1, <2>2
<1>10. \A k \in 0..n : number[k] \in Numerals
  <2> DEFINE P == {k \in 0..n : number[k] \in Numerals}
  <2>1. 0 \in P
    BY <1>3, <1>9
  <2>2. \A k \in 1..n : k - 1 \in P => k \in P
    BY <1>3, <1>9, NumeralsJoin
  <2>3. P = 0..n
    <3>1. P \in SUBSET (0..n)
      OBVIOUS
    <3> HIDE DEF P
    <3> QED BY <2>1, <2>2, <3>1, <1>3, PlaceInduction
  <2> QED BY <2>3
<1>11. number \in [0..n -> Numerals]
  <2> HIDE DEF Body
  <2> QED BY <1>8, <1>10
<1>12. JoinsTo(number, text, a, b)
  BY <1>1, <1>9, <1>11 DEF JoinsTo, n
<1> QED BY <1>12

(* The scales that are there multiply the value, each once *)
ScalesTo(product, value, words) ==
  /\ product \in [0..Len(Scales) -> Nat]
  /\ product[0] = value
  /\ \A k \in 1..Len(Scales) :
       product[k] = product[k - 1] * (IF Scales[k] \in words THEN Factor[Scales[k]] ELSE 1)
  /\ Scaled(value, words) = product[Len(Scales)]

LEMMA ScaleFields ==
  /\ Len(Scales) \in Nat /\ DOMAIN Scales = 1..Len(Scales)
  /\ \A k \in 1..Len(Scales) : Scales[k] \in Range(Scales) /\ Factor[Scales[k]] \in Nat
  /\ \A j, k \in 1..Len(Scales) : Scales[j] = Scales[k] => j = k
  /\ \A w \in Range(Scales) : Factor[w] \in Nat /\ \E k \in 1..Len(Scales) : Scales[k] = w
<1>1. Len(Scales) \in Nat /\ DOMAIN Scales = 1..Len(Scales)
  BY GuardAssumption, LenProperties
<1>2. \A w \in Range(Scales) : Factor[w] \in Nat
  BY GuardAssumption
<1>3. \A k \in 1..Len(Scales) : Scales[k] \in Range(Scales)
  BY <1>1 DEF Range
<1>4. \A j, k \in 1..Len(Scales) : Scales[j] = Scales[k] => j = k
  BY <1>1, GuardAssumption DEF IsInjective
<1>5. \A w \in Range(Scales) : \E k \in 1..Len(Scales) : Scales[k] = w
  BY <1>1 DEF Range
<1> QED BY <1>1, <1>2, <1>3, <1>4, <1>5

LEMMA ScaledStepByStep ==
  ASSUME NEW value \in Nat, NEW words
  PROVE  \E product : ScalesTo(product, value, words)
<1> DEFINE n == Len(Scales)
           times(k) == IF Scales[k] \in words THEN Factor[Scales[k]] ELSE 1
           product[k \in 0..Len(Scales)] ==
             IF k = 0 THEN value
             ELSE product[k - 1] * (IF Scales[k] \in words THEN Factor[Scales[k]] ELSE 1)
           step == [p \in (1..n) \X Nat |-> p[2] * times(p[1])]
           Body(f, k) == IF k = 0 THEN value ELSE f[k - 1] * times(k)
<1>1. Scaled(value, words) = product[n]
  BY DEF Scaled
<1>2. product = CHOOSE f : f = [k \in 0..n |-> Body(f, k)]
  OBVIOUS
<1> HIDE DEF product
<1>3. n \in Nat /\ \A k \in 1..n : times(k) \in Nat
  BY ScaleFields
<1> HIDE DEF n, times
<1>4. PICK f : Follows(f, step, value, n, Nat)
  <2>1. \A k \in 1..n, m \in Nat : m * times(k) \in Nat
    BY <1>3
  <2>2. IsStep(step, n, Nat)
    BY <2>1 DEF IsStep
  <2> HIDE DEF step, Body
  <2> QED BY <1>3, <2>2, Recursion
<1>5. f \in [0..n -> Nat] /\ f[0] = value
  BY <1>4 DEF Follows
<1>6. \A k \in 1..n : f[k] = f[k - 1] * times(k)
  <2> SUFFICES ASSUME NEW k \in 1..n PROVE f[k] = f[k - 1] * times(k)
    OBVIOUS
  <2>1. k - 1 \in 0..n
    BY <1>3
  <2>2. <<k, f[k - 1]>> \in (1..n) \X Nat
    BY <1>5, <2>1
  <2>3. f[k] = step[<<k, f[k - 1]>>]
    BY <1>4 DEF Follows
  <2> QED BY <2>2, <2>3
<1>7. f = [k \in 0..n |-> Body(f, k)]
  <2>1. \A k \in 0..n : f[k] = Body(f, k)
    BY <1>3, <1>5, <1>6
  <2> HIDE DEF Body
  <2> QED BY <1>5, <2>1
<1>8. product = [k \in 0..n |-> Body(product, k)]
  <2> HIDE DEF Body
  <2> QED BY <1>2, <1>7
<1>9. product[0] = value /\ \A k \in 1..n : product[k] = product[k - 1] * times(k)
  <2>1. \A k \in 0..n : product[k] = Body(product, k)
    <3> HIDE DEF Body
    <3> QED BY <1>8
  <2>2. 0 \in 0..n /\ \A k \in 1..n : k \in 0..n /\ k # 0
    BY <1>3
  <2> QED BY <2>1, <2>2
<1>10. \A k \in 0..n : product[k] \in Nat
  <2> DEFINE P == {k \in 0..n : product[k] \in Nat}
  <2>1. 0 \in P
    BY <1>3, <1>9
  <2>2. \A k \in 1..n : k - 1 \in P => k \in P
    <3> SUFFICES ASSUME NEW k \in 1..n, product[k - 1] \in Nat PROVE product[k] \in Nat /\ k \in 0..n
      OBVIOUS
    <3> QED BY <1>3, <1>9
  <2>3. P = 0..n
    <3>1. P \in SUBSET (0..n)
      OBVIOUS
    <3> HIDE DEF P
    <3> QED BY <2>1, <2>2, <3>1, <1>3, PlaceInduction
  <2> QED BY <2>3
<1>11. product \in [0..n -> Nat]
  <2> HIDE DEF Body
  <2> QED BY <1>8, <1>10
<1>12. ScalesTo(product, value, words)
  BY <1>1, <1>9, <1>11 DEF ScalesTo, n, times
<1> QED BY <1>12

LEMMA OneMoreScale ==
  ASSUME NEW value \in Nat, NEW words, NEW w \in Range(Scales), w \notin words
  PROVE  /\ Scaled(value, words) \in Nat
         /\ Scaled(value, words \union {w}) = Scaled(value, words) * Factor[w]
<1> DEFINE n == Len(Scales)
           F == Factor[w]
<1>1. PICK few : ScalesTo(few, value, words)
  BY ScaledStepByStep
<1>2. PICK more : ScalesTo(more, value, words \union {w})
  BY ScaledStepByStep
<1>3. n \in Nat /\ F \in Nat /\ \A k \in 1..n : Factor[Scales[k]] \in Nat
  BY ScaleFields
<1>4. PICK m \in 1..n : Scales[m] = w /\ \A k \in 1..n : k # m => Scales[k] # w
  BY ScaleFields
<1>5. /\ few \in [0..n -> Nat] /\ more \in [0..n -> Nat] /\ few[0] = value /\ more[0] = value
      /\ Scaled(value, words) = few[n] /\ Scaled(value, words \union {w}) = more[n]
  BY <1>1, <1>2 DEF ScalesTo
<1> DEFINE P == {k \in 0..n : more[k] = IF k < m THEN few[k] ELSE few[k] * F}
<1>6. 0 \in P
  BY <1>3, <1>5
<1>7. ASSUME NEW k \in 1..n, k - 1 \in P PROVE k \in P
  <2> DEFINE t == IF Scales[k] \in words THEN Factor[Scales[k]] ELSE 1
             u == IF Scales[k] \in words \union {w} THEN Factor[Scales[k]] ELSE 1
  <2>1. few[k] = few[k - 1] * t /\ more[k] = more[k - 1] * u
    BY <1>1, <1>2 DEF ScalesTo
  <2>2. t \in Nat /\ few[k - 1] \in Nat /\ k \in 0..n /\ k \in Nat /\ m \in Nat
    <3>1. k \in 0..n /\ k - 1 \in 0..n /\ k \in Nat /\ m \in Nat
      BY <1>3
    <3>2. few[k - 1] \in Nat
      BY <1>5, <3>1
    <3>3. t \in Nat
      BY <1>3
    <3> QED BY <3>1, <3>2, <3>3
  <2>3. more[k - 1] = IF k - 1 < m THEN few[k - 1] ELSE few[k - 1] * F
    BY <1>7
  <2>4. k = m => t = 1 /\ u = F
    BY <1>4
  <2>5. k # m => u = t
    BY <1>4
  <2> DEFINE a == few[k - 1]
  <2> HIDE DEF t, u, F, a
  <2>6. CASE k < m
    BY <2>1, <2>2, <2>3, <2>5, <2>6
  <2>7. CASE k = m
    <3>1. few[k] = a /\ more[k] = a * F
      BY <2>1, <2>2, <2>3, <2>4, <2>7 DEF a
    <3> QED BY <3>1, <2>2, <2>7
  <2>8. CASE k > m
    <3>1. few[k] = a * t /\ more[k] = (a * F) * t
      BY <2>1, <2>2, <2>3, <2>5, <2>8 DEF a
    <3>2. (a * F) * t = (a * t) * F
      BY <1>3, <2>2 DEF a
    <3> QED BY <3>1, <3>2, <2>2, <2>8
  <2> QED BY <2>2, <2>6, <2>7, <2>8
<1>8. P = 0..n
  <2>1. P \in SUBSET (0..n)
    OBVIOUS
  <2> HIDE DEF P
  <2> QED BY <1>3, <1>6, <1>7, <2>1, PlaceInduction
<1>9. n \in P
  BY <1>3, <1>8
<1> QED BY <1>3, <1>4, <1>5, <1>9

LEMMA NoScale ==
  ASSUME NEW value \in Nat
  PROVE  Scaled(value, {}) = value
<1> DEFINE n == Len(Scales)
<1>1. PICK product : ScalesTo(product, value, {})
  BY ScaledStepByStep
<1>2. n \in Nat
  BY ScaleFields
<1>3. /\ product[0] = value /\ product \in [0..n -> Nat]
      /\ \A k \in 1..n : product[k] = product[k - 1] * 1
      /\ Scaled(value, {}) = product[n]
  BY <1>1 DEF ScalesTo
<1> DEFINE P == {k \in 0..n : product[k] = value}
<1>4. 0 \in P /\ \A k \in 1..n : k - 1 \in P => k \in P
  BY <1>2, <1>3
<1>5. P = 0..n
  <2>1. P \in SUBSET (0..n)
    OBVIOUS
  <2> HIDE DEF P
  <2> QED BY <1>2, <1>4, <2>1, PlaceInduction
<1> QED BY <1>2, <1>3, <1>5


(* The sum as a reader takes it, token by token *)
Accounts == [done : Nat, open : Nat, number : Numerals, last : {"number", "scale", "and"}]

LEMMA TermIsAccount ==
  ASSUME NEW acc \in Accounts, NEW token \in Tokens, token.kind \in {"number", "scale"}
  PROVE  Term(acc, token) \in Accounts
<1>1. acc.done \in Nat /\ acc.open \in Nat /\ acc.number \in Numerals
  BY DEF Accounts
<1>2. CASE token.kind = "number"
  <2>1. token \in Numerals
    BY <1>2 DEF Tokens, Numerals, Scale, Unit, And, Word
  <2> DEFINE digits == Digits(acc.number, token)
  <2>2. digits \in Numerals /\ NumberOf(digits) \in Nat /\ NumberOf(token) \in Nat
    BY <1>1, <2>1, NumeralsJoin
  <2>3. /\ acc.last = "number" =>
             Term(acc, token) = [acc EXCEPT !.number = digits, !.open = NumberOf(digits)]
        /\ acc.last # "number" =>
             Term(acc, token) = [done |-> acc.done + acc.open, open |-> NumberOf(token),
                                 number |-> token, last |-> "number"]
    BY <1>2 DEF Term
  <2> HIDE DEF digits
  <2>4. acc.done + acc.open \in Nat
    BY <1>1
  <2>5. CASE acc.last = "number"
    <3>1. [acc EXCEPT !.number = digits, !.open = NumberOf(digits)] \in Accounts
      BY <2>2 DEF Accounts
    <3> QED BY <2>3, <2>5, <3>1
  <2>6. CASE acc.last # "number"
    <3>1. [done |-> acc.done + acc.open, open |-> NumberOf(token), number |-> token,
           last |-> "number"] \in Accounts
      BY <2>1, <2>2, <2>4 DEF Accounts
    <3> QED BY <2>3, <2>6, <3>1
  <2> QED BY <2>5, <2>6
<1>3. CASE token.kind = "scale"
  <2>1. PICK w \in Range(Scales) : token = Scale(w)
    BY <1>3 DEF Tokens, Unit, And, Word
  <2>2. Factor[token.scale] \in Nat
    BY <2>1, ScaleFields DEF Scale
  <2>3. Term(acc, token) = [acc EXCEPT !.open = acc.open * Factor[token.scale], !.last = "scale"]
    BY <1>3 DEF Term
  <2> DEFINE open == acc.open * Factor[token.scale]
  <2>4. open \in Nat
    BY <1>1, <2>2
  <2> HIDE DEF open
  <2> QED BY <2>3, <2>4 DEF Accounts, open
<1> QED BY <1>2, <1>3

ReadsTo(sum, text, a, n) ==
  /\ sum \in [0..n -> Accounts]
  /\ sum[0] = Unread
  /\ \A k \in 1..n : sum[k] = Term(sum[k - 1], text[a + k - 1])
  /\ Reading(text, a, a + n - 1) = sum[n]

LEMMA ReadStepByStep ==
  ASSUME NEW text, NEW a \in Nat, NEW n \in Nat,
         \A k \in a..(a + n - 1) : text[k] \in Tokens /\ text[k].kind \in {"number", "scale"}
  PROVE  \E sum : ReadsTo(sum, text, a, n)
<1> DEFINE b == a + n - 1
           m == b - a + 1
           sum[k \in 0..(b - a + 1)] ==
             IF k = 0 THEN Unread ELSE Term(sum[k - 1], text[a + k - 1])
           step == [p \in (1..n) \X Accounts |-> Term(p[2], text[a + p[1] - 1])]
           Body(f, k) == IF k = 0 THEN Unread ELSE Term(f[k - 1], text[a + k - 1])
<1>1. Reading(text, a, b) = sum[m]
  BY DEF Reading
<1>2. sum = CHOOSE f : f = [k \in 0..m |-> Body(f, k)]
  OBVIOUS
<1> HIDE DEF sum
<1>3. /\ m = n
      /\ \A k \in 1..n : text[a + k - 1] \in Tokens /\ text[a + k - 1].kind \in {"number", "scale"}
  OBVIOUS
<1>4. Unread \in Accounts
  BY DEF Unread, Accounts, Numerals, Number
<1> HIDE DEF m, b
<1>5. PICK f : Follows(f, step, Unread, n, Accounts)
  <2>1. \A k \in 1..n, acc \in Accounts : Term(acc, text[a + k - 1]) \in Accounts
    BY <1>3, TermIsAccount
  <2>2. IsStep(step, n, Accounts)
    BY <2>1 DEF IsStep
  <2> HIDE DEF step, Body
  <2> QED BY <1>4, <2>2, Recursion
<1>6. f \in [0..n -> Accounts] /\ f[0] = Unread
  BY <1>5 DEF Follows
<1>7. \A k \in 1..n : f[k] = Term(f[k - 1], text[a + k - 1])
  <2> SUFFICES ASSUME NEW k \in 1..n PROVE f[k] = Term(f[k - 1], text[a + k - 1])
    OBVIOUS
  <2>1. k - 1 \in 0..n
    OBVIOUS
  <2>2. <<k, f[k - 1]>> \in (1..n) \X Accounts
    BY <1>6, <2>1
  <2>3. f[k] = step[<<k, f[k - 1]>>]
    BY <1>5 DEF Follows
  <2> QED BY <2>2, <2>3
<1>8. f = [k \in 0..m |-> Body(f, k)]
  <2>1. \A k \in 0..n : f[k] = Body(f, k)
    BY <1>6, <1>7
  <2> HIDE DEF Body
  <2> QED BY <1>3, <1>6, <2>1
<1>9. sum = [k \in 0..m |-> Body(sum, k)]
  <2> HIDE DEF Body
  <2> QED BY <1>2, <1>8
<1>10. sum[0] = Unread /\ \A k \in 1..n : sum[k] = Term(sum[k - 1], text[a + k - 1])
  <2>1. \A k \in 0..n : sum[k] = Body(sum, k)
    <3> HIDE DEF Body
    <3> QED BY <1>3, <1>9
  <2>2. 0 \in 0..n /\ \A k \in 1..n : k \in 0..n /\ k # 0
    OBVIOUS
  <2> QED BY <2>1, <2>2
<1>11. \A k \in 0..n : sum[k] \in Accounts
  <2> DEFINE P == {k \in 0..n : sum[k] \in Accounts}
  <2>1. 0 \in P
    BY <1>4, <1>10
  <2>2. \A k \in 1..n : k - 1 \in P => k \in P
    BY <1>3, <1>10, TermIsAccount
  <2>3. P = 0..n
    <3>1. P \in SUBSET (0..n)
      OBVIOUS
    <3> HIDE DEF P
    <3> QED BY <2>1, <2>2, <3>1, PlaceInduction
  <2> QED BY <2>3
<1>12. sum \in [0..n -> Accounts]
  <2> HIDE DEF Body
  <2> QED BY <1>3, <1>9, <1>11
<1>13. ReadsTo(sum, text, a, n)
  BY <1>1, <1>3, <1>10, <1>12 DEF ReadsTo, b
<1> QED BY <1>13

(* What stands between two places of a text of one term: numbers, then     *)
(* scales, none of them twice                                              *)
IsTerm(text, a, s, i) ==
  /\ a < s /\ s <= i
  /\ \A k \in a..(s - 1) : text[k] \in Numerals
  /\ \A k \in s..(i - 1) : text[k] \in Tokens /\ text[k].kind = "scale"
  /\ \A j, k \in s..(i - 1) : j # k => text[j].scale # text[k].scale

ScalesIn(text, s, i) == {text[k].scale : k \in s..(i - 1)}

ReadAsOne(sum, number, a, s) ==
  /\ number[s - 1 - a] \in Numerals
  /\ sum[s - a].done = 0
  /\ sum[s - a].open = NumberOf(number[s - 1 - a])

LEMMA NumbersAreJoined ==
  ASSUME NEW text, NEW a \in Nat, NEW s \in Nat, NEW i \in Nat, IsTerm(text, a, s, i),
         NEW sum, NEW n, ReadsTo(sum, text, a, n), n = i - a,
         NEW number, NEW b, JoinsTo(number, text, a, b), b = s - 1
  PROVE  ReadAsOne(sum, number, a, s)
<1> DEFINE m == s - a
           Read(k) == [done |-> 0, open |-> NumberOf(number[k - 1]), number |-> number[k - 1],
                       last |-> "number"]
           P == {k \in 0..(m - 1) : sum[k + 1] = Read(k + 1)}
<1>1. m \in Nat /\ m >= 1 /\ m <= i - a /\ s - 1 - a = m - 1 /\ m - 1 \in Nat
  BY DEF IsTerm
<1>2. number \in [0..(m - 1) -> Numerals] /\ number[0] = text[a]
  BY DEF JoinsTo
<1>3. \A k \in 1..(m - 1) : number[k] = Digits(number[k - 1], text[a + k])
  BY DEF JoinsTo
<1>4. sum[0] = Unread /\ \A k \in 1..m : sum[k] = Term(sum[k - 1], text[a + k - 1])
  <2>1. \A k \in 1..m : k \in 1..(i - a)
    BY <1>1
  <2> QED BY <2>1 DEF ReadsTo
<1>5. \A k \in 1..m : text[a + k - 1] \in Numerals /\ text[a + k - 1].kind = "number"
  <2>1. \A k \in 1..m : a + k - 1 \in a..(s - 1)
    OBVIOUS
  <2> QED BY <2>1 DEF IsTerm, Numerals
<1> HIDE DEF m
<1>6. 0 \in P
  <2>1. sum[1] = Term(Unread, text[a])
    <3>1. 1 \in 1..m /\ 1 - 1 = 0 /\ a + 1 - 1 = a
      BY <1>1
    <3> QED BY <1>4, <3>1
  <2>2. text[a].kind = "number"
    <3>1. 1 \in 1..m /\ a + 1 - 1 = a
      BY <1>1
    <3> QED BY <1>5, <3>1
  <2>3. sum[1] = Read(1)
    BY <1>2, <2>1, <2>2 DEF Term, Unread
  <2> QED BY <1>1, <2>3
<1>7. ASSUME NEW k \in 1..(m - 1), k - 1 \in P PROVE k \in P
  <2>1. k - 1 + 1 = k /\ k + 1 - 1 = k /\ a + (k + 1) - 1 = a + k /\ k + 1 \in 1..m
    BY <1>1
  <2>2. sum[k] = Read(k)
    BY <1>7, <2>1
  <2>3. sum[k + 1] = Term(sum[k], text[a + k]) /\ text[a + k].kind = "number"
    BY <1>4, <1>5, <2>1
  <2> DEFINE digits == Digits(number[k - 1], text[a + k])
  <2>4. number[k] = digits
    BY <1>3
  <2>5. sum[k + 1] = [sum[k] EXCEPT !.number = digits, !.open = NumberOf(digits)]
    BY <2>2, <2>3 DEF Term
  <2> HIDE DEF digits
  <2>6. sum[k + 1] = Read(k + 1)
    <3>1. Read(k + 1) = [done |-> 0, open |-> NumberOf(digits), number |-> digits,
                         last |-> "number"]
      BY <2>1, <2>4
    <3>2. Read(k).done = 0 /\ Read(k).last = "number" /\ DOMAIN Read(k) = {"done", "open", "number", "last"}
      OBVIOUS
    <3> HIDE DEF Read
    <3> QED BY <2>2, <2>5, <3>1, <3>2
  <2> QED BY <2>6
<1>8. P = 0..(m - 1)
  <2>1. P \in SUBSET (0..(m - 1))
    OBVIOUS
  <2> HIDE DEF P
  <2> QED BY <1>1, <1>6, <1>7, <2>1, PlaceInduction
<1>9. sum[m] = Read(m)
  <2>1. m - 1 \in P
    <3> HIDE DEF P
    <3> QED BY <1>1, <1>8
  <2>2. m - 1 + 1 = m
    BY <1>1
  <2> QED BY <2>1, <2>2
<1>10. number[m - 1] \in Numerals
  BY <1>1, <1>2
<1> QED BY <1>1, <1>9, <1>10 DEF m, ReadAsOne

LEMMA ScalesAreCounted ==
  ASSUME NEW text, NEW a \in Nat, NEW s \in Nat, NEW i \in Nat, IsTerm(text, a, s, i),
         NEW sum, NEW n, ReadsTo(sum, text, a, n), n = i - a, NEW value \in Nat,
         sum[s - a].done = 0, sum[s - a].open = value
  PROVE  /\ sum[i - a].done = 0
         /\ sum[i - a].open = Scaled(value, ScalesIn(text, s, i))
<1> DEFINE m == s - a
           q == i - s
           words(k) == {text[j].scale : j \in s..(s + k - 1)}
           P == {k \in 0..q : sum[m + k].done = 0 /\ sum[m + k].open = Scaled(value, words(k))}
<1>1. m \in Nat /\ q \in Nat /\ m + q = i - a
  BY DEF IsTerm
<1>2. 0 \in P
  <2>1. words(0) = {}
    OBVIOUS
  <2>2. m + 0 = m /\ 0 \in 0..q
    BY <1>1
  <2> QED BY <2>1, <2>2, NoScale
<1>3. ASSUME NEW k \in 1..q, k - 1 \in P PROVE k \in P
  <2> DEFINE token == text[s + k - 1]
             w == token.scale
             before == sum[m + (k - 1)]
  <2>1. /\ m + k \in 1..(i - a) /\ m + k - 1 = m + (k - 1) /\ a + (m + k) - 1 = s + k - 1
        /\ m + (k - 1) \in 0..(i - a) /\ s + k - 1 \in s..(i - 1)
    BY <1>1
  <2>2. sum[m + k] = Term(before, token) /\ before \in Accounts
    BY <2>1 DEF ReadsTo
  <2>3. token \in Tokens /\ token.kind = "scale"
    BY <2>1 DEF IsTerm
  <2>4. w \in Range(Scales)
    <3> HIDE DEF token
    <3>1. PICK x \in Range(Scales) : token = Scale(x)
      BY <2>3 DEF Tokens, Unit, And, Word
    <3> QED BY <3>1 DEF Scale
  <2>5. w \notin words(k - 1)
    <3> SUFFICES ASSUME NEW j \in s..(s + (k - 1) - 1) PROVE text[j].scale # w
      OBVIOUS
    <3>1. j \in s..(i - 1) /\ j # s + k - 1
      BY <2>1
    <3> QED BY <2>1, <3>1 DEF IsTerm
  <2>6. words(k) = words(k - 1) \union {w}
    <3>1. s..(s + k - 1) = s..(s + (k - 1) - 1) \union {s + k - 1}
      OBVIOUS
    <3> QED BY <3>1
  <2>7. before.done = 0 /\ before.open = Scaled(value, words(k - 1))
    BY <1>3
  <2>8. sum[m + k].done = before.done /\ sum[m + k].open = before.open * Factor[w]
    <3> HIDE DEF before, token
    <3>1. Term(before, token) =
            [before EXCEPT !.open = before.open * Factor[w], !.last = "scale"]
      BY <2>3 DEF Term
    <3> QED BY <2>2, <3>1 DEF Accounts
  <2> HIDE DEF words, w, before
  <2>9. Scaled(value, words(k - 1) \union {w}) = Scaled(value, words(k - 1)) * Factor[w]
    BY <2>4, <2>5, OneMoreScale
  <2>10. sum[m + k].done = 0
    BY <2>7, <2>8
  <2>11. sum[m + k].open = Scaled(value, words(k))
    BY <2>6, <2>7, <2>8, <2>9
  <2> QED BY <2>10, <2>11
<1>4. P = 0..q
  <2>1. P \in SUBSET (0..q)
    OBVIOUS
  <2> HIDE DEF P
  <2> QED BY <1>1, <1>2, <1>3, <2>1, PlaceInduction
<1>5. q \in P
  <2> HIDE DEF P
  <2> QED BY <1>1, <1>4
<1>6. words(q) = ScalesIn(text, s, i)
  <2>1. s + q - 1 = i - 1
    BY <1>1
  <2> QED BY <2>1 DEF ScalesIn
<1> QED BY <1>1, <1>5, <1>6

LEMMA RunsEndHere ==
  ASSUME NEW text, NEW i \in Nat, i >= 1, NEW kind
  PROVE  /\ RunBefore(text, i, kind) \in 0..(i - 1)
         /\ \A k \in (i - RunBefore(text, i, kind))..(i - 1) : text[k].kind = kind
<1> DEFINE runs == {n \in 0..(i - 1) : \A k \in (i - n)..(i - 1) : text[k].kind = kind}
<1>1. 0 \in runs
  OBVIOUS
<1>2. runs \in SUBSET (0..(i - 1))
  OBVIOUS
<1>3. RunBefore(text, i, kind) = Max(runs)
  BY DEF RunBefore
<1>4. Max(runs) \in runs
  <2> HIDE DEF runs
  <2>1. i - 1 \in Nat
    OBVIOUS
  <2> QED BY <1>1, <1>2, <2>1, HighestNumber
<1> QED BY <1>3, <1>4

(* Of a sum of one term, with no scale twice, a reader takes what the      *)
(* guard does                                                              *)
LEMMA PlainSumIsRead ==
  ASSUME NEW text \in Seq(Tokens), Plain(text), NEW i \in 1..Len(text), IsRead(text, i)
  PROVE  Meant(text, i) = Amount(text, i)
<1>1. PICK s : s = i - ScalesBefore(text, i)
  OBVIOUS
<1>2. PICK a : a = s - NumbersBefore(text, i)
  OBVIOUS
<1>3. i \in Nat /\ i >= 1 /\ \A k \in 1..(i - 1) : text[k] \in Tokens
  <2>1. Len(text) \in Nat /\ \A k \in 1..Len(text) : text[k] \in Tokens
    BY LenProperties, ElementOfSeq
  <2> QED BY <2>1
<1>4. s \in 1..i /\ \A k \in s..(i - 1) : text[k].kind = "scale"
  BY <1>1, <1>3, RunsEndHere DEF ScalesBefore
<1>5. a \in 1..(s - 1) /\ \A k \in a..(s - 1) : text[k].kind = "number"
  <2>1. /\ NumbersBefore(text, i) \in 0..(s - 1)
        /\ \A k \in (s - NumbersBefore(text, i))..(s - 1) : text[k].kind = "number"
    BY <1>1, <1>4, RunsEndHere DEF NumbersBefore
  <2>2. NumbersBefore(text, i) > 0
    BY DEF IsRead
  <2> QED BY <1>2, <1>4, <2>1, <2>2
<1>6. /\ Start(text, i) = a
      /\ \A j, k \in s..(i - 1) : j # k => text[j].scale # text[k].scale
  BY <1>1, <1>2 DEF Plain
<1>7. \A k \in a..(s - 1) : text[k] \in Numerals
  <2> SUFFICES ASSUME NEW k \in a..(s - 1) PROVE text[k] \in Numerals
    OBVIOUS
  <2>1. text[k] \in Tokens /\ text[k].kind = "number"
    BY <1>3, <1>4, <1>5
  <2> QED BY <2>1 DEF Tokens, Numerals, Scale, Unit, And, Word
<1>8. IsTerm(text, a, s, i)
  BY <1>3, <1>4, <1>5, <1>6, <1>7 DEF IsTerm
<1>9. PICK number : JoinsTo(number, text, a, s - 1)
  <2>1. s - 1 \in Nat /\ a \in Nat /\ a <= s - 1
    BY <1>4, <1>5
  <2> QED BY <1>7, <2>1, JoinedStepByStep
<1>10. PICK sum : ReadsTo(sum, text, a, i - a)
  <2>1. i - a \in Nat /\ a \in Nat
    BY <1>4, <1>5
  <2>2. \A k \in a..(a + (i - a) - 1) : text[k] \in Tokens /\ text[k].kind \in {"number", "scale"}
    BY <1>3, <1>4, <1>5
  <2> QED BY <2>1, <2>2, ReadStepByStep
<1>11. PICK value : value = NumberOf(number[s - 1 - a])
  OBVIOUS
<1>12. /\ value \in Nat /\ sum[s - a].done = 0 /\ sum[s - a].open = value
  <2>1. a \in Nat /\ s \in Nat /\ i \in Nat
    BY <1>3, <1>4, <1>5
  <2>2. PICK b : b = s - 1
    OBVIOUS
  <2>3. PICK n : n = i - a
    OBVIOUS
  <2>4. JoinsTo(number, text, a, b) /\ ReadsTo(sum, text, a, n)
    BY <1>9, <1>10, <2>2, <2>3
  <2>5. ReadAsOne(sum, number, a, s)
    BY <1>8, <2>1, <2>2, <2>3, <2>4, NumbersAreJoined
  <2> QED BY <1>11, <2>5, NumeralsJoin DEF ReadAsOne
<1>13. value = NumberOf(Joined(text, a, s - 1))
  BY <1>9, <1>11 DEF JoinsTo
<1>14. sum[i - a].done = 0 /\ sum[i - a].open = Scaled(value, ScalesIn(text, s, i))
  <2>1. a \in Nat /\ s \in Nat /\ i \in Nat
    BY <1>3, <1>4, <1>5
  <2> QED BY <1>8, <1>10, <1>12, <2>1, ScalesAreCounted
<1>15. Scaled(value, ScalesIn(text, s, i)) \in Nat
  <2>1. i - a \in 0..(i - a)
    BY <1>4, <1>5
  <2>2. sum[i - a] \in Accounts
    BY <1>10, <2>1 DEF ReadsTo
  <2> QED BY <1>14, <2>2 DEF Accounts
<1>16. Reading(text, a, i - 1) = sum[i - a]
  <2>1. a + (i - a) - 1 = i - 1
    BY <1>4, <1>5
  <2> QED BY <1>10, <2>1 DEF ReadsTo
<1>17. Meant(text, i) = <<Scaled(value, ScalesIn(text, s, i)), text[i].unit>>
  <2> DEFINE r == Reading(text, Start(text, i), i - 1)
  <2>1. r = sum[i - a]
    BY <1>6, <1>16
  <2>2. r.done + r.open = Scaled(value, ScalesIn(text, s, i))
    BY <1>14, <1>15, <2>1
  <2> QED BY <2>2 DEF Meant
<1>18. Amount(text, i) = <<Scaled(value, ScalesIn(text, s, i)), text[i].unit>>
  BY <1>1, <1>2, <1>13 DEF Amount, ScalesIn
<1> QED BY <1>17, <1>18

LEMMA PlainSumsAreRead ==
  ASSUME NEW text \in Seq(Tokens), Plain(text)
  PROVE  Said(text) = Amounts(text)
<1>1. \A i \in {k \in 1..Len(text) : IsRead(text, k)} : Meant(text, i) = Amount(text, i)
  BY PlainSumIsRead
<1> QED BY <1>1 DEF Said, Amounts

------------------------------------------------------------------------------
(* A decision is followed to its end, so what is kept of it is what the    *)
(* step that took it has checked.                                          *)
AnswerInv == spent \in Nat /\ (last.outcome = "none" => ~last.called)

LEMMA NothingIsSaid == Amounts(<<>>) = {} /\ <<>> \in Seq(Tokens)
<1>1. Len(<<>>) = 0 /\ 1..0 = {}
  OBVIOUS
<1> QED BY <1>1 DEF Amounts

LEMMA WhatIsAnsweredIsOfficial ==
  ASSUME NEW hits \in SUBSET Hits, NEW reply \in Replies, Objected(reply, hits) = {},
         Plain(reply.answer), \A h \in hits : Plain(h.content)
  PROVE  Said(reply.answer) \subseteq
           UNION {Said(h.content) : h \in {g \in hits : g.class = "official"}}
<1>1. ~Ungrounded(reply.answer, hits, <<>>)
  <2>1. 4 \in 1..4
    OBVIOUS
  <2>2. ~Objections(reply, hits)[4][2]
    BY <2>1 DEF Objected
  <2> QED BY <2>2 DEF Objections
<1>2. Amounts(reply.answer) \subseteq Official(hits)
  BY <1>1, NothingIsSaid DEF Ungrounded
<1>3. reply.answer \in Seq(Tokens) /\ \A h \in hits : h.content \in Seq(Tokens)
  BY AnswerAssumption DEF Replies, Hits
<1>4. Said(reply.answer) = Amounts(reply.answer)
  BY <1>3, PlainSumsAreRead
<1>5. \A h \in hits : Said(h.content) = Amounts(h.content)
  BY <1>3, PlainSumsAreRead
<1> QED BY <1>2, <1>4, <1>5 DEF Official

LEMMA WhatACallIsFor ==
  ASSUME AnswerInv, NEW m, NEW hits, Asked(m), hits # {}, MayCall(spent, spent), last'.called,
         last'.message = m, last'.hits = hits
  PROVE  PaidForAReason
<1>1. Fired(m.text) = {} /\ (m.kind # "none" => m.read # NotRead)
  BY DEF Asked, GoesOn
<1>2. spent < DayCap /\ spent < MonthCap
  BY BudgetAssumption DEF AnswerInv, MayCall, Evaluate
<1> QED BY <1>1, <1>2 DEF PaidForAReason

LEMMA NobodyWasCalled ==
  ASSUME last'.called = FALSE
  PROVE  OnlyOfficialSums' /\ PaidForAReason
BY DEF OnlyOfficialSums, PaidForAReason

LEMMA JudgeIsGrounded ==
  ASSUME AnswerInv, NEW m, NEW hits \in SUBSET Hits, NEW reply \in Replies, Judge(m, hits, reply)
  PROVE  OnlyOfficialSums' /\ PaidForAReason
<1>1. /\ last'.message = m /\ last'.hits = hits /\ last'.called /\ last'.said = reply.answer
      /\ last'.outcome = "answer" => Objected(reply, hits) = {}
  BY DEF Judge, Record
<1>2. PaidForAReason
  BY <1>1, WhatACallIsFor DEF Judge
<1>3. OnlyOfficialSums'
  <2> SUFFICES ASSUME (last'.outcome = "answer" /\ last'.called /\ Plain(last'.said)
                         /\ \A h \in last'.hits : Plain(h.content))
               PROVE  Said(last'.said) \subseteq
                        UNION {Said(h.content) : h \in {g \in last'.hits : g.class = "official"}}
    BY DEF OnlyOfficialSums
  <2>1. Objected(reply, hits) = {} /\ Plain(reply.answer) /\ \A h \in hits : Plain(h.content)
    BY <1>1
  <2> QED BY <1>1, <2>1, WhatIsAnsweredIsOfficial
<1> QED BY <1>2, <1>3

LEMMA AnswerInvariance == AnswerSpec => []AnswerInv
<1>1. AnswerInit => AnswerInv
  BY DEF AnswerInit, AnswerInv
<1>2. AnswerInv /\ [AnswerNext]_answerVars => AnswerInv'
  <2> SUFFICES ASSUME AnswerInv, [AnswerNext]_answerVars PROVE AnswerInv'
    OBVIOUS
  <2>1. CASE UNCHANGED answerVars
    BY <2>1 DEF AnswerInv, answerVars
  <2>3. CASE OthersSpend
    BY <2>3 DEF AnswerInv, OthersSpend
  <2>2. CASE \E m \in Messages : Handle(m)
    BY <2>2 DEF Handle, ObeyRule, ReviewStatement, LeaveMedia, LackSources, RespectCap,
       CallInVain, Judge, Silent, Record, AnswerInv
  <2> QED BY <2>1, <2>2, <2>3 DEF AnswerNext
<1> QED BY <1>1, <1>2, PTL DEF AnswerSpec

\* What is answered with sums of one term states sums of an official source,
\* and no call is paid for without a reason (ai/guard.ungrounded_money,
\* ai/decision.deterministic_trigger, ai/budget, ai/runtime.handle_message).
THEOREM AnswerHolds == AnswerSpec => AnswerIsGrounded
<1>1. AnswerInv /\ AnswerNext => OnlyOfficialSums' /\ PaidForAReason
  <2> SUFFICES ASSUME AnswerInv, AnswerNext PROVE OnlyOfficialSums' /\ PaidForAReason
    OBVIOUS
  <2>1. CASE OthersSpend
    <3>1. last' = last /\ ~last.called
      BY <2>1 DEF AnswerNext, AnswerInv, OthersSpend
    <3> QED BY <3>1 DEF OnlyOfficialSums, PaidForAReason
  <2>2. CASE \E m \in Messages : Handle(m)
    <3>1. PICK m \in Messages : Handle(m)
      BY <2>2
    <3>2. CASE ObeyRule(m) \/ ReviewStatement(m) \/ LeaveMedia(m) \/ LackSources(m)
      <4>1. last'.called = FALSE
        BY <3>2 DEF ObeyRule, ReviewStatement, LeaveMedia, LackSources, Silent, Record
      <4> QED BY <4>1, NobodyWasCalled
    <3>3. ASSUME NEW hits \in SUBSET Hits, RespectCap(m, hits)
          PROVE  OnlyOfficialSums' /\ PaidForAReason
      <4>1. last'.called = FALSE
        BY <3>3 DEF RespectCap, Silent, Record
      <4> QED BY <4>1, NobodyWasCalled
    <3>4. ASSUME NEW hits \in SUBSET Hits, CallInVain(m, hits)
          PROVE  OnlyOfficialSums' /\ PaidForAReason
      <4>1. last'.message = m /\ last'.hits = hits /\ last'.called /\ last'.outcome = "silence"
        BY <3>4 DEF CallInVain, Record
      <4>2. PaidForAReason
        BY <3>4, <4>1, WhatACallIsFor DEF CallInVain
      <4> QED BY <4>1, <4>2 DEF OnlyOfficialSums
    <3> QED BY <3>1, <3>2, <3>3, <3>4, JudgeIsGrounded DEF Handle
  <2> QED BY <2>1, <2>2 DEF AnswerNext
<1>2. AnswerInv /\ [AnswerNext]_answerVars => [OnlyOfficialSums' /\ PaidForAReason]_answerVars
  BY <1>1
<1> QED BY <1>2, AnswerInvariance, PTL DEF AnswerSpec, AnswerIsGrounded

=============================================================================
