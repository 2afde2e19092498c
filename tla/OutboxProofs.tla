----------------------------- MODULE OutboxProofs -----------------------------
(***************************************************************************)
(* Proofs about the outbox, for any set of answers, any number of parts,   *)
(* any number of executors and any bound on the attempts.                  *)
(***************************************************************************)
EXTENDS Outbox, TLAPS

\* What an executor knows of the delivery it holds.
HeldBy(e) ==
  Holding(e) =>
    /\ job[e] \in Deliveries
    /\ status[job[e]] \in {"sending", "abandoned"}
    /\ base[e] = sentParts[job[e]]
    /\ Len(inbox[job[e]]) >= base[e] + done[e]
    /\ outcome[e] # "unknown" => Len(inbox[job[e]]) = base[e] + done[e]
    /\ pc[e] # "record" <=> outcome[e] = "none"
    /\ pc[e] = "claimed" => done[e] = 0
    /\ pc[e] \in {"begin", "send"} => base[e] + done[e] < Parts[job[e]]
    /\ pc[e] = "send" => read[job[e]]
    /\ outcome[e] = "sent" => /\ base[e] + done[e] = Parts[job[e]]
                              /\ Len(inbox[job[e]]) > 0

\* Between the mentor's decision and the claim an executor holds nothing yet.
WaitsFor(e) ==
  /\ pc[e] \in {"idle", "approved", "queued"} => outcome[e] = "none"
  /\ pc[e] \in {"approved", "queued"} => job[e] \in Deliveries
  /\ pc[e] = "approved" => /\ status[job[e]] = "absent"
                           /\ draft[job[e]] = "approved"

\* The executor is about to create the row of d, or pushes it.
Owns(e, d) == (Holding(e) \/ pc[e] = "approved") /\ job[e] = d

\* What a row says about the chat.
RowOf(d) ==
  /\ \A i \in DOMAIN inbox[d] : inbox[d][i] = i
  /\ status[d] \in {"absent", "pending"} => sentParts[d] = Len(inbox[d])
  /\ status[d] = "sent" => Len(inbox[d]) = Parts[d] /\ Len(inbox[d]) > 0
  /\ Len(inbox[d]) > 0 => read[d]

\* What a draft says about its row.
DraftOf(d) ==
  /\ status[d] = "sent" => draft[d] \in {"none", "sent"}
  /\ draft[d] = "pending" => status[d] = "absent"
  /\ draft[d] = "sent" => status[d] = "sent"
  /\ draft[d] = "failed" => status[d] \in {"absent", "abandoned"}

\* The inductive invariant.  A delivery has one owner, and one that was given up
\* with its draft has none.
IInv ==
  /\ TypeOK
  /\ \A e \in Executors : HeldBy(e) /\ WaitsFor(e)
  /\ \A d \in Deliveries : RowOf(d) /\ DraftOf(d)
  /\ \A e, f \in Executors, d \in Deliveries : Owns(e, d) /\ Owns(f, d) => e = f
  /\ \A e \in Executors, d \in Deliveries : draft[d] = "failed" => ~ Owns(e, d)

-----------------------------------------------------------------------------
\* A step that touches one executor and one delivery which nobody else owns
\* preserves the invariant if it does so for the two of them.
LEMMA LocalStep ==
  ASSUME IInv, NEW e \in Executors, NEW d \in Deliveries, TypeOK',
         \A f \in Executors \ {e} :
           /\ pc'[f] = pc[f]
           /\ job'[f] = job[f]
           /\ base'[f] = base[f]
           /\ done'[f] = done[f]
           /\ outcome'[f] = outcome[f],
         \A c \in Deliveries \ {d} :
           /\ status'[c] = status[c]
           /\ sentParts'[c] = sentParts[c]
           /\ draft'[c] = draft[c]
           /\ inbox'[c] = inbox[c]
           /\ read'[c] = read[c],
         \A f \in Executors \ {e} : ~ Owns(f, d),
         (Holding(e) \/ pc[e] = "approved")' => job'[e] = d,
         HeldBy(e)', WaitsFor(e)', RowOf(d)', DraftOf(d)',
         draft'[d] = "failed" => ~ Owns(e, d)'
  PROVE  IInv'
<1>1. ASSUME NEW f \in Executors
      PROVE  HeldBy(f)' /\ WaitsFor(f)'
  <2>1. CASE f = e
    BY <2>1
  <2>2. CASE f # e
    <3>1. HeldBy(f) /\ WaitsFor(f) /\ ~ Owns(f, d)
      BY <2>2 DEF IInv
    <3>2. HeldBy(f)'
      BY <2>2, <3>1 DEF HeldBy, Holding, Owns
    <3>3. WaitsFor(f)'
      BY <2>2, <3>1 DEF WaitsFor, Owns
    <3>4. QED
      BY <3>2, <3>3
  <2>3. QED
    BY <2>1, <2>2
<1>2. ASSUME NEW c \in Deliveries
      PROVE  RowOf(c)' /\ DraftOf(c)'
  <2>1. CASE c = d
    BY <2>1
  <2>2. CASE c # d
    <3>1. RowOf(c) /\ DraftOf(c)
      BY DEF IInv
    <3>2. QED
      BY <2>2, <3>1 DEF RowOf, DraftOf
  <2>3. QED
    BY <2>1, <2>2
<1>3. \A f \in Executors \ {e}, c \in Deliveries : Owns(f, c)' <=> Owns(f, c)
  BY DEF Owns, Holding
<1>4. \A c \in Deliveries : Owns(e, c)' => c = d
  BY DEF Owns
<1>5. \A f, g \in Executors, c \in Deliveries : Owns(f, c)' /\ Owns(g, c)' => f = g
  BY <1>3, <1>4 DEF IInv
<1>6. \A f \in Executors, c \in Deliveries : draft'[c] = "failed" => ~ Owns(f, c)'
  BY <1>3, <1>4 DEF IInv
<1>7. QED
  BY <1>1, <1>2, <1>5, <1>6 DEF IInv

-----------------------------------------------------------------------------
(* One lemma per action.                                                   *)

LEMMA EnqueueAutoStep ==
  ASSUME IInv, NEW d \in Deliveries, EnqueueAuto(d)
  PROVE  IInv'
<1> USE DEF EnqueueAuto, Enqueue, memory, frame, chat
<1>1. TypeOK'
  BY DEF IInv, TypeOK, Statuses
<1>2. \A f \in Executors : ~ Owns(f, d)
  BY DEF IInv, HeldBy, WaitsFor, Owns
<1>3. Worker \in Executors /\ pc[Worker] = "idle" /\ HeldBy(Worker) /\ WaitsFor(Worker)
  BY ConstantsAssumption DEF IInv
<1>4. RowOf(d) /\ DraftOf(d)
  BY DEF IInv
<1>5. HeldBy(Worker)' /\ WaitsFor(Worker)'
  BY <1>3 DEF HeldBy, WaitsFor, Holding
<1>6. RowOf(d)' /\ DraftOf(d)'
  BY <1>4 DEF IInv, TypeOK, RowOf, DraftOf
<1>7. ~ (Holding(Worker) \/ pc[Worker] = "approved")'
  BY <1>3 DEF Holding
<1>8. QED
  BY <1>1, <1>2, <1>3, <1>5, <1>6, <1>7, LocalStep DEF IInv, TypeOK, Owns

LEMMA ApproveStep ==
  ASSUME IInv, NEW e \in Executors, NEW d \in Deliveries, Approve(e, d)
  PROVE  IInv'
<1> USE DEF Approve, rows, memory, chat
<1>1. TypeOK'
  BY DEF IInv, TypeOK, Stages, Drafts
<1>2. status[d] = "absent" /\ \A f \in Executors : ~ Owns(f, d)
  BY DEF IInv, HeldBy, WaitsFor, DraftOf, Owns
<1>3. HeldBy(e) /\ WaitsFor(e) /\ RowOf(d) /\ DraftOf(d)
  BY DEF IInv
<1>4. HeldBy(e)' /\ WaitsFor(e)' /\ RowOf(d)' /\ DraftOf(d)'
  BY <1>2, <1>3 DEF IInv, TypeOK, HeldBy, WaitsFor, RowOf, DraftOf, Holding
<1>5. QED
  BY <1>1, <1>2, <1>4, LocalStep DEF IInv, TypeOK, Holding, Owns

LEMMA QueueDraftStep ==
  ASSUME IInv, NEW e \in Executors, QueueDraft(e)
  PROVE  IInv'
<1>1. PICK d \in Deliveries : d = job[e]
  BY DEF IInv, WaitsFor, QueueDraft
<1>2. /\ pc[e] = "approved"
      /\ status[d] = "absent"
      /\ draft[d] = "approved"
      /\ \A f \in Executors \ {e} : ~ Owns(f, d)
      /\ HeldBy(e) /\ WaitsFor(e) /\ RowOf(d) /\ DraftOf(d)
  BY <1>1 DEF IInv, WaitsFor, Owns, QueueDraft
<1>3. CASE connected
  <2>1. /\ Enqueue(d)
        /\ Goto(e, "queued")
        /\ UNCHANGED <<draft, accountPaused, memory, chat>>
    BY <1>1, <1>3 DEF QueueDraft
  <2> USE <2>1 DEF Enqueue, Goto, memory, chat
  <2>2. TypeOK'
    BY <1>1 DEF IInv, TypeOK, Statuses, Stages
  <2>3. pc'[e] = "queued" /\ job'[e] = d /\ outcome'[e] = "none"
    BY <1>1, <1>2 DEF IInv, TypeOK, WaitsFor
  <2>4. HeldBy(e)' /\ WaitsFor(e)'
    BY <2>3 DEF HeldBy, WaitsFor, Holding
  <2>5. RowOf(d)' /\ DraftOf(d)'
    BY <1>2 DEF IInv, TypeOK, RowOf, DraftOf
  <2>6. /\ \A f \in Executors \ {e} :
             /\ pc'[f] = pc[f] /\ job'[f] = job[f] /\ base'[f] = base[f]
             /\ done'[f] = done[f] /\ outcome'[f] = outcome[f]
        /\ \A c \in Deliveries \ {d} :
             /\ status'[c] = status[c] /\ sentParts'[c] = sentParts[c] /\ draft'[c] = draft[c]
             /\ inbox'[c] = inbox[c] /\ read'[c] = read[c]
    BY DEF IInv, TypeOK
  <2>7. ~ Owns(e, d)'
    BY <2>3 DEF Owns, Holding
  <2>8. QED
    BY <1>2, <2>2, <2>3, <2>4, <2>5, <2>6, <2>7, LocalStep DEF Holding
<1>4. CASE ~ connected
  <2>1. /\ draft' = [draft EXCEPT ![d] = "failed"]
        /\ Release(e)
        /\ UNCHANGED <<rows, accountPaused, memory, chat>>
    BY <1>1, <1>4 DEF QueueDraft
  <2> USE <2>1 DEF Release, memory, chat, rows
  <2>2. TypeOK'
    BY DEF IInv, TypeOK, Drafts, Stages, Outcomes
  <2>3. pc'[e] = "idle" /\ outcome'[e] = "none"
    BY DEF IInv, TypeOK
  <2>4. HeldBy(e)' /\ WaitsFor(e)'
    BY <2>3 DEF HeldBy, WaitsFor, Holding
  <2>5. RowOf(d)' /\ DraftOf(d)'
    BY <1>2 DEF IInv, TypeOK, RowOf, DraftOf
  <2>6. QED
    BY <1>2, <2>2, <2>3, <2>4, <2>5, LocalStep DEF IInv, TypeOK, Holding, Owns
<1>5. QED
  BY <1>3, <1>4

LEMMA ClaimStep ==
  ASSUME IInv, NEW e \in Executors, NEW d \in Deliveries, Claim(e, d),
         pc[e] \in {"idle", "queued"}
  PROVE  IInv'
<1> USE DEF Claim, memory, chat
<1>1. TypeOK'
  BY DEF IInv, TypeOK, Stages, Statuses
<1>2. \A f \in Executors : ~ Owns(f, d)
  BY DEF IInv, HeldBy, WaitsFor, Owns
<1>3. HeldBy(e) /\ WaitsFor(e) /\ RowOf(d) /\ DraftOf(d)
  BY DEF IInv
<1>4. HeldBy(e)' /\ WaitsFor(e)' /\ RowOf(d)' /\ DraftOf(d)'
  BY <1>3 DEF IInv, TypeOK, HeldBy, WaitsFor, RowOf, DraftOf, Holding
<1>5. draft[d] # "failed" /\ job'[e] = d
  BY <1>3 DEF DraftOf, IInv, TypeOK
<1>6. QED
  BY <1>1, <1>2, <1>4, <1>5, LocalStep DEF IInv, TypeOK

\* While a delivery is held, its holder is the only owner.
LEMMA HolderFacts ==
  ASSUME IInv, NEW e \in Executors, Holding(e)
  PROVE  \E d \in Deliveries :
           /\ d = job[e]
           /\ status[d] \in {"sending", "abandoned"}
           /\ draft[d] \in {"none", "approved"}
           /\ \A f \in Executors \ {e} : ~ Owns(f, d)
           /\ HeldBy(e) /\ WaitsFor(e) /\ RowOf(d) /\ DraftOf(d)
<1>1. HeldBy(e) /\ WaitsFor(e) /\ job[e] \in Deliveries
  BY DEF IInv, HeldBy
<1>2. RowOf(job[e]) /\ DraftOf(job[e]) /\ draft[job[e]] \in Drafts \ {"failed"}
  BY <1>1 DEF IInv, TypeOK, Owns
<1>3. \A f \in Executors \ {e} : ~ Owns(f, job[e])
  BY <1>1 DEF IInv, Owns
<1>4. QED
  BY <1>1, <1>2, <1>3 DEF HeldBy, DraftOf, Drafts

LEMMA StartStep ==
  ASSUME IInv, NEW e \in Executors, Start(e)
  PROVE  IInv'
<1> USE DEF Start, Return, Goto, rows, chat
<1>1. PICK d \in Deliveries :
        /\ d = job[e]
        /\ \A f \in Executors \ {e} : ~ Owns(f, d)
        /\ HeldBy(e) /\ WaitsFor(e) /\ RowOf(d) /\ DraftOf(d)
        /\ draft[d] # "failed"
  BY HolderFacts DEF Holding
<1>2. TypeOK'
  BY DEF IInv, TypeOK, Stages, Outcomes
<1>3. /\ job'[e] = d /\ base'[e] = base[e] /\ done'[e] = 0
      /\ \/ pc'[e] = "record" /\ outcome'[e] \in {"blocked", "unknown"}
         \/ /\ pc'[e] = "begin" /\ outcome'[e] = "none"
            /\ base[e] < Parts[d]
  BY <1>1, ConstantsAssumption DEF IInv, TypeOK, HeldBy, Holding
<1>4. HeldBy(e)' /\ WaitsFor(e)'
  BY <1>1, <1>3 DEF IInv, TypeOK, HeldBy, WaitsFor, Holding
<1>5. RowOf(d)' /\ DraftOf(d)'
  BY <1>1 DEF RowOf, DraftOf
<1>6. QED
  BY <1>1, <1>2, <1>3, <1>4, <1>5, LocalStep DEF IInv, TypeOK

LEMMA BeginStep ==
  ASSUME IInv, NEW e \in Executors, Begin(e)
  PROVE  IInv'
<1> USE DEF Begin, Return, Goto, rows
<1>1. PICK d \in Deliveries :
        /\ d = job[e]
        /\ \A f \in Executors \ {e} : ~ Owns(f, d)
        /\ HeldBy(e) /\ WaitsFor(e) /\ RowOf(d) /\ DraftOf(d)
        /\ draft[d] # "failed"
  BY HolderFacts DEF Holding
<1>2. /\ flood' \in BOOLEAN
      /\ read' \in [Deliveries -> BOOLEAN]
      /\ \A c \in Deliveries \ {d} : read'[c] = read[c]
      /\ read[d] => read'[d]
  <2>1. read \in [Deliveries -> BOOLEAN] /\ flood \in BOOLEAN
    BY DEF IInv, TypeOK
  <2>2. \/ read' = [read EXCEPT ![d] = read[d] \/ (base[e] = 0 /\ done[e] = 0)]
        \/ read' = read
        \/ \E marked \in BOOLEAN : read' = [read EXCEPT ![d] = read[d] \/ marked]
    BY <1>1
  <2>3. flood' = flood \/ flood' = TRUE
    OBVIOUS
  <2> HIDE DEF Begin
  <2>4. QED
    BY <2>1, <2>2, <2>3
<1>3. /\ \/ pc' = [pc EXCEPT ![e] = "send"] /\ outcome' = outcome
         \/ /\ pc' = [pc EXCEPT ![e] = "record"]
            /\ \E r \in {"blocked", "unknown"} : outcome' = [outcome EXCEPT ![e] = r]
      /\ UNCHANGED <<job, base, done>>
  OBVIOUS
<1>4. TypeOK'
  BY <1>2, <1>3 DEF IInv, TypeOK, Stages, Outcomes
<1>5. pc'[e] = "send" => read'[d]
  <2>1. CASE base[e] = 0 /\ done[e] = 0
    BY <1>1, <2>1 DEF IInv, TypeOK
  <2>2. CASE base[e] # 0 \/ done[e] # 0
    BY <1>1, <1>2, <2>2 DEF IInv, TypeOK, HeldBy, Holding, RowOf
  <2>3. QED
    BY <2>1, <2>2
<1>6. HeldBy(e)' /\ WaitsFor(e)'
  BY <1>1, <1>3, <1>5 DEF IInv, TypeOK, HeldBy, WaitsFor, Holding
<1>7. RowOf(d)' /\ DraftOf(d)'
  BY <1>1, <1>2 DEF IInv, TypeOK, RowOf, DraftOf
<1>8. QED
  BY <1>1, <1>2, <1>3, <1>4, <1>6, <1>7, LocalStep DEF IInv, TypeOK

LEMMA SendPartStep ==
  ASSUME IInv, NEW e \in Executors, SendPart(e)
  PROVE  IInv'
<1> USE DEF rows
<1>1. PICK d \in Deliveries :
        /\ d = job[e]
        /\ \A f \in Executors \ {e} : ~ Owns(f, d)
        /\ HeldBy(e) /\ WaitsFor(e) /\ RowOf(d) /\ DraftOf(d)
        /\ draft[d] # "failed"
  BY HolderFacts DEF Holding, SendPart
<1> DEFINE n == Len(inbox[d])
           Reached == inbox' = [inbox EXCEPT ![d] = Append(@, n + 1)]
<1>2. /\ pc[e] = "send" /\ outcome[e] = "none" /\ read[d]
      /\ n = base[e] + done[e] /\ n < Parts[d] /\ n \in Nat
      /\ status[d] \in {"sending", "abandoned"} /\ base[e] = sentParts[d]
  BY <1>1 DEF IInv, TypeOK, HeldBy, Holding, SendPart
<1>3. /\ UNCHANGED <<rows, draft, accountPaused, connected, gatePaused, sweepDue, read, job, base, seen>>
      /\ \/ /\ Reached
            /\ done' = [done EXCEPT ![e] = @ + 1]
            /\ \/ /\ n + 1 = Parts[d]
                  /\ pc' = [pc EXCEPT ![e] = "record"]
                  /\ outcome' = [outcome EXCEPT ![e] = "sent"]
               \/ /\ n + 1 # Parts[d]
                  /\ pc' = [pc EXCEPT ![e] = "begin"]
                  /\ outcome' = outcome
            /\ flood' = flood
         \/ /\ UNCHANGED <<inbox, done>>
            /\ pc' = [pc EXCEPT ![e] = "record"]
            /\ outcome' = [outcome EXCEPT ![e] = "blocked"]
            /\ flood' = TRUE
         \/ /\ Reached \/ UNCHANGED inbox
            /\ done' = done
            /\ pc' = [pc EXCEPT ![e] = "record"]
            /\ outcome' = [outcome EXCEPT ![e] = "unknown"]
            /\ flood' = flood
  BY <1>1, <1>2 DEF SendPart, Reach, Return
<1>4. Reached =>
        /\ inbox' \in [Deliveries -> Seq(Nat)]
        /\ \A c \in Deliveries \ {d} : inbox'[c] = inbox[c]
        /\ Len(inbox'[d]) = n + 1
        /\ \A i \in DOMAIN inbox'[d] : inbox'[d][i] = i
  BY <1>1, <1>2 DEF IInv, TypeOK, RowOf
<1>5. /\ inbox' \in [Deliveries -> Seq(Nat)]
      /\ \A c \in Deliveries \ {d} : inbox'[c] = inbox[c]
      /\ \A i \in DOMAIN inbox'[d] : inbox'[d][i] = i
      /\ \/ Len(inbox'[d]) = n + 1 /\ (Reached \/ outcome'[e] = "unknown")
         \/ inbox' = inbox
  BY <1>1, <1>3, <1>4 DEF IInv, TypeOK, RowOf
<1> HIDE DEF Reached
<1>6. TypeOK'
  <2>1. done' \in [Executors -> Nat]
    <3>1. done \in [Executors -> Nat]
      BY DEF IInv, TypeOK
    <3>2. done' = done \/ done' = [done EXCEPT ![e] = @ + 1]
      BY <1>3
    <3>3. QED
      BY <3>1, <3>2
  <2>2. flood' \in BOOLEAN
    <3>1. flood \in BOOLEAN
      BY DEF IInv, TypeOK
    <3>2. flood' = flood \/ flood' = TRUE
      BY <1>3
    <3>3. QED
      BY <3>1, <3>2, Zenon
  <2>3. pc' \in [Executors -> Stages] /\ outcome' \in [Executors -> Outcomes]
    BY <1>3 DEF IInv, TypeOK, Stages, Outcomes
  <2>4. UNCHANGED <<rows, draft, accountPaused, connected, gatePaused, sweepDue, read, job, base, seen>>
    BY <1>3
  <2>5. QED
    BY <1>5, <2>1, <2>2, <2>3, <2>4 DEF IInv, TypeOK
<1>7. /\ pc'[e] \in {"begin", "record"}
      /\ pc'[e] = "begin" => /\ outcome'[e] = "none"
                             /\ base'[e] + done'[e] < Parts[d]
      /\ pc'[e] = "record" => outcome'[e] # "none"
      /\ outcome'[e] = "sent" => base'[e] + done'[e] = Parts[d] /\ Len(inbox'[d]) > 0
      /\ Len(inbox'[d]) >= base'[e] + done'[e]
      /\ outcome'[e] # "unknown" => Len(inbox'[d]) = base'[e] + done'[e]
  BY <1>2, <1>3, <1>4, ConstantsAssumption DEF IInv, TypeOK
<1>8. HeldBy(e)' /\ WaitsFor(e)'
  BY <1>1, <1>2, <1>3, <1>7 DEF HeldBy, WaitsFor, Holding
<1>9. RowOf(d)' /\ DraftOf(d)'
  BY <1>1, <1>2, <1>3, <1>5 DEF RowOf, DraftOf
<1>10. /\ \A f \in Executors \ {e} :
            /\ pc'[f] = pc[f] /\ job'[f] = job[f] /\ base'[f] = base[f]
            /\ done'[f] = done[f] /\ outcome'[f] = outcome[f]
       /\ \A c \in Deliveries \ {d} :
            /\ status'[c] = status[c] /\ sentParts'[c] = sentParts[c] /\ draft'[c] = draft[c]
            /\ inbox'[c] = inbox[c] /\ read'[c] = read[c]
  BY <1>3, <1>5 DEF IInv, TypeOK
<1>11. job'[e] = d /\ draft' = draft /\ (draft[d] = "failed" => ~ Owns(e, d))
  BY <1>1, <1>3 DEF IInv
<1>12. QED
  BY <1>1, <1>6, <1>8, <1>9, <1>10, <1>11, LocalStep

LEMMA RecordStep ==
  ASSUME IInv, NEW e \in Executors, Record(e)
  PROVE  IInv'
<1> USE DEF memory, chat
<1>1. PICK d \in Deliveries :
        /\ d = job[e]
        /\ status[d] \in {"sending", "abandoned"}
        /\ draft[d] \in {"none", "approved"}
        /\ \A f \in Executors \ {e} : ~ Owns(f, d)
        /\ HeldBy(e) /\ WaitsFor(e) /\ RowOf(d) /\ DraftOf(d)
  BY HolderFacts DEF Holding, Record
<1>2. /\ Release(e)
      /\ UNCHANGED <<attempts, accountPaused, memory, chat>>
      /\ sentParts' = [sentParts EXCEPT ![d] = @ + done[e]]
  BY <1>1 DEF Record, CountParts
<1>3. \E v \in {"sent", "failed", "pending", "abandoned"}, w \in {"none", "approved", "sent", "failed"} :
        /\ status' = [status EXCEPT ![d] = v]
        /\ draft' = [draft EXCEPT ![d] = w]
        /\ v = "sent" => outcome[e] = "sent" /\ w \in {"none", "sent"}
        /\ v = "pending" => outcome[e] = "blocked"
        /\ w = "sent" => v = "sent"
        /\ w = "failed" => v = "abandoned"
  <2>0. draft = [draft EXCEPT ![d] = draft[d]]
    BY DEF IInv, TypeOK
  <2>1. CASE MarkSent(e)
    BY <1>1, <2>0, <2>1 DEF MarkSent, SettleDraft
  <2>2. CASE RetryLater(e)
    BY <1>1, <2>0, <2>2 DEF RetryLater
  <2>3. CASE Abandon(e)
    BY <1>1, <2>0, <2>3 DEF Abandon, SettleDraft
  <2>4. QED
    BY <2>1, <2>2, <2>3 DEF Record
<1>4. due' \in [Deliveries -> BOOLEAN] /\ aged' \in [Deliveries -> BOOLEAN]
  BY DEF Record, MarkSent, RetryLater, Abandon, IInv, TypeOK
<1>5. TypeOK'
  <2>1. status' \in [Deliveries -> Statuses] /\ draft' \in [Deliveries -> Drafts]
    BY <1>3 DEF IInv, TypeOK, Statuses, Drafts
  <2>2. sentParts' \in [Deliveries -> Nat]
    BY <1>2 DEF IInv, TypeOK
  <2>3. QED
    BY <1>2, <1>4, <2>1, <2>2 DEF Release, IInv, TypeOK, Stages, Outcomes
<1>6. pc'[e] = "idle" /\ outcome'[e] = "none"
  BY <1>2 DEF Release, IInv, TypeOK
<1>7. HeldBy(e)' /\ WaitsFor(e)'
  BY <1>6 DEF HeldBy, WaitsFor, Holding
<1>8. RowOf(d)' /\ DraftOf(d)'
  BY <1>1, <1>2, <1>3 DEF Record, IInv, TypeOK, RowOf, DraftOf, HeldBy, Holding
<1>9. /\ ~ (Holding(e) \/ pc[e] = "approved")' /\ ~ Owns(e, d)'
      /\ \A f \in Executors \ {e} : /\ pc'[f] = pc[f]
                                     /\ job'[f] = job[f]
                                     /\ base'[f] = base[f]
                                     /\ done'[f] = done[f]
                                     /\ outcome'[f] = outcome[f]
  BY <1>2, <1>6 DEF Release, IInv, TypeOK, Holding, Owns
<1>10. \A c \in Deliveries \ {d} : /\ status'[c] = status[c]
                                   /\ sentParts'[c] = sentParts[c]
                                   /\ draft'[c] = draft[c]
                                   /\ inbox'[c] = inbox[c]
                                   /\ read'[c] = read[c]
  BY <1>2, <1>3 DEF IInv, TypeOK
<1>11. QED
  BY <1>1, <1>5, <1>7, <1>8, <1>9, <1>10, LocalStep

LEMMA NoChannelStep ==
  ASSUME IInv, NEW e \in Executors, NoChannel(e)
  PROVE  IInv'
<1> USE DEF NoChannel, Release, memory, chat
<1>1. PICK d \in Deliveries :
        /\ d = job[e]
        /\ status[d] \in {"sending", "abandoned"}
        /\ draft[d] \in {"none", "approved"}
        /\ \A f \in Executors \ {e} : ~ Owns(f, d)
        /\ HeldBy(e) /\ WaitsFor(e) /\ RowOf(d) /\ DraftOf(d)
  BY HolderFacts DEF Holding
<1>2. TypeOK'
  BY <1>1 DEF IInv, TypeOK, Statuses, Stages, Outcomes
<1>3. pc'[e] = "idle" /\ outcome'[e] = "none" /\ status'[d] = "abandoned"
  BY <1>1 DEF IInv, TypeOK
<1>4. HeldBy(e)' /\ WaitsFor(e)'
  BY <1>3 DEF HeldBy, WaitsFor, Holding
<1>5. RowOf(d)' /\ DraftOf(d)'
  BY <1>1, <1>3 DEF RowOf, DraftOf
<1>6. ~ (Holding(e) \/ pc[e] = "approved")' /\ ~ Owns(e, d)'
  BY <1>3 DEF Holding, Owns
<1>7. QED
  BY <1>1, <1>2, <1>4, <1>5, <1>6, LocalStep DEF IInv, TypeOK

\* Letting go without touching the database.
LEMMA ReleaseStep ==
  ASSUME IInv, NEW e \in Executors, Release(e),
         UNCHANGED <<rows, draft, accountPaused, memory, chat>>
  PROVE  IInv'
<1> USE DEF Release, rows, memory, chat
<1>1. TypeOK'
  BY DEF IInv, TypeOK, Stages, Outcomes
<1>2. \A f \in Executors : /\ f # e => /\ pc'[f] = pc[f]
                                       /\ job'[f] = job[f]
                                       /\ base'[f] = base[f]
                                       /\ done'[f] = done[f]
                                       /\ outcome'[f] = outcome[f]
                           /\ f = e => pc'[f] = "idle" /\ outcome'[f] = "none"
  BY DEF IInv, TypeOK
<1>3. ASSUME NEW f \in Executors
      PROVE  HeldBy(f)' /\ WaitsFor(f)'
  <2>1. HeldBy(f) /\ WaitsFor(f)
    BY DEF IInv
  <2>2. CASE f = e
    BY <1>2, <2>2 DEF HeldBy, WaitsFor, Holding
  <2>3. CASE f # e
    BY <1>2, <2>1, <2>3 DEF HeldBy, WaitsFor, Holding
  <2>4. QED
    BY <2>2, <2>3
<1>4. \A d \in Deliveries : RowOf(d)' /\ DraftOf(d)'
  BY DEF IInv, RowOf, DraftOf
<1>5. \A f \in Executors, d \in Deliveries : Owns(f, d)' => Owns(f, d)
  BY <1>2 DEF Owns, Holding
<1>6. QED
  BY <1>1, <1>3, <1>4, <1>5 DEF IInv

LEMMA SweepStep ==
  ASSUME IInv, Sweep
  PROVE  IInv'
<1> USE DEF Sweep, IdleRound, frame, chat
<1>1. TypeOK'
  BY DEF IInv, TypeOK, Statuses
<1>2. \A d \in Deliveries :
        status'[d] = status[d] \/ (status[d] = "sending" /\ status'[d] = "abandoned")
  BY DEF IInv, TypeOK
<1>3. \A e \in Executors : HeldBy(e)' /\ WaitsFor(e)'
  BY <1>2 DEF IInv, HeldBy, WaitsFor, Holding
<1>4. \A d \in Deliveries : RowOf(d)' /\ DraftOf(d)'
  BY <1>2 DEF IInv, RowOf, DraftOf
<1>5. \A e \in Executors, d \in Deliveries : Owns(e, d)' <=> Owns(e, d)
  BY DEF Owns, Holding
<1>6. QED
  BY <1>1, <1>3, <1>4, <1>5 DEF IInv

\* The clock, the rate limit's end and the switch touch nothing the invariant
\* relates.
LEMMA EnvironmentStep ==
  ASSUME IInv, TypeOK',
         UNCHANGED <<status, sentParts, draft, frame, chat>>
  PROVE  IInv'
<1> USE DEF frame, chat
<1>1. \A e \in Executors : HeldBy(e)' /\ WaitsFor(e)'
  BY DEF IInv, HeldBy, WaitsFor, Holding
<1>2. \A d \in Deliveries : RowOf(d)' /\ DraftOf(d)'
  BY DEF IInv, RowOf, DraftOf
<1>3. \A e \in Executors, d \in Deliveries : Owns(e, d)' <=> Owns(e, d)
  BY DEF Owns, Holding
<1>4. QED
  BY <1>1, <1>2, <1>3 DEF IInv

LEMMA CrashStep ==
  ASSUME IInv, Crash
  PROVE  IInv'
<1> USE DEF Crash, rows, chat
<1>1. TypeOK'
  BY DEF IInv, TypeOK, Stages, Outcomes
<1>2. \A e \in Executors : pc'[e] = "idle" /\ outcome'[e] = "none"
  OBVIOUS
<1>3. \A e \in Executors : HeldBy(e)' /\ WaitsFor(e)'
  BY <1>2 DEF HeldBy, WaitsFor, Holding
<1>4. \A d \in Deliveries : RowOf(d)' /\ DraftOf(d)'
  BY DEF IInv, RowOf, DraftOf
<1>5. \A e \in Executors, d \in Deliveries : ~ Owns(e, d)'
  BY <1>2 DEF Owns, Holding
<1>6. QED
  BY <1>1, <1>3, <1>4, <1>5 DEF IInv

-----------------------------------------------------------------------------
(* The invariant holds in every reachable state.                           *)

LEMMA InitInv == Init => IInv
<1> SUFFICES ASSUME Init PROVE IInv
  OBVIOUS
<1> USE DEF Init
<1>0. << >> \in Seq(Nat) /\ Len(<< >>) = 0
  OBVIOUS
<1>1. TypeOK
  <2>1. inbox \in [Deliveries -> Seq(Nat)] /\ draft \in [Deliveries -> Drafts]
    BY <1>0 DEF Drafts
  <2>2. /\ status \in [Deliveries -> Statuses]
        /\ pc \in [Executors -> Stages]
        /\ outcome \in [Executors -> Outcomes]
        /\ job \in [Executors -> Deliveries \union {NoDelivery}]
    BY DEF Statuses, Stages, Outcomes
  <2>3. QED
    BY <2>1, <2>2 DEF TypeOK
<1>2. \A e \in Executors : HeldBy(e) /\ WaitsFor(e)
  BY DEF HeldBy, WaitsFor, Holding
<1>3. ASSUME NEW d \in Deliveries
      PROVE  RowOf(d) /\ DraftOf(d)
  <2>1. /\ inbox[d] = << >> /\ status[d] = "absent" /\ sentParts[d] = 0
        /\ draft[d] \in {"none", "pending"}
    OBVIOUS
  <2>2. QED
    BY <1>0, <2>1 DEF RowOf, DraftOf
<1>4. \A e \in Executors, d \in Deliveries : ~ Owns(e, d)
  BY DEF Owns, Holding
<1>5. QED
  BY <1>1, <1>2, <1>3, <1>4 DEF IInv

LEMMA NextInv == IInv /\ [Next]_vars => IInv'
<1> SUFFICES ASSUME IInv, [Next]_vars PROVE IInv'
  OBVIOUS
<1>1. ASSUME NEW d \in Deliveries, EnqueueAuto(d) PROVE IInv'
  BY <1>1, EnqueueAutoStep
<1>2. ASSUME NEW d \in Deliveries, ClaimNext(d) PROVE IInv'
  BY <1>2, ClaimStep, ConstantsAssumption DEF ClaimNext
<1>3. ASSUME NEW d \in Deliveries, RetryDue(d) \/ ClaimAges(d) PROVE IInv'
  <2>1. TypeOK'
    BY <1>3 DEF RetryDue, ClaimAges, IInv, TypeOK, memory, frame, chat
  <2>2. QED
    BY <1>3, <2>1, EnvironmentStep DEF RetryDue, ClaimAges
<1>4. CASE SweepFallsDue \/ FloodEnds \/ Pause
  <2>1. TypeOK'
    BY <1>4 DEF SweepFallsDue, FloodEnds, Pause, IInv, TypeOK, rows, memory, frame, chat
  <2>2. QED
    BY <1>4, <2>1, EnvironmentStep DEF SweepFallsDue, FloodEnds, Pause, rows
<1>5. ASSUME NEW e \in Executors, NEW d \in Deliveries, Approve(e, d) PROVE IInv'
  BY <1>5, ApproveStep
<1>6. ASSUME NEW e \in Executors, QueueDraft(e) PROVE IInv'
  BY <1>6, QueueDraftStep
<1>7. ASSUME NEW e \in Executors, ClaimQueued(e) PROVE IInv'
  <2>1. job[e] \in Deliveries
    BY <1>7 DEF ClaimQueued, IInv, WaitsFor
  <2>2. QED
    BY <1>7, <2>1, ClaimStep DEF ClaimQueued
<1>8. ASSUME NEW e \in Executors, QueuedElsewhere(e) \/ RecordFails(e) PROVE IInv'
  BY <1>8, ReleaseStep DEF QueuedElsewhere, RecordFails
<1>9. ASSUME NEW e \in Executors, Start(e) PROVE IInv'
  BY <1>9, StartStep
<1>10. ASSUME NEW e \in Executors, NoChannel(e) PROVE IInv'
  BY <1>10, NoChannelStep
<1>11. ASSUME NEW e \in Executors, Begin(e) PROVE IInv'
  BY <1>11, BeginStep
<1>12. ASSUME NEW e \in Executors, SendPart(e) PROVE IInv'
  BY <1>12, SendPartStep
<1>13. ASSUME NEW e \in Executors, Record(e) PROVE IInv'
  BY <1>13, RecordStep
<1>14. CASE Sweep
  BY <1>14, SweepStep
<1>15. CASE Crash
  BY <1>15, CrashStep
<1>16. CASE UNCHANGED vars
  <2>1. TypeOK'
    BY <1>16 DEF vars, IInv, TypeOK, rows, memory, frame, chat
  <2>2. QED
    BY <1>16, <2>1, EnvironmentStep DEF vars, rows
<1>17. QED
  BY <1>1, <1>2, <1>3, <1>4, <1>5, <1>6, <1>7, <1>8, <1>9, <1>10, <1>11, <1>12,
     <1>13, <1>14, <1>15, <1>16 DEF Next, Live, Step

\* Every reachable state satisfies the inductive invariant.
THEOREM Invariance == Spec => []IInv
  BY InitInv, NextInv, PTL DEF Spec

-----------------------------------------------------------------------------
(* The properties.                                                         *)

\* Every variable keeps its type (all of Outbox).
THEOREM TypeCorrect == Spec => []TypeOK
<1>1. IInv => TypeOK
  BY DEF IInv
<1>2. QED
  BY <1>1, Invariance, PTL

\* No part of an answer reaches a student twice or out of order, for any number
\* of executors, attempts and crashes (push, retry_later, abandon_stale).
THEOREM NeverTwice == Spec => []OnceInOrder
<1>1. IInv => OnceInOrder
  BY DEF IInv, RowOf, OnceInOrder
<1>2. QED
  BY <1>1, Invariance, PTL

\* Two executors never push the same delivery (claim_next, claim).
THEOREM Exclusive == Spec => []OneHolder
<1>1. IInv => OneHolder
  BY DEF IInv, HeldBy, Owns, OneHolder
<1>2. QED
  BY <1>1, Invariance, PTL

\* A row is only retried when it knows what the student has (retry_later).
THEOREM RetriesAreExact == Spec => []ResumesWhereItStopped
<1>1. IInv => ResumesWhereItStopped
  BY DEF IInv, RowOf, ResumesWhereItStopped
<1>2. QED
  BY <1>1, Invariance, PTL

\* Row, draft, read mark and chat agree on what was sent (deliver_claimed).
THEOREM SentIsTrue == Spec => []SentMeansSent
<1>1. IInv => SentMeansSent
  BY DEF IInv, RowOf, DraftOf, SentMeansSent
<1>2. QED
  BY <1>1, Invariance, PTL

-----------------------------------------------------------------------------
(* What a step may do to the chat and to a verdict.                        *)

\* Only a push adds to the chat, and only mark_sent calls an answer sent.
LEMMA OtherSteps ==
  ASSUME IInv, [Next]_vars,
         \A e \in Executors : ~ SendPart(e) /\ ~ (Record(e) /\ MarkSent(e))
  PROVE  /\ inbox' = inbox
         /\ \A d \in Deliveries : status'[d] = "sent" <=> status[d] = "sent"
<1> USE DEF rows, memory, frame, chat
<1>1. ASSUME NEW d \in Deliveries,
             EnqueueAuto(d) \/ ClaimNext(d) \/ RetryDue(d) \/ ClaimAges(d)
      PROVE  /\ inbox' = inbox
             /\ \A c \in Deliveries : status'[c] = "sent" <=> status[c] = "sent"
  BY <1>1 DEF EnqueueAuto, Enqueue, ClaimNext, Claim, RetryDue, ClaimAges, IInv, TypeOK
<1>2. ASSUME NEW e \in Executors, Step(e)
      PROVE  /\ inbox' = inbox
             /\ \A c \in Deliveries : status'[c] = "sent" <=> status[c] = "sent"
  <2>1. CASE QueueDraft(e) \/ QueuedElsewhere(e) \/ Start(e) \/ Begin(e) \/ RecordFails(e)
    BY <2>1 DEF QueueDraft, Enqueue, QueuedElsewhere, Start, Begin, RecordFails, IInv, TypeOK
  <2>2. CASE ClaimQueued(e)
    BY <2>2 DEF ClaimQueued, Claim, IInv, TypeOK
  <2>3. CASE NoChannel(e)
    BY <2>3, HolderFacts DEF NoChannel, Holding, IInv, TypeOK
  <2>4. CASE Record(e)
    BY <2>4, HolderFacts DEF Record, RetryLater, Abandon, Holding, IInv, TypeOK
  <2>5. QED
    BY <1>2, <2>1, <2>2, <2>3, <2>4 DEF Step
<1>3. ASSUME NEW e \in Executors, NEW d \in Deliveries, Approve(e, d)
      PROVE  inbox' = inbox /\ status' = status
  BY <1>3 DEF Approve
<1>4. CASE Sweep
  BY <1>4 DEF Sweep, IdleRound, IInv, TypeOK
<1>5. CASE SweepFallsDue \/ FloodEnds \/ Pause \/ Crash \/ UNCHANGED vars
  BY <1>5 DEF SweepFallsDue, FloodEnds, Pause, Crash, vars
<1>6. QED
  BY <1>1, <1>2, <1>3, <1>4, <1>5 DEF Next, Live

\* A push adds the next missing part of an answer that is not called sent.
LEMMA PushReaches ==
  ASSUME IInv, NEW e \in Executors, SendPart(e)
  PROVE  /\ status' = status
         /\ \/ inbox' = inbox
            \/ \E d \in Deliveries :
                 /\ status[d] # "sent"
                 /\ Len(inbox[d]) < Parts[d]
                 /\ inbox' = [inbox EXCEPT ![d] = Append(@, Len(@) + 1)]
<1>1. PICK d \in Deliveries :
        /\ d = job[e]
        /\ status[d] \in {"sending", "abandoned"}
        /\ HeldBy(e)
  BY HolderFacts DEF Holding, SendPart
<1>2. outcome[e] = "none" /\ Len(inbox[d]) = base[e] + done[e] /\ Len(inbox[d]) < Parts[d]
  BY <1>1 DEF HeldBy, Holding, SendPart
<1>3. status' = status /\ (Reach(e) \/ inbox' = inbox)
  BY DEF SendPart, rows
<1>4. Reach(e) => inbox' = [inbox EXCEPT ![d] = Append(@, Len(@) + 1)]
  BY <1>1, <1>2 DEF Reach
<1>5. QED
  BY <1>1, <1>2, <1>3, <1>4

\* mark_sent finds the whole answer in the chat.
LEMMA MarkedIsWhole ==
  ASSUME IInv, NEW e \in Executors, Record(e), MarkSent(e)
  PROVE  \E d \in Deliveries :
           /\ d = job[e]
           /\ status[d] # "sent"
           /\ Len(inbox[d]) = Parts[d]
           /\ Parts[d] > 0
           /\ status' = [status EXCEPT ![d] = "sent"]
           /\ inbox' = inbox
<1>1. PICK d \in Deliveries :
        /\ d = job[e]
        /\ status[d] \in {"sending", "abandoned"}
        /\ HeldBy(e)
  BY HolderFacts DEF Holding, Record
<1>2. Len(inbox[d]) = base[e] + done[e] /\ base[e] + done[e] = Parts[d] /\ Len(inbox[d]) > 0
  BY <1>1 DEF HeldBy, Holding, Record, MarkSent
<1>3. status' = [status EXCEPT ![d] = "sent"] /\ inbox' = inbox
  BY <1>1 DEF Record, MarkSent, chat
<1>4. QED
  BY <1>1, <1>2, <1>3

\* The outbox implements OutboxPromise: whatever the attempts, refusals, sweeps
\* and crashes, every step adds the next part, completes an answer or is
\* invisible to the student (delivery.py, deliver_claimed, push).
THEOREM ImplementsPromise == Spec => KeepsPromise
<1>1. Init => Promise!Init
  BY DEF Init, Promise!Init
<1>2. IInv /\ [Next]_vars => [Promise!Next]_(Promise!vars)
  <2> SUFFICES ASSUME IInv, [Next]_vars PROVE [Promise!Next]_(Promise!vars)
    OBVIOUS
  <2>1. ASSUME NEW e \in Executors, SendPart(e)
        PROVE  [Promise!Next]_(Promise!vars)
    BY <2>1, PushReaches DEF Promise!Next, Promise!Reach, Promise!vars
  <2>2. ASSUME NEW e \in Executors, Record(e), MarkSent(e)
        PROVE  [Promise!Next]_(Promise!vars)
    <3>1. PICK d \in Deliveries :
            /\ status[d] # "sent"
            /\ Len(inbox[d]) = Parts[d]
            /\ Parts[d] > 0
            /\ status' = [status EXCEPT ![d] = "sent"]
            /\ inbox' = inbox
      BY <2>2, MarkedIsWhole
    <3>2. [c \in Deliveries |-> status'[c] = "sent"]
            = [[c \in Deliveries |-> status[c] = "sent"] EXCEPT ![d] = TRUE]
      BY <3>1 DEF IInv, TypeOK
    <3>3. Promise!Finish(d)
      BY <3>1, <3>2 DEF Promise!Finish
    <3>4. QED
      BY <3>3 DEF Promise!Next
  <2>3. CASE \A e \in Executors : ~ SendPart(e) /\ ~ (Record(e) /\ MarkSent(e))
    <3>1. inbox' = inbox /\ \A d \in Deliveries : status'[d] = "sent" <=> status[d] = "sent"
      BY <2>3, OtherSteps
    <3>2. [d \in Deliveries |-> status'[d] = "sent"] = [d \in Deliveries |-> status[d] = "sent"]
      BY <3>1
    <3>3. QED
      BY <3>1, <3>2 DEF Promise!vars
  <2>4. QED
    BY <2>1, <2>2, <2>3
<1>3. QED
  BY <1>1, <1>2, Invariance, PTL DEF Spec, KeepsPromise, Promise!Spec

-----------------------------------------------------------------------------
(* The action properties.                                                  *)

\* A settled delivery that nobody holds is never touched again (claim_next,
\* claim, abandon_stale; retry_later and abandon are the holder's).
THEOREM SettledStays == Spec => SettledIsFinal
<1> DEFINE Left(d) == /\ status[d] \in {"sent", "failed", "abandoned"}
                      /\ ~ \E e \in Executors : Holding(e) /\ job[e] = d
           Untouched(d) == inbox'[d] = inbox[d] /\ status'[d] = status[d]
<1>1. ASSUME IInv, [Next]_vars, NEW d \in Deliveries, Left(d)
      PROVE  Untouched(d)
  <2> USE <1>1 DEF rows, memory, frame, chat
  <2>1. ASSUME NEW c \in Deliveries,
               EnqueueAuto(c) \/ ClaimNext(c) \/ RetryDue(c) \/ ClaimAges(c)
        PROVE  Untouched(d)
    BY <2>1 DEF EnqueueAuto, Enqueue, ClaimNext, Claim, RetryDue, ClaimAges, IInv, TypeOK
  <2>2. ASSUME NEW e \in Executors, Step(e)
        PROVE  Untouched(d)
    <3>1. CASE QueueDraft(e) \/ QueuedElsewhere(e) \/ Start(e) \/ Begin(e) \/ RecordFails(e)
      BY <3>1 DEF QueueDraft, Enqueue, QueuedElsewhere, Start, Begin, RecordFails, IInv, TypeOK
    <3>2. CASE ClaimQueued(e)
      BY <3>2 DEF ClaimQueued, Claim, IInv, TypeOK
    <3>3. CASE NoChannel(e) \/ SendPart(e) \/ Record(e)
      <4>1. Holding(e) /\ job[e] # d
        BY <3>3 DEF NoChannel, SendPart, Record, Holding
      <4>2. CASE NoChannel(e)
        BY <4>1, <4>2 DEF NoChannel, IInv, TypeOK
      <4>3. CASE SendPart(e)
        BY <4>1, <4>3 DEF SendPart, Reach, IInv, TypeOK
      <4>4. CASE Record(e)
        BY <4>1, <4>4 DEF Record, MarkSent, RetryLater, Abandon, IInv, TypeOK
      <4>5. QED
        BY <3>3, <4>2, <4>3, <4>4
    <3>4. QED
      BY <2>2, <3>1, <3>2, <3>3 DEF Step
  <2>3. ASSUME NEW e \in Executors, NEW c \in Deliveries, Approve(e, c)
        PROVE  Untouched(d)
    BY <2>3 DEF Approve
  <2>4. CASE Sweep
    BY <2>4 DEF Sweep, IdleRound, IInv, TypeOK
  <2>5. CASE SweepFallsDue \/ FloodEnds \/ Pause \/ Crash \/ UNCHANGED vars
    BY <2>5 DEF SweepFallsDue, FloodEnds, Pause, Crash, vars
  <2>6. QED
    BY <2>1, <2>2, <2>3, <2>4, <2>5 DEF Next, Live
<1>2. IInv /\ [Next]_vars =>
        [\A d \in Deliveries : Left(d) => Untouched(d)]_vars
  BY <1>1
<1>3. QED
  BY <1>2, Invariance, PTL DEF Spec, SettledIsFinal

\* An executor that saw the account paused is past the gate only to give up.
HeedsPause == \A e \in Executors : pc[e] \in {"begin", "send"} => ~ seen[e]

LEMMA HeedsPauseStep == IInv /\ HeedsPause /\ [Next]_vars => HeedsPause'
<1> SUFFICES ASSUME IInv, HeedsPause, [Next]_vars PROVE HeedsPause'
  OBVIOUS
<1> USE DEF HeedsPause, memory, frame
<1>1. ASSUME NEW d \in Deliveries,
             EnqueueAuto(d) \/ ClaimNext(d) \/ RetryDue(d) \/ ClaimAges(d)
      PROVE  HeedsPause'
  <2>1. CASE ClaimNext(d)
    BY <2>1 DEF ClaimNext, Claim, IInv, TypeOK
  <2>2. CASE EnqueueAuto(d) \/ RetryDue(d) \/ ClaimAges(d)
    BY <2>2 DEF EnqueueAuto, RetryDue, ClaimAges
  <2>3. QED
    BY <1>1, <2>1, <2>2
<1>2. ASSUME NEW e \in Executors, Step(e)
      PROVE  HeedsPause'
  <2>1. CASE Start(e)
    BY <2>1 DEF Start, Return, Goto, IInv, TypeOK
  <2>2. CASE Begin(e) \/ SendPart(e)
    BY <2>2 DEF Begin, SendPart, Return, Goto, IInv, TypeOK
  <2>3. CASE QueueDraft(e)
    BY <2>3 DEF QueueDraft, Goto, Release, IInv, TypeOK
  <2>4. CASE ClaimQueued(e)
    <3>1. pc' = [pc EXCEPT ![e] = "claimed"] /\ seen' = [seen EXCEPT ![e] = accountPaused]
      BY <2>4 DEF ClaimQueued, Claim
    <3>2. DOMAIN pc = Executors /\ DOMAIN seen = Executors
      BY DEF IInv, TypeOK
    <3>3. \A f \in Executors : f # e => pc'[f] = pc[f] /\ seen'[f] = seen[f]
      BY <3>1, <3>2
    <3>4. pc'[e] = "claimed"
      BY <3>1, <3>2
    <3>5. QED
      BY <3>3, <3>4
  <2>5. CASE QueuedElsewhere(e) \/ NoChannel(e) \/ Record(e) \/ RecordFails(e)
    BY <2>5 DEF QueuedElsewhere, NoChannel, Record, RecordFails, Release, IInv, TypeOK
  <2>6. QED
    BY <1>2, <2>1, <2>2, <2>3, <2>4, <2>5 DEF Step
<1>3. ASSUME NEW e \in Executors, NEW d \in Deliveries, Approve(e, d)
      PROVE  HeedsPause'
  BY <1>3 DEF Approve, IInv, TypeOK
<1>4. CASE Sweep \/ SweepFallsDue \/ FloodEnds \/ Pause \/ Crash \/ UNCHANGED vars
  BY <1>4 DEF Sweep, IdleRound, SweepFallsDue, FloodEnds, Pause, Crash, vars
<1>5. QED
  BY <1>1, <1>2, <1>3, <1>4 DEF Next, Live

\* Nothing of a delivery claimed while the account is paused is sent, whatever
\* the process remembered of the switch (deliver_claimed, push).
THEOREM PauseIsHeeded == Spec => PauseHolds
<1> DEFINE Silent == \A e \in Executors :
                       seen[e] /\ Holding(e) => inbox'[job[e]] = inbox[job[e]]
<1>1. Init => HeedsPause
  BY DEF Init, HeedsPause
<1>2. Spec => []HeedsPause
  BY <1>1, HeedsPauseStep, Invariance, PTL DEF Spec
<1>3. IInv /\ HeedsPause /\ [Next]_vars => [Silent]_vars
  <2> SUFFICES ASSUME IInv, HeedsPause, [Next]_vars,
                      NEW e \in Executors, seen[e], Holding(e)
               PROVE  inbox'[job[e]] = inbox[job[e]]
    OBVIOUS
  <2>1. CASE \A f \in Executors : ~ SendPart(f) /\ ~ (Record(f) /\ MarkSent(f))
    BY <2>1, OtherSteps
  <2>2. ASSUME NEW f \in Executors, SendPart(f)
        PROVE  inbox'[job[e]] = inbox[job[e]]
    <3>1. f # e /\ Holding(f)
      BY <2>2 DEF SendPart, HeedsPause, Holding
    <3>2. job[f] \in Deliveries /\ job[e] \in Deliveries /\ job[f] # job[e]
      BY <3>1 DEF IInv, HeldBy, Owns
    <3>3. QED
      BY <2>2, <3>2 DEF SendPart, Reach, IInv, TypeOK
  <2>3. ASSUME NEW f \in Executors, Record(f), MarkSent(f)
        PROVE  inbox'[job[e]] = inbox[job[e]]
    BY <2>3 DEF Record, chat
  <2>4. QED
    BY <2>1, <2>2, <2>3
<1>4. QED
  BY <1>2, <1>3, Invariance, PTL DEF Spec, PauseHolds

==============================================================================
