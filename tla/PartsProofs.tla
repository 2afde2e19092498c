----------------------------- MODULE PartsProofs -----------------------------
(***************************************************************************)
(* Four parts around the path of a message, for all values of their        *)
(* constants: the panel, the account's gate, what is remembered, and what  *)
(* is read of a file.                                                      *)
(***************************************************************************)
EXTENDS Panel, Gate, Memory, Media, Lists, FiniteSetTheorems, SequenceTheorems, TLAPS

------------------------------------------------------------------------------
(* The panel.  What is asked of a page that was shown must hold of every   *)
(* request from its beginning and of every transaction until it commits; a *)
(* form in a page must come from a page that was shown; and a log-out that *)
(* is committed late takes nothing back, because nobody but its browser    *)
(* held the token and the browser has thrown it away.                      *)
Session == [viewer : Viewers \union {Nobody}, until : Nat, out : Nat]
Shows   == [viewer : Viewers, chat : Chats, token : Tokens, began : Nat]
Asked   == [route : {"none", "page", "switch", "logout"}, token : Tokens \union {Nobody},
            viewer : Viewers \union {Nobody}, chat : Chats \union {Nobody},
            form : Tokens \union {Nobody}, began : Nat]
Ending  == [route : {"none", "page", "switch", "logout", "login"}, token : Tokens \union {Nobody},
            viewer : Viewers \union {Nobody}, chat : Chats \union {Nobody},
            began : Nat, at : Nat, on : BOOLEAN]

PanelTypeOK ==
  /\ signed \in [Tokens -> Session]
  /\ cookie \in [Browsers -> Tokens \union {Nobody}]
  /\ page \in [Browsers -> [token : Tokens \union {Nobody}, chat : Chats \union {Nobody}]]
  /\ request \in [Browsers -> Asked]
  /\ closing \in [Browsers -> Ending]
  /\ switch \in [Chats -> BOOLEAN]
  /\ shown \subseteq Shows
  /\ panelHour \in 0..LastHour

(* Whoever holds the token signed in before and has not left since *)
Within(token, viewer, began) ==
  /\ token \in Tokens /\ viewer \in Viewers /\ began \in Nat
  /\ signed[token].viewer = viewer
  /\ began < signed[token].until /\ began <= signed[token].out /\ began <= panelHour

WasShown(token, chat) == \E s \in shown : s.token = token /\ s.chat = chat

ShownWithin == \A s \in shown : Within(s.token, s.viewer, s.began)

ShownIsRecorded ==
  \A s \in shown : (Recorded(s) \/ BeingKept(s) \/ s \in unkept) /\ InScope(s.viewer, s.chat)

PageWasShown == \A b \in Browsers : page[b] # NoPage => WasShown(page[b].token, page[b].chat)

AskedFits(r) ==
  /\ r.route = "none" => r = Idle
  /\ r.route # "none" => Within(r.token, r.viewer, r.began)
  /\ r.route = "page" => r.chat \in Chats
  /\ r.route = "switch" => WasShown(r.form, r.chat) /\ r.chat \in Chats

RequestIsLive == \A b \in Browsers : AskedFits(request[b])

(* Nobody comes after the log-out with the token *)
IsLeft(b, t) ==
  /\ cookie[b] # t.token /\ request[b].token # t.token
  /\ \A s \in shown : s.token = t.token => s.began <= t.at

EndingFits(b, t) ==
  /\ t.route = "none" => t = Closed
  /\ t.route \in {"page", "switch", "logout"} => Within(t.token, t.viewer, t.began)
  /\ t.route = "switch" => WasShown(t.token, t.chat) /\ t.chat \in Chats
  /\ t.route = "login" => t.token \in Tokens /\ t.viewer \in Viewers /\ signed[t.token].viewer = Nobody
  /\ t.route = "logout" => IsLeft(b, t)

ClosingFits == \A b \in Browsers : EndingFits(b, closing[b])

(* A token is in one browser *)
Held(b) == {cookie[b], request[b].token, closing[b].token} \ {Nobody}
OneBrowser == \A b, d \in Browsers : b # d => Held(b) \intersect Held(d) = {}

PanelInv ==
  /\ PanelTypeOK /\ ShownWithin /\ ShownIsRecorded /\ PageWasShown
  /\ RequestIsLive /\ ClosingFits /\ OneBrowser

LEMMA PanelStart == PanelInit => PanelInv
<1> SUFFICES ASSUME PanelInit PROVE PanelInv
  OBVIOUS
<1>1. PanelTypeOK
  BY PanelAssumption DEF PanelInit, PanelTypeOK, Session, Shows, Asked, Ending, Idle, NoPage, Never, Closed
<1>2. ShownWithin /\ ShownIsRecorded /\ PageWasShown
  BY DEF PanelInit, ShownWithin, ShownIsRecorded, PageWasShown
<1>3. RequestIsLive
  BY DEF PanelInit, RequestIsLive, AskedFits, Idle
<1>4. ClosingFits
  BY DEF PanelInit, ClosingFits, EndingFits, Closed
<1>5. OneBrowser
  BY DEF PanelInit, OneBrowser, Held, Idle, Closed
<1> QED BY <1>1, <1>2, <1>3, <1>4, <1>5 DEF PanelInv

(* A step of the panel, as far as sessions and transactions go *)
LEMMA PanelCases ==
  ASSUME [PanelNext]_panelVars
  PROVE  \/ \E b \in Browsers, v \in Viewers, t \in Tokens : SignIn(b, v, t)
         \/ \E b \in Browsers : AskForPage(b) \/ Submit(b)
         \/ \E b \in Browsers : ServePage(b) \/ Toggle(b) \/ SignOut(b) \/ Refuse(b)
         \/ \E b \in Browsers : CommitRequest(b) \/ FailToCommit(b)
         \/ HourPasses \/ UNCHANGED panelVars
  BY DEF PanelNext

(* What happens to the rows of the sessions *)
LEMMA RowsOfSessions ==
  ASSUME [PanelNext]_panelVars
  PROVE  \/ signed' = signed
         \/ \E b \in Browsers : CommitRequest(b)
  BY PanelCases
  DEF SignIn, AskForPage, Submit, Ask, ServePage, Toggle, SignOut, Refuse, FailToCommit, HourPasses, panelVars

LEMMA HoursPass ==
  ASSUME PanelInv, [PanelNext]_panelVars
  PROVE  panelHour \in Nat /\ panelHour' \in 0..LastHour /\ panelHour <= panelHour'
<1>1. panelHour' = panelHour \/ (panelHour < LastHour /\ panelHour' = panelHour + 1)
  BY PanelCases
  DEF SignIn, AskForPage, Submit, Ask, ServePage, Toggle, SignOut, Refuse, CommitRequest, FailToCommit,
      HourPasses, panelVars
<1> QED BY <1>1, PanelAssumption DEF PanelInv, PanelTypeOK

(* A commit changes the row of its token only: it opens one that is free,  *)
(* or closes one at the hour of the log-out                                *)
LEMMA CommittedRow ==
  ASSUME PanelInv, NEW b \in Browsers, CommitRequest(b)
  PROVE  /\ closing[b].route # "none" /\ closing[b].token \in Tokens
         /\ signed' \in [Tokens -> Session]
         /\ \A t \in Tokens : t # closing[b].token => signed'[t] = signed[t]
         /\ closing[b].route \in {"page", "switch"} => signed' = signed
         /\ closing[b].route = "login" => signed[closing[b].token].viewer = Nobody
         /\ closing[b].route = "logout" =>
              /\ signed'[closing[b].token].viewer = signed[closing[b].token].viewer
              /\ signed'[closing[b].token].until = signed[closing[b].token].until
              /\ \/ signed'[closing[b].token].out = signed[closing[b].token].out
                 \/ signed'[closing[b].token].out = closing[b].at
<1>1. PICK t : t = closing[b]
  OBVIOUS
<1>2. t \in Ending /\ EndingFits(b, t) /\ signed \in [Tokens -> Session]
  BY <1>1 DEF PanelInv, PanelTypeOK, ClosingFits
<1>3. t # Closed /\ signed' = [signed EXCEPT ![t.token] = SessionAfter(t)]
  BY <1>1 DEF CommitRequest
<1>4. t.route \in {"page", "switch", "logout", "login"}
  BY <1>2, <1>3 DEF EndingFits, Ending
<1>5. t.token \in Tokens
  BY <1>2, <1>4 DEF EndingFits, Within
<1>6. PICK old \in Session : old = signed[t.token]
  BY <1>2, <1>5
<1>7. PICK new : new = SessionAfter(t)
  OBVIOUS
<1>8. CASE t.route = "login"
  <2>1. new = [viewer |-> t.viewer, until |-> t.at + Lifetime, out |-> Never]
    BY <1>7, <1>8 DEF SessionAfter
  <2>2. new \in Session
    BY <2>1, <1>2, PanelAssumption DEF Session, Ending, Never
  <2>3. old.viewer = Nobody
    BY <1>2, <1>6, <1>8 DEF EndingFits
  <2> QED BY <2>2, <2>3, <1>1, <1>2, <1>3, <1>4, <1>5, <1>6, <1>7, <1>8
<1>9. CASE t.route = "logout"
  <2>1. new = IF old.out = Never THEN [old EXCEPT !.out = t.at] ELSE old
    BY <1>6, <1>7, <1>9 DEF SessionAfter
  <2>2. t.at \in Nat
    BY <1>2 DEF Ending
  <2>3. /\ new \in Session /\ new.viewer = old.viewer /\ new.until = old.until
        /\ new.out = old.out \/ new.out = t.at
    BY <2>1, <2>2 DEF Session
  <2> QED BY <2>3, <1>1, <1>2, <1>3, <1>4, <1>5, <1>6, <1>7, <1>9
<1>10. CASE t.route \in {"page", "switch"}
  <2>1. new = old
    BY <1>6, <1>7, <1>10 DEF SessionAfter
  <2> QED BY <2>1, <1>1, <1>2, <1>3, <1>4, <1>5, <1>6, <1>7, <1>10
<1> QED BY <1>4, <1>8, <1>9, <1>10

(* Sessions only get longer ago: what was within one stays so, unless it   *)
(* began after a log-out that commits only now                             *)
LEMMA WithinStays ==
  ASSUME PanelInv, [PanelNext]_panelVars, NEW t, NEW v, NEW n, Within(t, v, n),
         \A b \in Browsers : CommitRequest(b) /\ closing[b].route = "logout" /\ closing[b].token = t
                               => n <= closing[b].at
  PROVE  Within(t, v, n)'
<1>1. /\ t \in Tokens /\ v \in Viewers /\ n \in Nat /\ signed[t].viewer = v
      /\ n < signed[t].until /\ n <= signed[t].out /\ n <= panelHour
  BY DEF Within
<1>2. n <= panelHour'
  BY <1>1, HoursPass
<1>3. signed'[t].viewer = v /\ n < signed'[t].until /\ n <= signed'[t].out
  <2>1. CASE signed' = signed
    BY <2>1, <1>1
  <2>2. ASSUME NEW b \in Browsers, CommitRequest(b)
        PROVE  signed'[t].viewer = v /\ n < signed'[t].until /\ n <= signed'[t].out
    <3>1. CASE closing[b].token # t
      BY <2>2, <3>1, <1>1, CommittedRow
    <3>2. CASE closing[b].token = t
      <4>1. closing[b].route # "login"
        BY <2>2, <3>2, <1>1, CommittedRow, PanelAssumption
      <4>2. CASE closing[b].route \in {"page", "switch"}
        BY <2>2, <4>2, <1>1, CommittedRow
      <4>3. CASE closing[b].route = "logout"
        <5>1. /\ signed'[t].viewer = signed[t].viewer /\ signed'[t].until = signed[t].until
              /\ signed'[t].out = signed[t].out \/ signed'[t].out = closing[b].at
          BY <2>2, <3>2, <4>3, CommittedRow
        <5>2. n <= closing[b].at
          BY <2>2, <3>2, <4>3
        <5> QED BY <5>1, <5>2, <1>1
      <4>4. closing[b].route \in {"page", "switch", "logout", "login"}
        BY <2>2, CommittedRow DEF PanelInv, PanelTypeOK, Ending
      <4> QED BY <4>1, <4>2, <4>3, <4>4
    <3> QED BY <3>1, <3>2
  <2> QED BY <2>1, <2>2, RowsOfSessions
<1> QED BY <1>1, <1>2, <1>3 DEF Within

(* The steps change the browsers one at a time *)
Others(b) == \A d \in Browsers \ {b} : request'[d] = request[d] /\ closing'[d] = closing[d]
                                       /\ cookie'[d] = cookie[d] /\ page'[d] = page[d]

(* A token that a commit closes is in no request and no other transaction *)
LEMMA TokensOfOthers ==
  ASSUME PanelInv, NEW b \in Browsers, NEW d \in Browsers, closing[b].token \in Tokens, b # d
  PROVE  request[d].token # closing[b].token /\ closing[d].token # closing[b].token
         /\ cookie[d] # closing[b].token
  BY PanelAssumption DEF PanelInv, OneBrowser, Held

LEMMA SessionsStay ==
  ASSUME PanelInv, [PanelNext]_panelVars
  PROVE  /\ \A s \in shown : Within(s.token, s.viewer, s.began)'
         /\ \A d \in Browsers, r \in Asked : r = request[d] /\ r.route # "none" =>
              Within(r.token, r.viewer, r.began)'
         /\ \A d \in Browsers, r \in Ending : r = closing[d] /\ r = closing'[d] =>
              /\ r.route \in {"page", "switch", "logout"} => Within(r.token, r.viewer, r.began)'
              /\ r.route = "login" => signed'[r.token].viewer = Nobody
<1>1. ASSUME NEW s \in shown PROVE Within(s.token, s.viewer, s.began)'
  <2>1. PICK t, v, n : t = s.token /\ v = s.viewer /\ n = s.began
    OBVIOUS
  <2>2. Within(t, v, n)
    BY <2>1 DEF PanelInv, ShownWithin
  <2>3. ASSUME NEW b \in Browsers, CommitRequest(b), closing[b].route = "logout", closing[b].token = t
        PROVE  n <= closing[b].at
    BY <2>1, <2>3 DEF PanelInv, ClosingFits, EndingFits, IsLeft
  <2>4. Within(t, v, n)'
    BY <2>2, <2>3, WithinStays
  <2> QED BY <2>1, <2>4
<1>2. ASSUME NEW d \in Browsers, NEW r \in Asked, r = request[d], r.route # "none"
      PROVE  Within(r.token, r.viewer, r.began)'
  <2>1. Within(r.token, r.viewer, r.began)
    BY <1>2 DEF PanelInv, RequestIsLive, AskedFits
  <2>2. ASSUME NEW b \in Browsers, CommitRequest(b), closing[b].route = "logout",
               closing[b].token = r.token
        PROVE  FALSE
    <3>1. request[b].token # closing[b].token
      BY <2>2 DEF PanelInv, ClosingFits, EndingFits, IsLeft
    <3>2. closing[b].token \in Tokens
      BY <2>1, <2>2 DEF Within
    <3> QED BY <3>1, <3>2, <2>2, <1>2, TokensOfOthers
  <2> QED BY <2>1, <2>2, WithinStays
<1>3. ASSUME NEW d \in Browsers, NEW r \in Ending, r = closing[d], r = closing'[d], r.route # "none"
      PROVE  \A b \in Browsers : CommitRequest(b) => closing[b].token # r.token
  <2> SUFFICES ASSUME NEW b \in Browsers, CommitRequest(b), closing[b].token = r.token
               PROVE  FALSE
    OBVIOUS
  <2>1. closing' = [closing EXCEPT ![b] = Closed] /\ closing \in [Browsers -> Ending]
    BY DEF CommitRequest, PanelInv, PanelTypeOK
  <2>2. b # d
    BY <2>1, <1>3 DEF Closed
  <2>3. closing[b].token \in Tokens
    BY CommittedRow
  <2> QED BY <2>2, <2>3, <1>3, TokensOfOthers
<1>4. ASSUME NEW d \in Browsers, NEW r \in Ending, r = closing[d], r = closing'[d],
             r.route \in {"page", "switch", "logout"}
      PROVE  Within(r.token, r.viewer, r.began)'
  <2>1. Within(r.token, r.viewer, r.began)
    BY <1>4 DEF PanelInv, ClosingFits, EndingFits
  <2> QED BY <2>1, <1>3, <1>4, WithinStays
<1>5. ASSUME NEW d \in Browsers, NEW r \in Ending, r = closing[d], r = closing'[d], r.route = "login"
      PROVE  signed'[r.token].viewer = Nobody
  <2>1. r.token \in Tokens /\ signed[r.token].viewer = Nobody
    BY <1>5 DEF PanelInv, ClosingFits, EndingFits
  <2>2. CASE signed' = signed
    BY <2>1, <2>2
  <2>3. ASSUME NEW b \in Browsers, CommitRequest(b) PROVE signed'[r.token].viewer = Nobody
    BY <2>1, <2>3, <1>3, <1>5, CommittedRow
  <2> QED BY <2>2, <2>3, RowsOfSessions
<1> QED BY <1>1, <1>2, <1>4, <1>5

(* What is written and shown stays *)
LEMMA ShownStays ==
  ASSUME PanelInv, [PanelNext]_panelVars
  PROVE  shown \subseteq shown' /\ audit \subseteq audit' /\ unkept \subseteq unkept'
  BY PanelCases
  DEF SignIn, AskForPage, Submit, Ask, ServePage, Toggle, SignOut, Refuse, CommitRequest, FailToCommit,
      HourPasses, panelVars

(* A step that leaves the requests, the transactions and the tokens of a   *)
(* browser alone, but for taking some of them away, keeps what they need   *)
LEMMA BrowserKeeps ==
  ASSUME PanelInv, [PanelNext]_panelVars, NEW b \in Browsers,
         \A s \in shown' : s \in shown \/ s.token # closing[b].token,
         closing'[b] \in {closing[b], Closed}, request'[b] \in {request[b], Idle},
         cookie'[b] = cookie[b]
  PROVE  AskedFits(request[b])' /\ EndingFits(b, closing[b])'
<1>1. AskedFits(request[b])'
  <2>1. AskedFits(request[b]) /\ request[b] \in Asked
    BY DEF PanelInv, PanelTypeOK, RequestIsLive
  <2>2. CASE request'[b] = Idle
    BY <2>2 DEF AskedFits, Idle
  <2>3. CASE request'[b] = request[b]
    <3>1. request[b].route # "none" =>
            Within(request[b].token, request[b].viewer, request[b].began)'
      BY <2>1, <2>3, SessionsStay
    <3> QED BY <2>1, <2>3, <3>1, ShownStays DEF AskedFits, WasShown
  <2> QED BY <2>2, <2>3
<1>2. EndingFits(b, closing[b])'
  <2>1. EndingFits(b, closing[b]) /\ closing[b] \in Ending
    BY DEF PanelInv, PanelTypeOK, ClosingFits
  <2>2. CASE closing'[b] = Closed
    BY <2>2 DEF EndingFits, Closed
  <2>3. CASE closing'[b] = closing[b]
    <3>1. PICK t \in Ending : t = closing[b] /\ t = closing'[b]
      BY <2>1, <2>3
    <3>2. /\ t.route \in {"page", "switch", "logout"} => Within(t.token, t.viewer, t.began)'
          /\ t.route = "login" => signed'[t.token].viewer = Nobody
      BY <3>1, SessionsStay
    <3>3. t.route = "logout" => IsLeft(b, t)'
      <4>1. request'[b].token = request[b].token \/ request'[b].token = Nobody
        BY DEF Idle
      <4>2. t.route = "logout" => IsLeft(b, t) /\ t.token \in Tokens
        BY <2>1, <3>1 DEF EndingFits, Within
      <4> QED BY <3>1, <4>1, <4>2, PanelAssumption DEF IsLeft
    <3>4. EndingFits(b, t)
      BY <2>1, <3>1
    <3>5. EndingFits(b, t)'
      BY <3>2, <3>3, <3>4, ShownStays DEF EndingFits, WasShown
    <3> QED BY <3>1, <3>5
  <2> QED BY <2>2, <2>3
<1> QED BY <1>1, <1>2

(* A step of one browser that brings in no token but a new one keeps every *)
(* token in one browser                                                    *)
LEMMA TokensKeepApart ==
  ASSUME PanelInv, NEW b \in Browsers, Others(b),
         \A t \in Held(b)' : t \in Held(b) \/ \A d \in Browsers : t \notin Held(d)
  PROVE  OneBrowser'
<1>1. \A d \in Browsers \ {b} : Held(d)' = Held(d)
  BY DEF Others, Held
<1>2. \A c, d \in Browsers : c # d => Held(c) \intersect Held(d) = {}
  BY DEF PanelInv, OneBrowser
<1> SUFFICES ASSUME NEW c \in Browsers, NEW d \in Browsers, c # d
             PROVE  Held(c)' \intersect Held(d)' = {}
  BY DEF OneBrowser
<1>3. CASE c # b /\ d # b
  BY <1>1, <1>2, <1>3
<1>4. CASE c = b
  BY <1>1, <1>2, <1>4
<1>5. CASE d = b
  BY <1>1, <1>2, <1>5
<1> QED BY <1>3, <1>4, <1>5

(* What the handlers do with a request that they answer *)
LEMMA Answered ==
  ASSUME PanelInv, NEW b \in Browsers, NEW r, r = request[b], r.route # "none",
         NEW on \in BOOLEAN, Answer(b, r, on)
  PROVE  /\ request' \in [Browsers -> Asked] /\ closing' \in [Browsers -> Ending]
         /\ request'[b] = Idle /\ closing[b] = Closed
         /\ closing'[b] = [route |-> r.route, token |-> r.token, viewer |-> r.viewer,
                           chat |-> r.chat, began |-> r.began, at |-> panelHour, on |-> on]
         /\ \A d \in Browsers \ {b} : request'[d] = request[d] /\ closing'[d] = closing[d]
<1>1. r \in Asked /\ panelHour \in Nat
  BY PanelAssumption DEF PanelInv, PanelTypeOK
<1>2. PICK t : t = [route |-> r.route, token |-> r.token, viewer |-> r.viewer,
                    chat |-> r.chat, began |-> r.began, at |-> panelHour, on |-> on]
  OBVIOUS
<1>3. t \in Ending
  BY <1>1, <1>2 DEF Asked, Ending
<1>4. Idle \in Asked
  BY DEF Asked, Idle
<1>5. request' = [request EXCEPT ![b] = Idle] /\ closing' = [closing EXCEPT ![b] = t] /\ closing[b] = Closed
  BY <1>2 DEF Answer
<1>6. request \in [Browsers -> Asked] /\ closing \in [Browsers -> Ending]
  BY DEF PanelInv, PanelTypeOK
<1> QED BY <1>2, <1>3, <1>4, <1>5, <1>6

(* A page is shown: its record is on the way *)
LEMMA ServeKeeps ==
  ASSUME PanelInv, [PanelNext]_panelVars, NEW b \in Browsers, ServePage(b)
  PROVE  PanelInv'
<1>1. PICK r : r = request[b]
  OBVIOUS
<1>2. /\ r \in Asked /\ r.route = "page" /\ Within(r.token, r.viewer, r.began)
      /\ r.chat \in Chats /\ InScope(r.viewer, r.chat)
  BY <1>1 DEF ServePage, PanelInv, PanelTypeOK, RequestIsLive, AskedFits
<1>3. Answer(b, r, FALSE)
  BY <1>1 DEF ServePage
<1>4. PICK t : t = closing'[b]
  OBVIOUS
<1>5. /\ request' \in [Browsers -> Asked] /\ closing' \in [Browsers -> Ending]
      /\ request'[b] = Idle /\ closing[b] = Closed
      /\ t = [route |-> r.route, token |-> r.token, viewer |-> r.viewer,
              chat |-> r.chat, began |-> r.began, at |-> panelHour, on |-> FALSE]
      /\ \A d \in Browsers \ {b} : request'[d] = request[d] /\ closing'[d] = closing[d]
  BY <1>1, <1>2, <1>3, <1>4, Answered
<1>6. PICK sight : sight = Sight(r)
  OBVIOUS
<1>7. /\ sight \in Shows /\ sight.viewer = r.viewer /\ sight.chat = r.chat
      /\ sight.token = r.token /\ sight.began = r.began
  BY <1>2, <1>6 DEF Sight, Shows, Within
<1>8. /\ shown' = shown \union {sight}
      /\ page' = [page EXCEPT ![b] = [token |-> r.token, chat |-> r.chat]]
      /\ UNCHANGED <<signed, cookie, switch, audit, unkept, panelHour>>
  BY <1>1, <1>6 DEF ServePage
<1>9. PanelTypeOK'
  <2>1. [token |-> r.token, chat |-> r.chat] \in [token : Tokens \union {Nobody}, chat : Chats \union {Nobody}]
    BY <1>2 DEF Within
  <2>2. shown' \subseteq Shows
    BY <1>7, <1>8 DEF PanelInv, PanelTypeOK
  <2>3. page' \in [Browsers -> [token : Tokens \union {Nobody}, chat : Chats \union {Nobody}]]
    BY <1>8, <2>1 DEF PanelInv, PanelTypeOK
  <2> QED BY <1>5, <1>8, <2>2, <2>3 DEF PanelInv, PanelTypeOK
<1>10. Within(r.token, r.viewer, r.began)'
  BY <1>1, <1>2, SessionsStay
<1>11. ShownWithin'
  <2>1. ASSUME NEW s \in shown' PROVE Within(s.token, s.viewer, s.began)'
    <3>1. CASE s \in shown
      BY <3>1, SessionsStay
    <3>2. CASE s = sight
      BY <3>2, <1>7, <1>10
    <3> QED BY <3>1, <3>2, <1>8
  <2> QED BY <2>1 DEF ShownWithin
<1>12. Sight(t) = sight /\ t.route = "page"
  BY <1>2, <1>5, <1>6 DEF Sight
<1>13. ShownIsRecorded'
  <2>1. BeingKept(sight)'
    BY <1>4, <1>12 DEF BeingKept
  <2>2. ASSUME NEW s \in shown PROVE Recorded(s)' \/ BeingKept(s)' \/ s \in unkept'
    <3>1. Recorded(s) => Recorded(s)'
      BY <1>8 DEF Recorded
    <3>2. ASSUME NEW d \in Browsers, closing[d].route = "page", Sight(closing[d]) = s
          PROVE  BeingKept(s)'
      <4>1. d # b
        BY <3>2, <1>5 DEF Closed
      <4> QED BY <3>2, <4>1, <1>5 DEF BeingKept
    <3> QED BY <3>1, <3>2, <1>8 DEF PanelInv, ShownIsRecorded, BeingKept
  <2>3. ASSUME NEW s \in shown' PROVE InScope(s.viewer, s.chat)
    BY <2>3, <1>2, <1>7, <1>8 DEF PanelInv, ShownIsRecorded
  <2> QED BY <2>1, <2>2, <2>3, <1>8 DEF ShownIsRecorded, InScope
<1>14. PageWasShown'
  <2>1. ASSUME NEW d \in Browsers, page'[d] # NoPage PROVE WasShown(page[d].token, page[d].chat)'
    <3>1. CASE d = b
      <4>1. page'[d].token = sight.token /\ page'[d].chat = sight.chat
        BY <3>1, <1>7, <1>8 DEF PanelInv, PanelTypeOK
      <4> QED BY <4>1, <1>8 DEF WasShown
    <3>2. CASE d # b
      <4>1. page'[d] = page[d]
        BY <3>2, <1>8 DEF PanelInv, PanelTypeOK
      <4>2. WasShown(page[d].token, page[d].chat)
        BY <2>1, <4>1 DEF PanelInv, PageWasShown
      <4> QED BY <4>1, <4>2, <1>8 DEF WasShown
    <3> QED BY <3>1, <3>2
  <2> QED BY <2>1 DEF PageWasShown
<1>15. ASSUME NEW d \in Browsers, d # b
       PROVE  AskedFits(request[d])' /\ EndingFits(d, closing[d])'
  <2>1. \A s \in shown' : s \in shown \/ s.token # closing[d].token
    <3>1. r.token # closing[d].token
      BY <1>1, <1>2, <1>15, PanelAssumption DEF PanelInv, OneBrowser, Held, Within
    <3> QED BY <3>1, <1>7, <1>8
  <2> QED BY <2>1, <1>5, <1>8, <1>15, BrowserKeeps
<1>16. AskedFits(request[b])' /\ EndingFits(b, closing[b])'
  <2>1. EndingFits(b, t)'
    <3>1. t.token = r.token /\ t.viewer = r.viewer /\ t.began = r.began
      BY <1>5
    <3> QED BY <3>1, <1>10, <1>12 DEF EndingFits
  <2> QED BY <2>1, <1>4, <1>5 DEF AskedFits, Idle
<1>17. OneBrowser'
  <2>1. Others(b)
    BY <1>5, <1>8 DEF Others, PanelInv, PanelTypeOK
  <2>2. \A u \in Held(b)' : u \in Held(b)
    BY <1>1, <1>4, <1>5, <1>8 DEF Held, Idle
  <2> QED BY <2>1, <2>2, TokensKeepApart
<1> QED BY <1>9, <1>11, <1>13, <1>14, <1>15, <1>16, <1>17 DEF PanelInv, RequestIsLive, ClosingFits

(* The steps that show nothing and record nothing leave the pages alone *)
LEMMA PagesStay ==
  ASSUME PanelInv, [PanelNext]_panelVars, UNCHANGED <<shown, page>>
  PROVE  ShownWithin' /\ PageWasShown'
<1>1. ShownWithin'
  BY SessionsStay DEF ShownWithin
<1>2. PageWasShown'
  BY DEF PanelInv, PageWasShown, WasShown
<1> QED BY <1>1, <1>2

(* A switch or a log-out is answered *)
LEMMA AnswerKeeps ==
  ASSUME PanelInv, [PanelNext]_panelVars, NEW b \in Browsers, Toggle(b) \/ SignOut(b)
  PROVE  PanelInv'
<1>1. PICK r : r = request[b]
  OBVIOUS
<1>2. /\ r \in Asked /\ r.route \in {"switch", "logout"} /\ Within(r.token, r.viewer, r.began)
      /\ r.route = "switch" => WasShown(r.token, r.chat) /\ r.chat \in Chats
  BY <1>1 DEF Toggle, SignOut, FormFits, PanelInv, PanelTypeOK, RequestIsLive, AskedFits
<1>3. PICK on \in BOOLEAN : Answer(b, r, on)
  BY <1>1 DEF Toggle, SignOut
<1>4. PICK t : t = closing'[b]
  OBVIOUS
<1>5. /\ request' \in [Browsers -> Asked] /\ closing' \in [Browsers -> Ending]
      /\ request'[b] = Idle /\ closing[b] = Closed
      /\ t = [route |-> r.route, token |-> r.token, viewer |-> r.viewer,
              chat |-> r.chat, began |-> r.began, at |-> panelHour, on |-> on]
      /\ \A d \in Browsers \ {b} : request'[d] = request[d] /\ closing'[d] = closing[d]
  BY <1>1, <1>2, <1>3, <1>4, Answered
<1>6. /\ UNCHANGED <<signed, page, switch, audit, shown, unkept, panelHour>>
      /\ cookie' = IF r.route = "logout" THEN [cookie EXCEPT ![b] = Nobody] ELSE cookie
  BY <1>1 DEF Toggle, SignOut
<1>7. PanelTypeOK'
  <2>1. cookie' \in [Browsers -> Tokens \union {Nobody}]
    BY <1>6 DEF PanelInv, PanelTypeOK
  <2> QED BY <1>5, <1>6, <2>1 DEF PanelInv, PanelTypeOK
<1>8. ShownWithin' /\ PageWasShown'
  BY <1>6, PagesStay
<1>9. ShownIsRecorded'
  <2>1. ASSUME NEW s \in shown PROVE Recorded(s)' \/ BeingKept(s)' \/ s \in unkept'
    <3>1. Recorded(s) => Recorded(s)'
      BY <1>6 DEF Recorded
    <3>2. ASSUME NEW d \in Browsers, closing[d].route = "page", Sight(closing[d]) = s
          PROVE  BeingKept(s)'
      <4>1. d # b
        BY <3>2, <1>5 DEF Closed
      <4> QED BY <3>2, <4>1, <1>5 DEF BeingKept
    <3> QED BY <3>1, <3>2, <1>6 DEF PanelInv, ShownIsRecorded, BeingKept
  <2> QED BY <2>1, <1>6 DEF PanelInv, ShownIsRecorded, InScope
<1>10. Others(b)
  BY <1>5, <1>6 DEF Others, PanelInv, PanelTypeOK
<1>11. ASSUME NEW d \in Browsers, d # b
       PROVE  AskedFits(request[d])' /\ EndingFits(d, closing[d])'
  BY <1>6, <1>10, <1>11, BrowserKeeps DEF Others
<1>12. Within(r.token, r.viewer, r.began)'
  BY <1>1, <1>2, SessionsStay
<1>13. AskedFits(request[b])' /\ EndingFits(b, closing[b])'
  <2>1. /\ t.token = r.token /\ t.viewer = r.viewer /\ t.began = r.began /\ t.chat = r.chat
        /\ t.route = r.route /\ t.at = panelHour
    BY <1>5
  <2>2. r.route = "logout" => IsLeft(b, t)'
    <3>1. \A s \in shown : s.began <= panelHour
      BY DEF PanelInv, ShownWithin, Within
    <3>2. r.token \in Tokens
      BY <1>2 DEF Within
    <3>3. r.route = "logout" => cookie'[b] = Nobody
      BY <1>6 DEF PanelInv, PanelTypeOK
    <3> QED BY <2>1, <3>1, <3>2, <3>3, <1>5, <1>6, PanelAssumption DEF IsLeft, Idle
  <2>3. r.route = "switch" => WasShown(t.token, t.chat)' /\ t.chat \in Chats
    BY <2>1, <1>2, <1>6 DEF WasShown
  <2>4. EndingFits(b, t)'
    BY <2>1, <2>2, <2>3, <1>2, <1>12 DEF EndingFits
  <2> QED BY <2>4, <1>4, <1>5 DEF AskedFits, Idle
<1>14. OneBrowser'
  <2>1. cookie'[b] = cookie[b] \/ cookie'[b] = Nobody
    BY <1>6 DEF PanelInv, PanelTypeOK
  <2>2. \A u \in Held(b)' : u \in Held(b)
    BY <2>1, <1>1, <1>4, <1>5 DEF Held, Idle
  <2> QED BY <2>2, <1>10, TokensKeepApart
<1> QED BY <1>7, <1>8, <1>9, <1>11, <1>13, <1>14 DEF PanelInv, RequestIsLive, ClosingFits

(* Somebody signs in: his token is nobody's yet *)
LEMMA SignInKeeps ==
  ASSUME PanelInv, [PanelNext]_panelVars, NEW b \in Browsers, NEW v \in Viewers, NEW k \in Tokens,
         SignIn(b, v, k)
  PROVE  PanelInv'
<1>1. PICK t : t = [route |-> "login", token |-> k, viewer |-> v, chat |-> Nobody,
                    began |-> panelHour, at |-> panelHour, on |-> FALSE]
  OBVIOUS
<1>2. /\ request[b] = Idle /\ closing[b] = Closed
      /\ request' = [request EXCEPT ![b] = Idle] /\ closing' = [closing EXCEPT ![b] = t]
      /\ cookie' = [cookie EXCEPT ![b] = k] /\ signed[k].viewer = Nobody
      /\ UNCHANGED <<signed, page, switch, audit, shown, unkept, panelHour>>
      /\ \A d \in Browsers : k # cookie[d] /\ k # closing[d].token
  BY <1>1 DEF SignIn, Answer, IsNew
<1>3. t \in Ending /\ Idle \in Asked /\ panelHour \in Nat
  BY <1>1, PanelAssumption DEF Ending, Asked, Idle, PanelInv, PanelTypeOK
<1>4. /\ request' = request /\ closing' \in [Browsers -> Ending] /\ closing'[b] = t
      /\ cookie' \in [Browsers -> Tokens \union {Nobody}] /\ cookie'[b] = k
      /\ \A d \in Browsers \ {b} : closing'[d] = closing[d] /\ cookie'[d] = cookie[d]
  BY <1>2, <1>3 DEF PanelInv, PanelTypeOK
<1>5. PanelTypeOK'
  BY <1>2, <1>4 DEF PanelInv, PanelTypeOK
<1>6. ShownWithin' /\ PageWasShown'
  BY <1>2, PagesStay
<1>7. ShownIsRecorded'
  <2>1. ASSUME NEW s \in shown PROVE Recorded(s)' \/ BeingKept(s)' \/ s \in unkept'
    <3>1. Recorded(s) => Recorded(s)'
      BY <1>2 DEF Recorded
    <3>2. ASSUME NEW d \in Browsers, closing[d].route = "page", Sight(closing[d]) = s
          PROVE  BeingKept(s)'
      <4>1. d # b
        BY <3>2, <1>2 DEF Closed
      <4> QED BY <3>2, <4>1, <1>4 DEF BeingKept
    <3> QED BY <3>1, <3>2, <1>2 DEF PanelInv, ShownIsRecorded, BeingKept
  <2> QED BY <2>1, <1>2 DEF PanelInv, ShownIsRecorded, InScope
<1>8. Others(b)
  BY <1>2, <1>4 DEF Others
<1>9. ASSUME NEW d \in Browsers, d # b
      PROVE  AskedFits(request[d])' /\ EndingFits(d, closing[d])'
  BY <1>2, <1>8, <1>9, BrowserKeeps DEF Others
<1>10. AskedFits(request[b])' /\ EndingFits(b, closing[b])'
  <2>1. t.route = "login" /\ t.token = k /\ t.viewer = v
    BY <1>1
  <2>2. signed'[k].viewer = Nobody
    BY <1>2
  <2>3. EndingFits(b, t)'
    BY <2>1, <2>2 DEF EndingFits
  <2> QED BY <2>3, <1>2, <1>4 DEF AskedFits, Idle
<1>11. OneBrowser'
  <2>1. \A d \in Browsers : k # request[d].token
    <3> SUFFICES ASSUME NEW d \in Browsers, k = request[d].token PROVE FALSE
      OBVIOUS
    <3>1. request[d].route # "none"
      BY PanelAssumption DEF PanelInv, RequestIsLive, AskedFits, Idle
    <3>2. signed[k].viewer \in Viewers
      BY <3>1 DEF PanelInv, RequestIsLive, AskedFits, Within
    <3> QED BY <3>2, <1>2, PanelAssumption
  <2>2. \A d \in Browsers : k \notin Held(d)
    BY <2>1, <1>2 DEF Held
  <2>3. \A u \in Held(b)' : u = k
    BY <1>1, <1>2, <1>4 DEF Held, Idle
  <2> QED BY <2>2, <2>3, <1>8, TokensKeepApart
<1> QED BY <1>5, <1>6, <1>7, <1>9, <1>10, <1>11 DEF PanelInv, RequestIsLive, ClosingFits

(* A request is sent *)
LEMMA AskKeeps ==
  ASSUME PanelInv, [PanelNext]_panelVars, NEW b \in Browsers, AskForPage(b) \/ Submit(b)
  PROVE  PanelInv'
<1>1. PICK route \in {"page", "switch", "logout"}, c \in Chats \union {Nobody} :
        /\ Ask(b, route, c)
        /\ route = "page" => c \in Chats
        /\ route = "switch" => page[b].chat # Nobody /\ c = page[b].chat
  BY DEF AskForPage, Submit, PanelInv, PanelTypeOK
<1>2. PICK r : r = [route |-> route, token |-> cookie[b], viewer |-> signed[cookie[b]].viewer,
                    chat |-> c, form |-> page[b].token, began |-> panelHour]
  OBVIOUS
<1>3. /\ Live(cookie[b]) /\ request[b] = Idle /\ request' = [request EXCEPT ![b] = r]
      /\ UNCHANGED <<signed, cookie, page, closing, switch, audit, shown, unkept, panelHour>>
  BY <1>1, <1>2 DEF Ask
<1>4. Within(r.token, r.viewer, r.began)
  BY <1>2, <1>3, PanelAssumption DEF Live, Within, Never, PanelInv, PanelTypeOK, Session
<1>5. r \in Asked
  BY <1>2, <1>4 DEF Asked, Within, PanelInv, PanelTypeOK
<1>6. /\ request' \in [Browsers -> Asked] /\ request'[b] = r
      /\ \A d \in Browsers \ {b} : request'[d] = request[d]
  BY <1>3, <1>5 DEF PanelInv, PanelTypeOK
<1>7. PanelTypeOK'
  BY <1>3, <1>6 DEF PanelInv, PanelTypeOK
<1>8. ShownWithin' /\ PageWasShown'
  BY <1>3, PagesStay
<1>9. ShownIsRecorded'
  BY <1>3 DEF PanelInv, ShownIsRecorded, InScope, Recorded, BeingKept, Sight
<1>10. ASSUME NEW d \in Browsers, d # b
       PROVE  AskedFits(request[d])' /\ EndingFits(d, closing[d])'
  BY <1>3, <1>6, <1>10, BrowserKeeps
<1>11. AskedFits(r)'
  <2>1. r.route = route /\ r.form = page[b].token /\ r.chat = c /\ r # Idle
    BY <1>1, <1>2 DEF Idle
  <2>2. route = "switch" => page[b] # NoPage
    BY <1>1 DEF NoPage
  <2>3. route = "switch" => WasShown(r.form, r.chat) /\ r.chat \in Chats
    BY <2>1, <2>2, <1>1 DEF PanelInv, PageWasShown
  <2>4. Within(r.token, r.viewer, r.began)'
    BY <1>3, <1>4 DEF Within
  <2> QED BY <2>1, <2>3, <2>4, <1>1, <1>3 DEF AskedFits, WasShown
<1>12. EndingFits(b, closing[b])'
  <2>1. PICK t : t = closing[b]
    OBVIOUS
  <2>2. EndingFits(b, t)
    BY <2>1 DEF PanelInv, ClosingFits
  <2>3. t.route = "logout" => IsLeft(b, t)'
    BY <2>2, <1>2, <1>3, <1>6 DEF EndingFits, IsLeft
  <2>4. EndingFits(b, t)'
    BY <2>2, <2>3, <1>3 DEF EndingFits, Within, WasShown
  <2> QED BY <2>1, <2>4, <1>3
<1>13. OneBrowser'
  <2>1. Others(b)
    BY <1>3, <1>6 DEF Others
  <2>2. \A u \in Held(b)' : u \in Held(b)
    BY <1>2, <1>3, <1>6 DEF Held
  <2> QED BY <2>1, <2>2, TokensKeepApart
<1> QED BY <1>6, <1>7, <1>8, <1>9, <1>10, <1>11, <1>12, <1>13 DEF PanelInv, RequestIsLive, ClosingFits

(* A transaction ends: what it showed is recorded with it, or lost *)
LEMMA EndKeeps ==
  ASSUME PanelInv, [PanelNext]_panelVars, NEW b \in Browsers, CommitRequest(b) \/ FailToCommit(b)
  PROVE  PanelInv'
<1>1. /\ closing[b] # Closed /\ closing' = [closing EXCEPT ![b] = Closed]
      /\ UNCHANGED <<cookie, page, request, shown, panelHour>>
  BY DEF CommitRequest, FailToCommit
<1>2. Closed \in Ending
  BY DEF Ending, Closed
<1>3. /\ closing' \in [Browsers -> Ending] /\ closing'[b] = Closed
      /\ \A d \in Browsers \ {b} : closing'[d] = closing[d]
  BY <1>1, <1>2 DEF PanelInv, PanelTypeOK
<1>4. signed' \in [Tokens -> Session]
  BY CommittedRow DEF FailToCommit, PanelInv, PanelTypeOK
<1>5. switch' \in [Chats -> BOOLEAN]
  <2>1. CASE FailToCommit(b)
    BY <2>1 DEF FailToCommit, PanelInv, PanelTypeOK
  <2>2. CASE CommitRequest(b)
    <3>1. closing[b].on \in BOOLEAN
      BY DEF PanelInv, PanelTypeOK, Ending
    <3>2. switch' = switch \/ switch' = [switch EXCEPT ![closing[b].chat] = closing[b].on]
      BY <2>2 DEF CommitRequest
    <3> QED BY <3>1, <3>2 DEF PanelInv, PanelTypeOK
  <2> QED BY <2>1, <2>2
<1>6. PanelTypeOK'
  BY <1>1, <1>3, <1>4, <1>5 DEF PanelInv, PanelTypeOK
<1>7. ShownWithin' /\ PageWasShown'
  BY <1>1, PagesStay
<1>8. ShownIsRecorded'
  <2>1. ASSUME NEW s \in shown PROVE Recorded(s)' \/ BeingKept(s)' \/ s \in unkept'
    <3>1. (Recorded(s) => Recorded(s)') /\ (s \in unkept => s \in unkept')
      BY ShownStays DEF Recorded
    <3>2. ASSUME NEW d \in Browsers, closing[d].route = "page", Sight(closing[d]) = s
          PROVE  Recorded(s)' \/ BeingKept(s)' \/ s \in unkept'
      <4>1. CASE d # b
        BY <3>2, <4>1, <1>3 DEF BeingKept
      <4>2. CASE d = b /\ FailToCommit(b)
        BY <3>2, <4>2 DEF FailToCommit
      <4>3. CASE d = b /\ CommitRequest(b)
        <5>1. PICK t : t = closing[b]
          OBVIOUS
        <5>2. t.route = "page" /\ s = Sight(t) /\ audit' = audit \union Entries(t)
          BY <3>2, <4>3, <5>1 DEF CommitRequest
        <5>3. <<t.viewer, "read_conversation", t.chat, t.began>> \in Entries(t)
          BY <5>2 DEF Entries, Actions
        <5>4. s.viewer = t.viewer /\ s.chat = t.chat /\ s.began = t.began
          BY <5>2 DEF Sight
        <5> QED BY <5>2, <5>3, <5>4 DEF Recorded
      <4> QED BY <4>1, <4>2, <4>3
    <3> QED BY <3>1, <3>2 DEF PanelInv, ShownIsRecorded, BeingKept
  <2> QED BY <2>1, <1>1 DEF PanelInv, ShownIsRecorded, InScope
<1>9. ASSUME NEW d \in Browsers
      PROVE  AskedFits(request[d])' /\ EndingFits(d, closing[d])'
  BY <1>1, <1>3, BrowserKeeps
<1>10. OneBrowser'
  <2>1. Others(b)
    BY <1>1, <1>3 DEF Others
  <2>2. \A u \in Held(b)' : u \in Held(b)
    BY <1>1, <1>3 DEF Held, Closed
  <2> QED BY <2>1, <2>2, TokensKeepApart
<1> QED BY <1>6, <1>7, <1>8, <1>9, <1>10 DEF PanelInv, RequestIsLive, ClosingFits

(* A request is refused, an hour passes, or nothing happens *)
LEMMA RestKeeps ==
  ASSUME PanelInv, [PanelNext]_panelVars,
         (\E b \in Browsers : Refuse(b)) \/ HourPasses \/ UNCHANGED panelVars
  PROVE  PanelInv'
<1>1. /\ UNCHANGED <<signed, cookie, page, closing, switch, audit, shown, unkept>>
      /\ request' = request \/ \E b \in Browsers : request' = [request EXCEPT ![b] = Idle]
  BY DEF Refuse, HourPasses, panelVars
<1>2. /\ request' \in [Browsers -> Asked]
      /\ \A d \in Browsers : request'[d] = request[d] \/ request'[d] = Idle
  <2>1. Idle \in Asked
    BY DEF Asked, Idle
  <2> QED BY <1>1, <2>1 DEF PanelInv, PanelTypeOK
<1>3. PanelTypeOK'
  BY <1>1, <1>2, HoursPass DEF PanelInv, PanelTypeOK
<1>4. ShownWithin' /\ PageWasShown'
  BY <1>1, PagesStay
<1>5. ShownIsRecorded'
  BY <1>1 DEF PanelInv, ShownIsRecorded, InScope, Recorded, BeingKept, Sight
<1>6. ASSUME NEW d \in Browsers
      PROVE  AskedFits(request[d])' /\ EndingFits(d, closing[d])'
  BY <1>1, <1>2, BrowserKeeps
<1>7. \A d \in Browsers : Held(d)' \subseteq Held(d)
  BY <1>1, <1>2 DEF Held, Idle
<1>8. OneBrowser'
  BY <1>7 DEF PanelInv, OneBrowser
<1> QED BY <1>3, <1>4, <1>5, <1>6, <1>8 DEF PanelInv, RequestIsLive, ClosingFits

LEMMA PanelStep ==
  ASSUME PanelInv, [PanelNext]_panelVars
  PROVE  PanelInv'
<1>1. CASE \E b \in Browsers, v \in Viewers, t \in Tokens : SignIn(b, v, t)
  BY <1>1, SignInKeeps
<1>2. CASE \E b \in Browsers : AskForPage(b) \/ Submit(b)
  BY <1>2, AskKeeps
<1>3. CASE \E b \in Browsers : ServePage(b) \/ Toggle(b) \/ SignOut(b)
  BY <1>3, ServeKeeps, AnswerKeeps
<1>4. CASE \E b \in Browsers : CommitRequest(b) \/ FailToCommit(b)
  BY <1>4, EndKeeps
<1>5. CASE (\E b \in Browsers : Refuse(b)) \/ HourPasses \/ UNCHANGED panelVars
  BY <1>5, RestKeeps
<1> QED BY <1>1, <1>2, <1>3, <1>4, <1>5, PanelCases

(* Only a form of the session's own page switches an assistant *)
LEMMA SwitchIsTheViewers ==
  ASSUME PanelInv, [PanelNext]_panelVars
  PROVE  FormsAreTheViewers
<1> SUFFICES ASSUME NEW c \in Chats, switch'[c] # switch[c]
             PROVE  \E b \in Browsers :
                      /\ closing[b].route = "switch" /\ closing[b].chat = c
                      /\ <<closing[b].viewer, "assistant", c, closing[b].began>> \in audit'
                      /\ \E s \in shown : /\ s.viewer = closing[b].viewer /\ s.chat = c
                                          /\ s.token = closing[b].token
  BY DEF FormsAreTheViewers
<1>1. PICK b \in Browsers : CommitRequest(b)
  BY PanelCases
  DEF SignIn, AskForPage, Submit, Ask, ServePage, Toggle, SignOut, Refuse, FailToCommit, HourPasses, panelVars
<1>2. PICK t : t = closing[b]
  OBVIOUS
<1>3. /\ switch' = (IF t.route = "switch" THEN [switch EXCEPT ![t.chat] = t.on] ELSE switch)
      /\ audit' = audit \union Entries(t)
  BY <1>1, <1>2 DEF CommitRequest
<1>4. t.route = "switch" /\ t.chat = c
  BY <1>3 DEF PanelInv, PanelTypeOK
<1>5. Within(t.token, t.viewer, t.began) /\ WasShown(t.token, c)
  BY <1>2, <1>4 DEF PanelInv, ClosingFits, EndingFits
<1>6. PICK s \in shown : s.token = t.token /\ s.chat = c
  BY <1>5 DEF WasShown
<1>7. s.viewer = t.viewer
  BY <1>5, <1>6 DEF PanelInv, ShownWithin, Within
<1>8. <<t.viewer, "assistant", c, t.began>> \in audit'
  BY <1>3, <1>4 DEF Entries, Actions
<1> QED BY <1>2, <1>4, <1>6, <1>7, <1>8

(* web/app.py, csrf.py, security.py: a page that was shown is on record or  *)
(* about to be, unless the very commit that would have kept it failed; its  *)
(* viewer was signed in and in scope; and forms work in their session only. *)
(* For any browsers, viewers, conversations and sessions.                   *)
THEOREM PanelHolds == PanelSpec => PanelIsGuarded
<1>1. PanelInv /\ [PanelNext]_panelVars => PanelInv' /\ FormsAreTheViewers
  BY PanelStep, SwitchIsTheViewers
<1>2. PanelInv => EveryReadIsRecorded
  BY DEF PanelInv, EveryReadIsRecorded, ShownWithin, ShownIsRecorded, Within
<1> QED BY PanelStart, <1>1, <1>2, PTL DEF PanelSpec, PanelIsGuarded

------------------------------------------------------------------------------
(* The gate.  The rate is kept because the bucket pays for it: what was    *)
(* sent since any message, what is being typed and what is left in the     *)
(* bucket came from the burst or from the time since.  The wait is covered *)
(* because a push that is under way began when the gate was open, so that  *)
(* the gate it shuts is shut for longer than before.                       *)
Typing == {p \in Pushers : push[p].pc = "typing"}
Paid(n) == n * Interval

GateTypeOK ==
  /\ now \in Nat /\ bucket \in 0..(Burst * Interval)
  /\ gate \in [paused : BOOLEAN, until : Nat]
  /\ push \in [Pushers -> [pc : {"idle", "queued", "typing"}, began : Nat, left : Int]]
  /\ sends \in Seq(Nat) /\ barred \in Nat

BucketPays ==
  \A i \in DOMAIN sends :
    /\ sends[i] <= now
    /\ Paid(Len(sends) - i + 1 + Cardinality(Typing)) + bucket
         <= Paid(Burst + Cardinality(Pushers)) + (now - sends[i])

OpenWhenBegun ==
  hurt \subseteq {"called"} =>
    \A p \in Pushers : push[p].pc # "idle" => gate.until <= push[p].began

GateInv == GateTypeOK /\ BucketPays /\ RateIsKept /\ OpenWhenBegun /\ GateCoversTheWait

LEMMA PaidGrows ==
  ASSUME NEW m \in Nat, NEW n \in Nat, m <= n
  PROVE  Paid(m) \in Nat /\ Paid(n) \in Nat /\ Paid(m) <= Paid(n)
<1>1. Interval \in Nat
  BY GateAssumption
<1>2. PICK k \in Nat : n = m + k
  <2>1. n - m \in Nat /\ n = m + (n - m)
    OBVIOUS
  <2> QED BY <2>1
<1>3. n * Interval = m * Interval + k * Interval
  BY <1>1, <1>2
<1>4. k * Interval \in Nat /\ m * Interval \in Nat
  BY <1>1
<1> QED BY <1>3, <1>4 DEF Paid

LEMMA PaidOne ==
  ASSUME NEW n \in Nat
  PROVE  Paid(n) \in Nat /\ Paid(n + 1) = Paid(n) + Interval
<1>1. Interval \in Nat
  BY GateAssumption
<1>2. (n + 1) * Interval = n * Interval + Interval /\ n * Interval \in Nat
  BY <1>1
<1> QED BY <1>2 DEF Paid

LEMMA TypingIsFinite ==
  /\ IsFiniteSet(Typing) /\ Cardinality(Typing) \in Nat
  /\ Cardinality(Pushers) \in Nat /\ Cardinality(Typing) <= Cardinality(Pushers)
<1>1. Typing \subseteq Pushers
  BY DEF Typing
<1> QED BY <1>1, GateAssumption, FS_Subset, FS_CardinalityType

LEMMA BucketIsNat ==
  ASSUME GateTypeOK
  PROVE  bucket \in Nat /\ bucket <= Burst * Interval /\ Burst * Interval \in Nat
<1>1. Burst * Interval \in Nat
  BY GateAssumption
<1> QED BY <1>1 DEF GateTypeOK

LEMMA SendTypes ==
  ASSUME GateTypeOK
  PROVE  /\ now \in Nat /\ Len(sends) \in Nat /\ DOMAIN sends = 1..Len(sends)
         /\ \A i \in DOMAIN sends : sends[i] \in Nat
<1>1. now \in Nat /\ sends \in Seq(Nat)
  BY DEF GateTypeOK
<1> QED BY <1>1

LEMMA SendIsPaid ==
  ASSUME GateInv, NEW i \in DOMAIN sends
  PROVE  /\ sends[i] <= now
         /\ Paid(Len(sends) - i + 1 + Cardinality(Typing)) + bucket
              <= Paid(Burst + Cardinality(Pushers)) + (now - sends[i])
  BY DEF GateInv, BucketPays

LEMMA LessIsLeft ==
  ASSUME NEW top \in Nat, NEW b \in 0..top, NEW c \in Nat, c <= b
  PROVE  b - c \in 0..top
  OBVIOUS

(* What is owed less, later, out of a bucket that the time since has filled *)
LEMMA StillPaid ==
  ASSUME NEW less \in Nat, NEW more \in Nat, NEW all \in Nat, NEW b \in Nat, NEW c \in Nat,
         NEW s \in Nat, NEW n \in Nat, NEW m \in Nat,
         less <= more, more + b <= all + (n - s), c <= b + (m - n)
  PROVE  less + c <= all + (m - s)
  OBVIOUS

LEMMA GateTypeStep ==
  ASSUME GateTypeOK, [GateNext]_gateVars
  PROVE  GateTypeOK'
<1> USE GateAssumption DEF GateTypeOK
<1>1. Burst * Interval \in Nat /\ Interval <= Burst * Interval
  <2>1. Paid(1) <= Paid(Burst) /\ Paid(Burst) \in Nat
    BY PaidGrows
  <2> QED BY <2>1 DEF Paid
<1>2. ASSUME NEW p \in Pushers, Start(p)
      PROVE  GateTypeOK'
  BY <1>2 DEF Start
<1>3. ASSUME NEW p \in Pushers, TakeToken(p)
      PROVE  GateTypeOK'
  <2>1. bucket' = bucket - Interval /\ bucket >= Interval /\ Interval \in Nat
        /\ push' = [push EXCEPT ![p].pc = "typing"] /\ UNCHANGED <<now, gate, sends, barred>>
    BY <1>3 DEF TakeToken
  <2>2. bucket' \in 0..(Burst * Interval)
    <3> DEFINE top == Burst * Interval
    <3>1. top \in Nat /\ bucket \in 0..top
      BY <1>1
    <3> HIDE DEF top
    <3>2. bucket - Interval \in 0..top
      BY <2>1, <3>1, LessIsLeft
    <3> QED BY <2>1, <3>2 DEF top
  <2> QED BY <2>1, <2>2
<1>4. ASSUME NEW p \in Pushers, SendPart(p)
      PROVE  GateTypeOK'
  <2> DEFINE Push == [pc : {"idle", "queued", "typing"}, began : Nat, left : Int]
             rest == IF push[p].left = 1 THEN NoPush
                     ELSE [push[p] EXCEPT !.pc = "queued", !.left = @ - 1]
  <2>1. push[p] \in Push /\ push[p].left - 1 \in Int /\ NoPush \in Push
    BY DEF NoPush
  <2>2. [push[p] EXCEPT !.pc = "queued", !.left = @ - 1] \in Push
    BY <2>1
  <2>3. rest \in Push
    BY <2>1, <2>2
  <2>4. push' = [push EXCEPT ![p] = rest]
    BY <1>4 DEF SendPart
  <2>5. push' \in [Pushers -> Push]
    <3> HIDE DEF rest
    <3> QED BY <2>3, <2>4
  <2>6. sends' \in Seq(Nat) /\ UNCHANGED <<now, gate, bucket, barred>>
    BY <1>4 DEF SendPart
  <2> QED BY <2>5, <2>6
<1>5. ASSUME NEW p \in Pushers, MeetFloodWait(p)
      PROVE  GateTypeOK'
  <2>1. PICK wait \in Waits : NoteFloodWait(p, wait) /\ barred' = Later(barred, now + wait)
    BY <1>5 DEF MeetFloodWait
  <2>2. wait \in Nat /\ push[p].began \in Nat /\ push[p].began + wait + Margin \in Nat
    BY <1>5
  <2>3. gate' \in [paused : BOOLEAN, until : Nat] /\ barred' \in Nat
    <3>1. gate' = [gate EXCEPT !.until = push[p].began + wait + Margin]
      BY <2>1 DEF NoteFloodWait
    <3>2. gate' \in [paused : BOOLEAN, until : Nat]
      BY <2>2, <3>1
    <3>3. now + wait \in Nat
      BY <2>2
    <3>4. barred' \in Nat
      BY <2>1, <3>3 DEF Later
    <3> QED BY <3>2, <3>4
  <2>4. push' = [push EXCEPT ![p] = NoPush] /\ UNCHANGED <<now, bucket, sends>>
    BY <1>5 DEF MeetFloodWait
  <2> QED BY <2>3, <2>4 DEF NoPush
<1>6. ASSUME NEW p \in Pushers, BreakOff(p)
      PROVE  GateTypeOK'
  BY <1>6 DEF BreakOff, NoPush
<1>7. CASE Tick
  BY <1>1, <1>7 DEF Tick
<1>8. CASE Restart
  BY <1>1, <1>8 DEF Restart, Fresh, NoPush
<1>9. CASE UNCHANGED gateVars
  BY <1>9 DEF gateVars
<1> QED BY <1>2, <1>3, <1>4, <1>5, <1>6, <1>7, <1>8, <1>9 DEF GateNext

LEMMA GateStart == GateInit => GateInv
<1> SUFFICES ASSUME GateInit PROVE GateInv
  OBVIOUS
<1>1. Burst * Interval \in Nat
  BY GateAssumption
<1>2. GateTypeOK
  BY <1>1 DEF GateInit, GateTypeOK, Fresh, NoPush
<1> QED BY <1>2 DEF GateInit, GateInv, BucketPays, RateIsKept, OpenWhenBegun, GateCoversTheWait,
           NoPush, Fresh

(* Time does not go back, so a message that is owed less has been paid for *)
LEMMA PaymentStays ==
  ASSUME GateInv, GateTypeOK', UNCHANGED sends, now <= now',
         Cardinality(Typing') <= Cardinality(Typing), bucket' <= bucket + (now' - now)
  PROVE  BucketPays' /\ RateIsKept'
<1>1. RateIsKept'
  BY DEF GateInv, RateIsKept
<1>2. ASSUME NEW i \in DOMAIN sends
      PROVE  /\ sends[i] <= now'
             /\ Paid(Len(sends) - i + 1 + Cardinality(Typing')) + bucket'
                  <= Paid(Burst + Cardinality(Pushers)) + (now' - sends[i])
  <2> DEFINE less == Len(sends) - i + 1 + Cardinality(Typing')
             more == Len(sends) - i + 1 + Cardinality(Typing)
             all  == Burst + Cardinality(Pushers)
  <2>0. bucket \in Nat /\ bucket' \in Nat
    <3>1. GateTypeOK => bucket \in Nat
      BY BucketIsNat
    <3>2. GateTypeOK' => bucket' \in Nat
      <4>1. Burst * Interval \in Nat
        BY GateAssumption
      <4> QED BY <4>1 DEF GateTypeOK
    <3> QED BY <3>1, <3>2 DEF GateInv
  <2>1. /\ now \in Nat /\ now' \in Nat /\ sends[i] \in Nat /\ sends[i] <= now
        /\ Paid(more) + bucket <= Paid(all) + (now - sends[i])
    <3>1. now \in Nat /\ sends[i] \in Nat
      BY SendTypes DEF GateInv
    <3>2. now' \in Nat
      BY DEF GateTypeOK
    <3> QED BY <3>1, <3>2, SendIsPaid
  <2>2. Cardinality(Typing') \in Nat
    <3>1. Typing' \subseteq Pushers
      BY DEF Typing
    <3> QED BY <3>1, GateAssumption, FS_Subset, FS_CardinalityType
  <2>3. less \in Nat /\ more \in Nat /\ all \in Nat /\ less <= more
    <3>1. Len(sends) \in Nat /\ i \in 1..Len(sends)
      BY SendTypes DEF GateInv
    <3> QED BY <2>2, <3>1, TypingIsFinite, GateAssumption
  <2>4. Paid(less) <= Paid(more) /\ Paid(less) \in Nat /\ Paid(more) \in Nat /\ Paid(all) \in Nat
    BY <2>3, PaidGrows
  <2> HIDE DEF less, more, all
  <2>5. Paid(less) + bucket' <= Paid(all) + (now' - sends[i])
    <3> DEFINE l == Paid(less)
               m == Paid(more)
               a == Paid(all)
               t == sends[i]
    <3>1. l \in Nat /\ m \in Nat /\ a \in Nat /\ t \in Nat /\ l <= m
      BY <2>1, <2>4
    <3>2. m + bucket <= a + (now - t)
      BY <2>1
    <3> HIDE DEF l, m, a, t
    <3>3. l + bucket' <= a + (now' - t)
      BY <2>0, <2>1, <3>1, <3>2, StillPaid
    <3> QED BY <3>3 DEF l, a, t
  <2>6. sends[i] <= now'
    BY <2>1
  <2>7. less = Len(sends) - i + 1 + Cardinality(Typing') /\ all = Burst + Cardinality(Pushers)
    BY DEF less, all
  <2> QED BY <2>5, <2>6, <2>7
<1> QED BY <1>1, <1>2 DEF BucketPays, Paid

(* What a push that is over leaves behind *)
LEMMA RateStep ==
  ASSUME GateInv, [GateNext]_gateVars
  PROVE  BucketPays' /\ RateIsKept'
<1>1. GateTypeOK /\ GateTypeOK'
  BY GateTypeStep DEF GateInv
<1>2. ASSUME UNCHANGED <<now, bucket, sends>>, Typing' \subseteq Typing
      PROVE  BucketPays' /\ RateIsKept'
  <2>1. Cardinality(Typing') <= Cardinality(Typing)
    BY <1>2, TypingIsFinite, FS_Subset
  <2> QED BY <1>1, <1>2, <2>1, PaymentStays DEF GateTypeOK
<1>3. ASSUME NEW p \in Pushers, Start(p) \/ MeetFloodWait(p) \/ BreakOff(p)
      PROVE  BucketPays' /\ RateIsKept'
  <2>1. UNCHANGED <<now, bucket, sends>>
    BY <1>3 DEF Start, MeetFloodWait, BreakOff
  <2>2. Typing' \subseteq Typing
    <3>1. ASSUME NEW q \in Pushers, q # p
          PROVE  push'[q] = push[q]
      BY <1>1, <1>3, <3>1 DEF Start, MeetFloodWait, BreakOff, GateTypeOK
    <3>2. push'[p].pc # "typing"
      BY <1>1, <1>3 DEF Start, MeetFloodWait, BreakOff, NoPush, GateTypeOK
    <3> QED BY <3>1, <3>2 DEF Typing
  <2> QED BY <1>2, <2>1, <2>2
<1>4. ASSUME NEW p \in Pushers, TakeToken(p)
      PROVE  BucketPays' /\ RateIsKept'
  <2>1. /\ p \notin Typing /\ Typing' = Typing \union {p}
        /\ bucket' = bucket - Interval /\ UNCHANGED <<now, sends>>
    BY <1>1, <1>4 DEF TakeToken, Typing, GateTypeOK
  <2>2. Cardinality(Typing') = Cardinality(Typing) + 1
    BY <2>1, TypingIsFinite, FS_AddElement
  <2>3. ASSUME NEW i \in DOMAIN sends
        PROVE  /\ sends[i] <= now
               /\ Paid(Len(sends) - i + 1 + Cardinality(Typing')) + bucket'
                    <= Paid(Burst + Cardinality(Pushers)) + (now - sends[i])
    <3> DEFINE owed == Len(sends) - i + 1 + Cardinality(Typing)
               all  == Burst + Cardinality(Pushers)
    <3>0. Len(sends) \in Nat /\ i \in 1..Len(sends)
      BY <1>1, SendTypes
    <3>1. owed \in Nat /\ all \in Nat
      <4>1. all \in Nat
        BY TypingIsFinite, GateAssumption
      <4>2. owed \in Nat
        <5>1. Cardinality(Typing) \in Nat
          BY TypingIsFinite
        <5> QED BY <3>0, <5>1
      <4> QED BY <4>1, <4>2
    <3>2. Len(sends) - i + 1 + Cardinality(Typing') = owed + 1
      BY <2>2, <3>0, TypingIsFinite
    <3>3. /\ sends[i] <= now /\ sends[i] \in Nat /\ now \in Nat
          /\ Paid(owed) + bucket <= Paid(all) + (now - sends[i])
      <4>1. sends[i] \in Nat /\ now \in Nat
        BY <1>1, SendTypes
      <4> QED BY <4>1, SendIsPaid
    <3>6. bucket \in Nat /\ Interval \in Nat
      BY <1>1, GateAssumption, BucketIsNat
    <3> HIDE DEF owed, all
    <3>4. Paid(owed) \in Nat /\ Paid(all) \in Nat /\ Paid(owed + 1) = Paid(owed) + Interval
      BY <3>1, PaidOne
    <3>5. Paid(owed + 1) + bucket' <= Paid(all) + (now - sends[i])
      BY <2>1, <3>3, <3>4, <3>6
    <3> QED BY <3>2, <3>3, <3>5 DEF all
  <2> QED BY <2>1, <2>3 DEF BucketPays, Paid, GateInv, RateIsKept
<1>5. ASSUME NEW p \in Pushers, SendPart(p)
      PROVE  BucketPays' /\ RateIsKept'
  <2>1. /\ p \in Typing /\ Typing' = Typing \ {p}
        /\ sends' = Append(sends, now) /\ UNCHANGED <<now, bucket>>
    BY <1>1, <1>5 DEF SendPart, Typing, NoPush, GateTypeOK
  <2>2. /\ Cardinality(Typing') = Cardinality(Typing) - 1
        /\ Cardinality(Typing') \in Nat
    BY <2>1, TypingIsFinite, FS_RemoveElement, FS_CardinalityType
  <2> DEFINE all == Burst + Cardinality(Pushers)
  <2>7. /\ Len(sends') = Len(sends) + 1 /\ DOMAIN sends' = 1..(Len(sends) + 1)
        /\ \A k \in 1..Len(sends) : sends'[k] = sends[k]
        /\ sends'[Len(sends) + 1] = now
    <3>1. sends \in Seq(Nat) /\ now \in Nat
      BY <1>1 DEF GateTypeOK
    <3> QED BY <2>1, <3>1
  <2>8. Len(sends) \in Nat /\ DOMAIN sends = 1..Len(sends) /\ now \in Nat
    BY <1>1, SendTypes
  <2>3. ASSUME NEW i \in DOMAIN sends'
        PROVE  /\ sends'[i] \in Nat /\ sends'[i] <= now
               /\ Paid(Len(sends') - i + 1 + Cardinality(Typing')) + bucket
                    <= Paid(all) + (now - sends'[i])
    <3>1. CASE i \in DOMAIN sends
      <4>1. sends'[i] = sends[i]
            /\ Len(sends') - i + 1 + Cardinality(Typing') = Len(sends) - i + 1 + Cardinality(Typing)
        <5>1. Len(sends) \in Nat /\ i \in 1..Len(sends)
          BY <1>1, <3>1, SendTypes
        <5>2. Len(sends') = Len(sends) + 1 /\ sends'[i] = sends[i]
          BY <2>7, <5>1
        <5>3. Cardinality(Typing) \in Nat
          BY TypingIsFinite
        <5> QED BY <2>2, <5>1, <5>2, <5>3
      <4>2. sends[i] \in Nat
        BY <1>1, <3>1, SendTypes
      <4>3. /\ sends[i] <= now
            /\ Paid(Len(sends) - i + 1 + Cardinality(Typing)) + bucket
                 <= Paid(all) + (now - sends[i])
        BY <3>1, SendIsPaid
      <4> QED BY <4>1, <4>2, <4>3
    <3>2. CASE i \notin DOMAIN sends
      <4>1. i = Len(sends) + 1 /\ sends'[i] = now /\ now \in Nat /\ Len(sends') = Len(sends) + 1
            /\ Len(sends) \in Nat
        BY <2>7, <2>8, <3>2
      <4>2. Len(sends') - i + 1 + Cardinality(Typing') = Cardinality(Typing)
        BY <2>2, <4>1, TypingIsFinite
      <4>3. /\ Paid(Burst + Cardinality(Typing)) <= Paid(all)
            /\ Paid(Burst + Cardinality(Typing)) \in Nat /\ Paid(all) \in Nat
        BY TypingIsFinite, GateAssumption, PaidGrows
      <4>4. Paid(Burst + Cardinality(Typing)) = Burst * Interval + Paid(Cardinality(Typing))
        BY TypingIsFinite, GateAssumption DEF Paid
      <4>5. bucket <= Burst * Interval /\ bucket \in Nat /\ Burst * Interval \in Nat
        BY <1>1, BucketIsNat
      <4>7. Paid(Cardinality(Typing)) \in Nat
        BY TypingIsFinite, PaidOne
      <4> DEFINE full == Burst * Interval
                 held == Paid(Cardinality(Typing))
                 owed == Paid(Burst + Cardinality(Typing))
                 most == Paid(all)
      <4>8. /\ owed <= most /\ owed = full + held /\ bucket <= full
            /\ owed \in Nat /\ most \in Nat /\ full \in Nat /\ held \in Nat /\ bucket \in Nat
        BY <4>3, <4>4, <4>5, <4>7
      <4> HIDE DEF all, full, held, owed, most
      <4>9. held + bucket <= most
        BY <4>8
      <4>6. Paid(Cardinality(Typing)) + bucket <= Paid(all)
        BY <4>9 DEF held, most
      <4> QED BY <4>1, <4>2, <4>3, <4>6
    <3> QED BY <3>1, <3>2
  <2>4. BucketPays'
    BY <2>1, <2>3 DEF BucketPays, Paid
  <2>5. ASSUME NEW i \in DOMAIN sends', NEW j \in DOMAIN sends', i <= j
        PROVE  (j - i + 1) * Interval <= all * Interval + (sends'[j] - sends'[i])
    <3>1. CASE j \in DOMAIN sends
      <4>0. j \in 1..Len(sends) /\ i \in 1..(Len(sends) + 1)
        BY <2>7, <2>8, <3>1
      <4>1. i \in DOMAIN sends /\ sends'[i] = sends[i] /\ sends'[j] = sends[j]
        <5>1. i \in 1..Len(sends)
          BY <2>5, <2>8, <4>0
        <5> QED BY <2>7, <2>8, <4>0, <5>1
      <4>2. RateIsKept
        BY DEF GateInv
      <4>3. (j - i + 1) * Interval <= all * Interval + (sends[j] - sends[i])
        BY <2>5, <3>1, <4>1, <4>2 DEF RateIsKept
      <4> HIDE DEF all
      <4> QED BY <4>1, <4>3
    <3>2. CASE j \notin DOMAIN sends
      <4>1. j = Len(sends') /\ sends'[j] = now /\ now \in Nat /\ Len(sends') \in Nat /\ i \in Nat
        BY <2>7, <2>8, <3>2
      <4>2. j - i + 1 \in Nat /\ j - i + 1 <= Len(sends') - i + 1 + Cardinality(Typing')
            /\ Len(sends') - i + 1 + Cardinality(Typing') \in Nat
        BY <2>2, <2>5, <4>1
      <4>3. /\ Paid(j - i + 1) <= Paid(Len(sends') - i + 1 + Cardinality(Typing'))
            /\ Paid(j - i + 1) \in Nat /\ Paid(Len(sends') - i + 1 + Cardinality(Typing')) \in Nat
        BY <4>2, PaidGrows
      <4>4. Paid(all) \in Nat /\ bucket \in Nat
        <5>1. all \in Nat
          BY TypingIsFinite, GateAssumption
        <5> QED BY <1>1, <5>1, PaidGrows, BucketIsNat
      <4> HIDE DEF all
      <4>5. Paid(j - i + 1) <= Paid(all) + (now - sends'[i])
        BY <2>3, <4>1, <4>3, <4>4
      <4> QED BY <4>1, <4>5 DEF Paid
    <3> QED BY <3>1, <3>2
  <2>6. RateIsKept'
    BY <2>5 DEF RateIsKept
  <2> QED BY <2>4, <2>6
<1>6. CASE Tick
  <2>1. now' = now + 1 /\ bucket' <= bucket + 1 /\ UNCHANGED <<sends, push>> /\ now \in Nat
    BY <1>1, <1>6 DEF Tick, GateTypeOK
  <2>2. Typing' = Typing
    BY <2>1 DEF Typing
  <2>3. now' - now = 1
    BY <2>1
  <2> QED BY <1>1, <2>1, <2>2, <2>3, TypingIsFinite, PaymentStays
<1>7. CASE Restart
  BY <1>7 DEF Restart, BucketPays, RateIsKept
<1>8. CASE UNCHANGED gateVars
  BY <1>2, <1>8 DEF gateVars, Typing
<1> QED BY <1>3, <1>4, <1>5, <1>6, <1>7, <1>8 DEF GateNext

(* The push that meets a wait is alone and in time, or the run is out of   *)
(* the promise: it began when the gate was open, later than any wait there *)
(* was, and shuts the gate for longer than Telegram asks.                  *)
LEMMA CoverStep ==
  ASSUME GateInv, [GateNext]_gateVars
  PROVE  OpenWhenBegun' /\ GateCoversTheWait'
<1>1. GateTypeOK /\ OpenWhenBegun /\ GateCoversTheWait
  BY DEF GateInv
<1>2. hurt \subseteq hurt' \/ "restart" \in hurt'
  BY DEF GateNext, Start, TakeToken, SendPart, MeetFloodWait, BreakOff, Called, Tick, Restart, gateVars
<1>3. ASSUME UNCHANGED <<gate, barred>>,
             \A p \in Pushers : push'[p].pc # "idle" =>
               \/ push[p].pc # "idle" /\ push'[p].began = push[p].began
               \/ gate.until <= push'[p].began
      PROVE  OpenWhenBegun' /\ GateCoversTheWait'
  BY <1>1, <1>2, <1>3 DEF OpenWhenBegun, GateCoversTheWait
<1>4. ASSUME NEW p \in Pushers, Start(p)
      PROVE  OpenWhenBegun' /\ GateCoversTheWait'
  <2>1. PICK parts \in 1..MaxParts :
          push' = [push EXCEPT ![p] = [pc |-> "queued", began |-> now, left |-> parts]]
    BY <1>4 DEF Start
  <2>2. gate.until <= now
    BY <1>1, <1>4 DEF Start, IsBlocked, GateTypeOK
  <2>3. push'[p].began = now /\ \A q \in Pushers \ {p} : push'[q] = push[q]
    BY <1>1, <2>1 DEF GateTypeOK
  <2>4. UNCHANGED <<gate, barred>>
    BY <1>4 DEF Start
  <2> QED BY <1>3, <2>2, <2>3, <2>4
<1>5. ASSUME NEW p \in Pushers, TakeToken(p) \/ SendPart(p) \/ BreakOff(p)
      PROVE  OpenWhenBegun' /\ GateCoversTheWait'
  <2>1. UNCHANGED <<gate, barred>> /\ push[p].pc # "idle"
    BY <1>5 DEF TakeToken, SendPart, BreakOff
  <2>2. \A q \in Pushers \ {p} : push'[q] = push[q]
    BY <1>1, <1>5 DEF TakeToken, SendPart, BreakOff, GateTypeOK
  <2>3. push'[p].pc # "idle" => push'[p].began = push[p].began
    <3>1. CASE TakeToken(p)
      BY <1>1, <3>1 DEF TakeToken, GateTypeOK
    <3>2. CASE BreakOff(p)
      BY <1>1, <3>2 DEF BreakOff, NoPush, GateTypeOK
    <3>3. CASE SendPart(p) /\ push[p].left = 1
      BY <1>1, <3>3 DEF SendPart, NoPush, GateTypeOK
    <3>4. CASE SendPart(p) /\ push[p].left # 1
      BY <1>1, <3>4 DEF SendPart, GateTypeOK
    <3> QED BY <1>5, <3>1, <3>2, <3>3, <3>4
  <2> QED BY <1>3, <2>1, <2>2, <2>3
<1>6. ASSUME NEW p \in Pushers, MeetFloodWait(p), hurt' \subseteq {"called"}
      PROVE  OpenWhenBegun' /\ GateCoversTheWait'
  <2>1. PICK wait \in Waits : NoteFloodWait(p, wait) /\ barred' = Later(barred, now + wait)
    BY <1>6 DEF MeetFloodWait
  <2>2. /\ push' = [push EXCEPT ![p] = NoPush] /\ push[p].pc = "typing"
        /\ hurt' = Called
             \union (IF now > push[p].began + Margin THEN {"slow"} ELSE {})
             \union (IF \E q \in Pushers \ {p} : push[q].pc # "idle" THEN {"overlap"} ELSE {})
    BY <1>6 DEF MeetFloodWait
  <2>3. hurt \subseteq {"called"}
    BY <1>6, <2>2 DEF Called
  <2>4. ~(now > push[p].began + Margin)
    BY <1>6, <2>2
  <2>5. \A q \in Pushers \ {p} : push[q].pc = "idle"
    BY <1>6, <2>2
  <2>6. \A q \in Pushers : push'[q].pc = "idle"
    BY <1>1, <2>2, <2>5 DEF NoPush, GateTypeOK
  <2>7. barred <= gate.until /\ gate.until <= push[p].began
    BY <1>1, <2>2, <2>3 DEF OpenWhenBegun, GateCoversTheWait
  <2>8. gate'.until = push[p].began + wait + Margin
    BY <1>1, <2>1 DEF NoteFloodWait, GateTypeOK
  <2>9. /\ wait \in Nat /\ Margin \in Nat /\ now \in Nat /\ barred \in Nat
        /\ push[p].began \in Nat /\ gate.until \in Nat
    BY <1>1, GateAssumption DEF GateTypeOK
  <2>10. barred <= gate'.until /\ now + wait <= gate'.until
    BY <2>4, <2>7, <2>8, <2>9
  <2>11. barred' <= gate'.until
    BY <2>1, <2>10 DEF Later
  <2> QED BY <2>6, <2>11 DEF OpenWhenBegun, GateCoversTheWait
<1>7. ASSUME ~(hurt' \subseteq {"called"})
      PROVE  OpenWhenBegun' /\ GateCoversTheWait'
  BY <1>7 DEF OpenWhenBegun, GateCoversTheWait
<1>8. CASE Tick
  BY <1>3, <1>8 DEF Tick
<1>9. CASE Restart
  BY <1>7, <1>9 DEF Restart
<1>10. CASE UNCHANGED gateVars
  BY <1>3, <1>10 DEF gateVars
<1> QED BY <1>4, <1>5, <1>6, <1>7, <1>8, <1>9, <1>10 DEF GateNext

(* telegram/safety.py and telegram/sender.push: the account never sends    *)
(* faster than its rate and one burst, and its gate covers the wait that   *)
(* Telegram asked for, for any pushers, rate, margin and waits.            *)
THEOREM GateHolds == GateSpec => []GateIsKept
<1>1. GateInv /\ [GateNext]_gateVars => GateInv'
  <2> SUFFICES ASSUME GateInv, [GateNext]_gateVars PROVE GateInv'
    OBVIOUS
  <2>1. GateTypeOK'
    BY GateTypeStep DEF GateInv
  <2> QED BY <2>1, RateStep, CoverStep DEF GateInv
<1>2. GateInv => GateIsKept
  BY DEF GateInv, GateIsKept
<1> QED BY GateStart, <1>1, <1>2, PTL DEF GateSpec

------------------------------------------------------------------------------
(* The memory.  The index lets a transaction write a fact anew only when   *)
(* it is itself about to take the old row away; so two rows of one fact    *)
(* that are not past belong to one transaction, which ends with one.       *)
Fact == [category : Categories, key : Keys, status : {"new", "leaving", "active", "past"},
         by : Extractors \union {"none"}]
Findings == UNION {{b[k] : k \in DOMAIN b} : b \in Batches}
Extraction == [pc : {"idle", "next", "superseding", "inserting"}, batch : Batches \union {<<>>},
               at : Nat, seen : SUBSET Nat, reasons : Seq({Reason(c) : c \in Findings})]

MemoryTypeOK ==
  /\ Len(facts) \in Nat /\ facts \in [1..Len(facts) -> Fact]
  /\ job \in [Extractors -> Extraction]

FindingIsSound ==
  \A w \in Extractors : job[w].pc \in {"superseding", "inserting"} =>
    job[w].at \in DOMAIN job[w].batch /\ Finding(w).flaws = {}

OpenRowsAreOwned ==
  \A r \in Rows : facts[r].by \in Extractors <=> facts[r].status \in {"new", "leaving"}

TwiceByOneOnly ==
  \A r, s \in Rows :
    r # s /\ FactOf(r) = FactOf(s) /\ facts[r].status # "past" /\ facts[s].status # "past" =>
      /\ facts[r].by \in Extractors /\ facts[s].by = facts[r].by
      /\ facts[r].status # facts[s].status

MemoryInv == MemoryTypeOK /\ FindingIsSound /\ OpenRowsAreOwned /\ TwiceByOneOnly

LEMMA MemoryStart == MemoryInit => MemoryInv
<1> SUFFICES ASSUME MemoryInit PROVE MemoryInv
  OBVIOUS
<1>1. Len(facts) = 0 /\ DOMAIN facts = {} /\ facts \in [1..0 -> Fact]
  BY DEF MemoryInit
<1>2. NoJob \in Extraction
  BY DEF NoJob, Extraction
<1>3. MemoryTypeOK
  BY <1>1, <1>2 DEF MemoryInit, MemoryTypeOK
<1>4. FindingIsSound
  BY DEF MemoryInit, FindingIsSound, NoJob
<1> QED BY <1>1, <1>3, <1>4 DEF MemoryInv, OpenRowsAreOwned, TwiceByOneOnly, Rows

(* A batch is a sequence, also that of no job *)
LEMMA BatchIsSequence ==
  ASSUME NEW b \in Batches \union {<<>>}
  PROVE  Len(b) \in Nat /\ DOMAIN b = 1..Len(b)
<1>1. CASE b \in Batches
  BY <1>1, MemoryAssumption
<1>2. CASE b = <<>>
  BY <1>2
<1> QED BY <1>1, <1>2

(* The steps that only move a job along *)
LEMMA JobStep ==
  ASSUME MemoryInv, NEW w \in Extractors, Extract(w) \/ NextFinding(w)
  PROVE  MemoryInv'
<1>1. MemoryTypeOK /\ FindingIsSound
  BY DEF MemoryInv
<1>2. UNCHANGED facts
  BY DEF Extract, NextFinding
<1>3. ASSUME NEW e \in Extraction, job' = [job EXCEPT ![w] = e],
             e.pc \in {"superseding", "inserting"} =>
               e.at \in DOMAIN e.batch /\ e.batch[e.at].flaws = {}
      PROVE  MemoryInv'
  <2>1. job' \in [Extractors -> Extraction] /\ job'[w] = e
        /\ \A v \in Extractors \ {w} : job'[v] = job[v]
    BY <1>1, <1>3 DEF MemoryTypeOK
  <2>2. MemoryTypeOK'
    BY <1>1, <1>2, <2>1 DEF MemoryTypeOK
  <2>3. FindingIsSound'
    BY <1>1, <1>3, <2>1 DEF FindingIsSound, Finding
  <2> QED BY <1>2, <2>2, <2>3 DEF MemoryInv, OpenRowsAreOwned, TwiceByOneOnly, Rows, FactOf
<1>4. CASE Extract(w)
  <2>1. PICK b \in Batches : job' = [job EXCEPT ![w] = [NoJob EXCEPT !.pc = "next", !.batch = b]]
    BY <1>4 DEF Extract
  <2> DEFINE e == [NoJob EXCEPT !.pc = "next", !.batch = b]
  <2>2. NoJob \in Extraction
    BY DEF NoJob, Extraction
  <2>3. e \in Extraction /\ e.pc = "next"
    BY <2>2 DEF Extraction
  <2> QED BY <1>3, <2>1, <2>2, <2>3
<1>5. CASE NextFinding(w)
  <2> DEFINE j == job[w]
             c == j.batch[j.at + 1]
             pc == IF c.flaws # {} THEN "next"
                   ELSE IF c.category \in Single THEN "superseding" ELSE "inserting"
             reasons == IF c.flaws # {} THEN Append(j.reasons, Reason(c)) ELSE j.reasons
             seen == IF c.flaws = {} /\ c.category \in Single
                     THEN {r \in Of(c) : Visible(w, r)} ELSE {}
             e == [pc |-> pc, batch |-> j.batch, at |-> j.at + 1, seen |-> seen, reasons |-> reasons]
  <2>1. j \in Extraction /\ j.at < Len(j.batch)
    BY <1>1, <1>5 DEF NextFinding, MemoryTypeOK
  <2>2. j.at + 1 \in DOMAIN j.batch /\ j.at + 1 \in Nat /\ j.batch \in Batches \union {<<>>}
    BY <2>1, BatchIsSequence DEF Extraction
  <2>3. c \in Findings
    BY <2>2 DEF Findings
  <2>4. reasons \in Seq({Reason(d) : d \in Findings})
    <3>1. Reason(c) \in {Reason(d) : d \in Findings}
      BY <2>3
    <3>2. j.reasons \in Seq({Reason(d) : d \in Findings})
      BY <2>1 DEF Extraction
    <3> QED BY <3>1, <3>2
  <2>5. seen \in SUBSET Nat
    BY <1>1 DEF Of, Rows, MemoryTypeOK
  <2>6. job' = [job EXCEPT ![w] = e]
    <3> HIDE DEF pc, reasons, seen
    <3>1. job' = [job EXCEPT ![w].at = @ + 1, ![w].pc = pc, ![w].reasons = reasons, ![w].seen = seen]
      <4> USE DEF pc, reasons, seen
      <4> QED BY <1>1, <1>5 DEF NextFinding, MemoryTypeOK, Extraction
    <3>2. job' = [job EXCEPT ![w] = job'[w]]
      BY <1>1, <3>1 DEF MemoryTypeOK
    <3>3. job'[w] = e
      BY <1>1, <2>1, <3>1 DEF MemoryTypeOK, Extraction
    <3> QED BY <3>2, <3>3
  <2>7. e \in Extraction
    BY <2>2, <2>4, <2>5 DEF Extraction
  <2>8. e.pc \in {"superseding", "inserting"} => e.batch[e.at].flaws = {}
    OBVIOUS
  <2> QED BY <1>3, <2>2, <2>6, <2>7, <2>8
<1> QED BY <1>4, <1>5

(* The rows a step leaves as they are for every other transaction *)
LEMMA RowsChange ==
  ASSUME MemoryInv, NEW w \in Extractors,
         Len(facts') = Len(facts), facts' \in [1..Len(facts) -> Fact],
         \A r \in Rows : FactOf(r)' = FactOf(r),
         \A r \in Rows :
           \/ facts'[r] = facts[r]
           \/ /\ facts[r].status = "active"
              /\ facts'[r].status = "leaving" /\ facts'[r].by = w
           \/ /\ facts[r].by = w
              /\ facts'[r].status = "past" /\ facts'[r].by = "none"
  PROVE  OpenRowsAreOwned' /\ TwiceByOneOnly'
<1>1. MemoryTypeOK /\ OpenRowsAreOwned /\ TwiceByOneOnly
  BY DEF MemoryInv
<1>2. Rows' = Rows /\ Rows = 1..Len(facts)
  BY <1>1 DEF Rows, MemoryTypeOK
<1>3. OpenRowsAreOwned'
  BY <1>1, <1>2, MemoryAssumption DEF OpenRowsAreOwned, MemoryTypeOK, Fact
<1>4. ASSUME NEW r \in Rows, NEW s \in Rows, r # s, FactOf(r) = FactOf(s),
             facts'[r].status # "past", facts'[s].status # "past"
      PROVE  facts'[r] = facts[r] /\ facts'[s] = facts[s]
  <2>1. facts[r].status # "past" /\ facts[s].status # "past"
    BY <1>1, <1>4 DEF OpenRowsAreOwned, MemoryTypeOK, Fact
  <2>2. facts[r].by \in Extractors /\ facts[s].by \in Extractors
    BY <1>1, <1>4, <2>1 DEF TwiceByOneOnly
  <2> QED BY <1>1, <1>4, <2>2 DEF OpenRowsAreOwned
<1>5. TwiceByOneOnly'
  <2> SUFFICES ASSUME NEW r \in Rows, NEW s \in Rows, r # s, FactOf(r)' = FactOf(s)',
                      facts'[r].status # "past", facts'[s].status # "past"
               PROVE  /\ facts'[r].by \in Extractors /\ facts'[s].by = facts'[r].by
                      /\ facts'[r].status # facts'[s].status
    BY <1>2 DEF TwiceByOneOnly
  <2>1. FactOf(r) = FactOf(s)
    OBVIOUS
  <2>2. facts'[r] = facts[r] /\ facts'[s] = facts[s]
    BY <1>4, <2>1
  <2> QED BY <1>1, <2>1, <2>2 DEF TwiceByOneOnly
<1> QED BY <1>3, <1>5

(* What each kind of step does to the rows *)
LEMMA SupersedeRows ==
  ASSUME MemoryInv, NEW w \in Extractors, Supersede(w)
  PROVE  /\ Len(facts') = Len(facts) /\ facts' \in [1..Len(facts) -> Fact] /\ Rows' = Rows
         /\ \A r \in Rows :
              /\ facts'[r].category = facts[r].category /\ facts'[r].key = facts[r].key
              /\ \/ /\ r \in job[w].seen /\ facts[r].status = "active"
                    /\ facts'[r].status = "leaving" /\ facts'[r].by = w
                 \/ /\ r \in job[w].seen /\ facts[r].status = "new" /\ facts[r].by = w
                    /\ facts'[r].status = "past" /\ facts'[r].by = "none"
                 \/ /\ ~(r \in job[w].seen /\ facts[r].status \in {"active", "new"})
                    /\ facts'[r] = facts[r]
<1>1. MemoryTypeOK /\ FindingIsSound /\ OpenRowsAreOwned
  BY DEF MemoryInv
<1> DEFINE new(r) == IF r \notin job[w].seen THEN facts[r]
                     ELSE CASE facts[r].status = "active" ->
                                 [facts[r] EXCEPT !.status = "leaving", !.by = w]
                            [] facts[r].status = "new" ->
                                 [facts[r] EXCEPT !.status = "past", !.by = "none"]
                            [] OTHER -> facts[r]
<1>2. facts' = [r \in Rows |-> new(r)]
  BY DEF Supersede
<1>3. Rows = 1..Len(facts) /\ Len(facts) \in Nat
  BY <1>1 DEF Rows, MemoryTypeOK
<1>4. ASSUME NEW r \in Rows
      PROVE  /\ new(r) \in Fact /\ new(r).category = facts[r].category /\ new(r).key = facts[r].key
             /\ \/ /\ r \in job[w].seen /\ facts[r].status = "active"
                   /\ new(r).status = "leaving" /\ new(r).by = w
                \/ /\ r \in job[w].seen /\ facts[r].status = "new" /\ facts[r].by = w
                   /\ new(r).status = "past" /\ new(r).by = "none"
                \/ /\ ~(r \in job[w].seen /\ facts[r].status \in {"active", "new"})
                   /\ new(r) = facts[r]
  <2>1. facts[r] \in Fact
    BY <1>1, <1>3 DEF MemoryTypeOK
  <2>2. CASE r \in job[w].seen /\ facts[r].status = "active"
    BY <2>1, <2>2 DEF Fact
  <2>3. CASE r \in job[w].seen /\ facts[r].status = "new"
    <3>1. facts[r].by = w
      BY <1>1, <2>3, MemoryAssumption DEF Supersede, Foreign, OpenRowsAreOwned
    <3> QED BY <2>1, <2>3, <3>1 DEF Fact
  <2>4. CASE ~(r \in job[w].seen /\ facts[r].status \in {"active", "new"})
    BY <2>1, <2>4
  <2> QED BY <2>2, <2>3, <2>4
<1>5. facts' \in [1..Len(facts) -> Fact] /\ \A r \in Rows : facts'[r] = new(r)
  BY <1>2, <1>3, <1>4
<1> HIDE DEF new
<1>6. Len(facts') = Len(facts) /\ Rows' = Rows
  BY <1>3, <1>5 DEF Rows
<1> QED BY <1>4, <1>5, <1>6

LEMMA SupersedeStep ==
  ASSUME MemoryInv, NEW w \in Extractors, Supersede(w)
  PROVE  MemoryInv'
<1>1. MemoryTypeOK /\ FindingIsSound
  BY DEF MemoryInv
<1>3. Rows = 1..Len(facts) /\ Len(facts) \in Nat
  BY <1>1 DEF Rows, MemoryTypeOK
<1>5. Len(facts') = Len(facts) /\ facts' \in [1..Len(facts) -> Fact]
  BY SupersedeRows
<1>7. OpenRowsAreOwned' /\ TwiceByOneOnly'
  <2>1. \A r \in Rows : FactOf(r)' = FactOf(r)
    BY SupersedeRows DEF FactOf
  <2>2. \A r \in Rows :
          \/ facts'[r] = facts[r]
          \/ /\ facts[r].status = "active"
             /\ facts'[r].status = "leaving" /\ facts'[r].by = w
          \/ /\ facts[r].by = w
             /\ facts'[r].status = "past" /\ facts'[r].by = "none"
    BY SupersedeRows
  <2> QED BY <1>5, <2>1, <2>2, RowsChange
<1>8. job' = [job EXCEPT ![w].pc = "inserting", ![w].seen = {}]
      /\ job[w].pc = "superseding"
  BY DEF Supersede
<1>9. /\ job' \in [Extractors -> Extraction] /\ \A v \in Extractors \ {w} : job'[v] = job[v]
      /\ job'[w].at = job[w].at /\ job'[w].batch = job[w].batch
  <2>1. job \in [Extractors -> Extraction] /\ job[w] \in Extraction
    BY <1>1 DEF MemoryTypeOK
  <2>2. /\ \A v \in Extractors \ {w} : job'[v] = job[v]
        /\ job'[w].at = job[w].at /\ job'[w].batch = job[w].batch
    BY <1>8, <2>1 DEF Extraction
  <2>3. [job[w] EXCEPT !.pc = "inserting", !.seen = {}] \in Extraction
    BY <2>1 DEF Extraction
  <2>4. job' = [job EXCEPT ![w] = [job[w] EXCEPT !.pc = "inserting", !.seen = {}]]
    BY <1>8, <2>1
  <2> QED BY <2>1, <2>2, <2>3, <2>4
<1>10. FindingIsSound'
  <2> SUFFICES ASSUME NEW v \in Extractors, job'[v].pc \in {"superseding", "inserting"}
               PROVE  /\ job'[v].at \in DOMAIN job'[v].batch
                      /\ job'[v].batch[job'[v].at].flaws = {}
    BY DEF FindingIsSound, Finding
  <2>1. CASE v = w
    BY <1>1, <1>8, <1>9, <2>1 DEF FindingIsSound, Finding
  <2>2. CASE v # w
    BY <1>1, <1>9, <2>2 DEF FindingIsSound, Finding
  <2> QED BY <2>1, <2>2
<1> QED BY <1>3, <1>5, <1>7, <1>9, <1>10 DEF MemoryInv, MemoryTypeOK

LEMMA InsertRows ==
  ASSUME MemoryInv, NEW w \in Extractors, Insert(w), ~Conflict(w)
  PROVE  LET n == Len(facts) + 1
         IN  /\ Len(facts') = n /\ facts' \in [1..n -> Fact]
             /\ Rows' = Rows \union {n} /\ n \notin Rows
             /\ \A r \in Rows : facts'[r] = facts[r]
             /\ facts'[n].category = Finding(w).category /\ facts'[n].key = Finding(w).key
             /\ facts'[n].status = "new" /\ facts'[n].by = w
<1>1. MemoryTypeOK /\ FindingIsSound
  BY DEF MemoryInv
<1>2. job[w].pc = "inserting"
  BY DEF Insert
<1>3. Rows = 1..Len(facts) /\ Len(facts) \in Nat
  BY <1>1 DEF Rows, MemoryTypeOK
<1> DEFINE c   == Finding(w)
           row == [category |-> c.category, key |-> c.key, status |-> "new", by |-> w]
           n   == Len(facts) + 1
<1>5. facts' = Append(facts, row)
  BY DEF Insert
<1>6. row \in Fact
  <2>1. job[w].batch \in Batches \union {<<>>} /\ job[w].at \in DOMAIN job[w].batch
        /\ c = job[w].batch[job[w].at] /\ c.flaws = {}
    BY <1>1, <1>2 DEF MemoryTypeOK, Extraction, FindingIsSound, Finding
  <2>2. job[w].batch \in Batches
    BY <2>1
  <2>3. c.key \in Keys /\ c.category \in Categories
    BY <2>1, <2>2, MemoryAssumption
  <2> QED BY <2>3 DEF Fact
<1> HIDE DEF row
<1>7. facts \in Seq(Fact)
  BY <1>1 DEF MemoryTypeOK
<1>8. /\ Len(facts') = n /\ facts' \in [1..n -> Fact] /\ facts'[n] = row
      /\ \A r \in Rows : facts'[r] = facts[r]
  <2>1. facts' \in Seq(Fact) /\ Len(facts') = n
    BY <1>5, <1>6, <1>7
  <2>2. \A r \in 1..Len(facts) : facts'[r] = facts[r]
    BY <1>5, <1>6, <1>7
  <2>3. facts'[n] = row
    BY <1>5, <1>6, <1>7
  <2> QED BY <1>3, <2>1, <2>2, <2>3
<1>9. Rows' = Rows \union {n} /\ n \notin Rows
  <2>1. Rows' = 1..n
    BY <1>8 DEF Rows
  <2> QED BY <1>3, <2>1
<1>10. row.status = "new" /\ row.by = w /\ row.category = c.category /\ row.key = c.key
  BY DEF row
<1> QED BY <1>8, <1>9, <1>10

LEMMA InsertStep ==
  ASSUME MemoryInv, NEW w \in Extractors, Insert(w)
  PROVE  MemoryInv'
<1>1. MemoryTypeOK /\ FindingIsSound /\ OpenRowsAreOwned /\ TwiceByOneOnly
  BY DEF MemoryInv
<1>2. job' = [job EXCEPT ![w].pc = "next"] /\ job[w].pc = "inserting"
  BY DEF Insert
<1>3. job' \in [Extractors -> Extraction] /\ FindingIsSound'
  <2>1. /\ job' \in [Extractors -> Extraction] /\ \A v \in Extractors \ {w} : job'[v] = job[v]
        /\ job'[w].pc = "next"
    BY <1>1, <1>2 DEF MemoryTypeOK, Extraction
  <2> QED BY <1>1, <2>1 DEF FindingIsSound, Finding
<1>4. Rows = 1..Len(facts) /\ Len(facts) \in Nat
  BY <1>1 DEF Rows, MemoryTypeOK
<1>5. CASE Conflict(w)
  <2>1. facts' = facts
    BY <1>5 DEF Insert
  <2> QED BY <1>1, <1>3, <2>1
          DEF MemoryInv, MemoryTypeOK, OpenRowsAreOwned, TwiceByOneOnly, Rows, FactOf
<1>6. CASE ~Conflict(w)
  <2> DEFINE c == Finding(w)
             n == Len(facts) + 1
  <2>4. /\ Len(facts') = n /\ facts' \in [1..n -> Fact]
        /\ \A r \in Rows : facts'[r] = facts[r]
    BY <1>6, InsertRows
  <2>6. Rows' = Rows \union {n} /\ n \notin Rows
    BY <1>6, InsertRows
  <2>7. /\ facts'[n].status = "new" /\ facts'[n].by = w
        /\ facts'[n].category = c.category /\ facts'[n].key = c.key
    BY <1>6, InsertRows
  <2>5. MemoryTypeOK'
    BY <1>3, <1>4, <2>4 DEF MemoryTypeOK
  <2>8. OpenRowsAreOwned'
    BY <1>1, <2>4, <2>6, <2>7 DEF OpenRowsAreOwned
  <2>9. ASSUME NEW r \in Rows, facts[r].status # "past",
               facts[r].category = c.category, facts[r].key = c.key
        PROVE  facts[r].status = "leaving" /\ facts[r].by = w
    <3>1. r \in Same(w)
      BY <2>9 DEF Same, Of
    <3>2. facts[r].by \in {w, "none"}
      BY <3>1 DEF Insert, Foreign
    <3>3. facts[r].status \notin {"active", "new"}
      BY <1>6, <3>1 DEF Conflict
    <3>4. facts[r].status = "leaving"
      BY <1>1, <1>4, <2>9, <3>3 DEF MemoryTypeOK, Fact
    <3>5. facts[r].by \in Extractors
      BY <1>1, <3>4 DEF OpenRowsAreOwned
    <3> QED BY <3>2, <3>4, <3>5, MemoryAssumption
  <2>10. TwiceByOneOnly'
    <3> SUFFICES ASSUME NEW r \in Rows', NEW s \in Rows', r # s, FactOf(r)' = FactOf(s)',
                        facts'[r].status # "past", facts'[s].status # "past"
                 PROVE  /\ facts'[r].by \in Extractors /\ facts'[s].by = facts'[r].by
                        /\ facts'[r].status # facts'[s].status
      BY DEF TwiceByOneOnly
    <3>1. facts'[r].category = facts'[s].category /\ facts'[r].key = facts'[s].key
      BY DEF FactOf
    <3>2. CASE r \in Rows /\ s \in Rows
      <4>1. facts'[r] = facts[r] /\ facts'[s] = facts[s] /\ FactOf(r) = FactOf(s)
        BY <2>4, <3>1, <3>2 DEF FactOf
      <4> QED BY <1>1, <3>2, <4>1 DEF TwiceByOneOnly
    <3>3. CASE r \in Rows /\ s = n
      BY <2>4, <2>7, <2>9, <3>1, <3>3
    <3>4. CASE s \in Rows /\ r = n
      BY <2>4, <2>7, <2>9, <3>1, <3>4
    <3> QED BY <2>6, <3>2, <3>3, <3>4
  <2> QED BY <1>3, <2>5, <2>8, <2>10 DEF MemoryInv
<1> QED BY <1>5, <1>6

LEMMA EndRows ==
  ASSUME MemoryInv, NEW w \in Extractors,
         NEW new \in {"active", "past"}, NEW leaving \in {"active", "past"},
         SettleJob(w, new, leaving)
  PROVE  /\ Len(facts') = Len(facts) /\ facts' \in [1..Len(facts) -> Fact] /\ Rows' = Rows
         /\ \A r \in Rows :
              /\ facts'[r].category = facts[r].category /\ facts'[r].key = facts[r].key
              /\ facts[r].by # w => facts'[r] = facts[r]
              /\ facts[r].by = w => /\ facts'[r].by = "none"
                                    /\ facts'[r].status = IF facts[r].status = "new" THEN new
                                                          ELSE leaving
<1>1. MemoryTypeOK
  BY DEF MemoryInv
<1>2. SettleJob(w, new, leaving)
  OBVIOUS
<1>3. Rows = 1..Len(facts) /\ Len(facts) \in Nat
  BY <1>1 DEF Rows, MemoryTypeOK
<1>4. ASSUME NEW r \in Rows
      PROVE  /\ facts'[r] \in Fact /\ facts'[r].category = facts[r].category
             /\ facts'[r].key = facts[r].key
             /\ facts[r].by # w => facts'[r] = facts[r]
             /\ facts[r].by = w => /\ facts'[r].by = "none"
                                   /\ facts'[r].status = IF facts[r].status = "new" THEN new
                                                         ELSE leaving
  <2>1. facts[r] \in Fact
    BY <1>1, <1>3, <1>4 DEF MemoryTypeOK
  <2>2. CASE facts[r].by # w
    BY <1>2, <1>4, <2>1, <2>2 DEF SettleJob
  <2>3. CASE facts[r].by = w
    <3> DEFINE status == IF facts[r].status = "new" THEN new ELSE leaving
    <3>1. facts'[r] = [facts[r] EXCEPT !.by = "none", !.status = status]
      BY <1>2, <1>4, <2>1, <2>3 DEF SettleJob, Fact
    <3>2. status \in {"active", "past"}
      OBVIOUS
    <3> HIDE DEF status
    <3>3. facts'[r] \in Fact /\ facts'[r].by = "none" /\ facts'[r].status = status
          /\ facts'[r].category = facts[r].category /\ facts'[r].key = facts[r].key
      BY <2>1, <3>1, <3>2 DEF Fact
    <3> QED BY <2>3, <3>3 DEF status
  <2> QED BY <2>2, <2>3
<1>5. Len(facts') = Len(facts) /\ facts' \in [1..Len(facts) -> Fact] /\ Rows' = Rows
  <2>1. DOMAIN facts' = 1..Len(facts) /\ facts' = [r \in 1..Len(facts) |-> facts'[r]]
    BY <1>2, <1>3 DEF SettleJob
  <2>2. facts' \in [1..Len(facts) -> Fact]
    BY <1>3, <1>4, <2>1
  <2> QED BY <1>3, <2>2 DEF Rows
<1> QED BY <1>4, <1>5

(* A transaction ends, one way or the other: of its rows, those it wrote   *)
(* stay and those it took away go, or the other way round                  *)
LEMMA EndStep ==
  ASSUME MemoryInv, NEW w \in Extractors, Commit(w) \/ Fail(w)
  PROVE  MemoryInv'
<1>1. MemoryTypeOK /\ FindingIsSound /\ OpenRowsAreOwned /\ TwiceByOneOnly
  BY DEF MemoryInv
<1>2. PICK new \in {"active", "past"}, leaving \in {"active", "past"} :
        new # leaving /\ SettleJob(w, new, leaving)
  <2>1. CASE Commit(w)
    BY <2>1 DEF Commit
  <2>2. CASE Fail(w)
    BY <2>2 DEF Fail
  <2> QED BY <2>1, <2>2
<1>3. Rows = 1..Len(facts) /\ Len(facts) \in Nat
  BY <1>1 DEF Rows, MemoryTypeOK
<1>4. ASSUME NEW r \in Rows
      PROVE  /\ facts'[r].category = facts[r].category /\ facts'[r].key = facts[r].key
             /\ facts[r].by # w => facts'[r] = facts[r]
             /\ facts[r].by = w => /\ facts'[r].by = "none"
                                   /\ facts'[r].status = IF facts[r].status = "new" THEN new
                                                         ELSE leaving
  BY <1>2, EndRows
<1>5. Len(facts') = Len(facts) /\ facts' \in [1..Len(facts) -> Fact] /\ Rows' = Rows
  BY <1>2, EndRows
<1>6. job' \in [Extractors -> Extraction] /\ FindingIsSound'
  <2>1. job' = [job EXCEPT ![w] = NoJob]
    BY DEF Commit, Fail
  <2>2. NoJob \in Extraction /\ NoJob.pc = "idle"
    BY DEF NoJob, Extraction
  <2>3. /\ job' \in [Extractors -> Extraction] /\ \A v \in Extractors \ {w} : job'[v] = job[v]
        /\ job'[w].pc = "idle"
    BY <1>1, <2>1, <2>2 DEF MemoryTypeOK
  <2> QED BY <1>1, <2>3 DEF FindingIsSound, Finding
<1>7. OpenRowsAreOwned'
  BY <1>1, <1>2, <1>4, <1>5, MemoryAssumption DEF OpenRowsAreOwned
<1>8. TwiceByOneOnly'
  <2> SUFFICES ASSUME NEW r \in Rows, NEW s \in Rows, r # s, FactOf(r)' = FactOf(s)',
                      facts'[r].status # "past", facts'[s].status # "past"
               PROVE  /\ facts'[r].by \in Extractors /\ facts'[s].by = facts'[r].by
                      /\ facts'[r].status # facts'[s].status
    BY <1>5 DEF TwiceByOneOnly
  <2>1. FactOf(r) = FactOf(s)
    BY <1>4 DEF FactOf
  <2>2. \A q \in Rows : facts[q].by = w => facts[q].status \in {"new", "leaving"}
    BY <1>1 DEF OpenRowsAreOwned
  <2>3. facts[r].status # "past" /\ facts[s].status # "past"
    BY <1>4, <2>2
  <2>4. /\ facts[r].by \in Extractors /\ facts[s].by = facts[r].by
        /\ facts[r].status # facts[s].status
    BY <1>1, <2>1, <2>3 DEF TwiceByOneOnly
  <2>5. facts[r].by # w
    BY <1>2, <1>4, <2>2, <2>4
  <2> QED BY <1>4, <2>4, <2>5
<1> QED BY <1>3, <1>5, <1>6, <1>7, <1>8 DEF MemoryInv, MemoryTypeOK

LEMMA MemoryStep ==
  ASSUME MemoryInv, [MemoryNext]_memoryVars
  PROVE  MemoryInv'
<1>1. CASE UNCHANGED memoryVars
  BY <1>1 DEF memoryVars, MemoryInv, MemoryTypeOK, FindingIsSound, OpenRowsAreOwned,
          TwiceByOneOnly, Rows, FactOf, Finding
<1>2. CASE MemoryNext
  BY <1>2, JobStep, SupersedeStep, InsertStep, EndStep DEF MemoryNext
<1> QED BY <1>1, <1>2

LEMMA MemoryIsUnique == MemoryInv => OneFactOnce
  BY DEF MemoryInv, OneFactOnce, Active, OpenRowsAreOwned, TwiceByOneOnly

------------------------------------------------------------------------------
(* What stays of a category that has one value.  Of the values that are    *)
(* active together, each is of another extractor: a transaction takes away *)
(* every value that it sees, and those it does not see were committed by   *)
(* others while it was open.  And one value stays, because a transaction   *)
(* takes values away before it looks for its own: it writes its own, or    *)
(* finds it there, taken by nobody yet.                                    *)
ValuesOf(c) == {r \in Active : facts[r].category = c}
NewOf(w, c) ==
  {r \in Rows : facts[r].status = "new" /\ facts[r].by = w /\ facts[r].category = c}

Writes(w, c) ==
  \/ job[w].pc \in {"superseding", "inserting"} /\ Finding(w).category = c
  \/ NewOf(w, c) # {}

Takes(w, r) ==
  \/ facts[r].status = "leaving" /\ facts[r].by = w
  \/ job[w].pc = "superseding" /\ r \in job[w].seen

SeesWhatItReplaces(w) ==
  LET c == Finding(w).category
  IN  /\ job[w].pc = "superseding" =>
           c \in Single /\ NewOf(w, c) \subseteq job[w].seen /\ job[w].seen \subseteq Of(Finding(w))
      /\ job[w].pc = "inserting" => c \in Categories /\ (c \in Single => NewOf(w, c) = {})

OneNewValue(w) == \A c \in Single : \A r, s \in NewOf(w, c) : r = s

OnlySingleLeave == \A r \in Rows : facts[r].status = "leaving" => facts[r].category \in Single

AuthorsDiffer(c) ==
  \E f \in [ValuesOf(c) -> Extractors] :
    /\ \A r, s \in ValuesOf(c) : f[r] = f[s] => r = s
    /\ \A w \in Extractors, r \in ValuesOf(c) : Writes(w, c) /\ ~Takes(w, r) => f[r] # w

Stays(c, r) ==
  facts[r].status = "active" \/ \E v \in Extractors : facts[r].by = v /\ Writes(v, c)
ValueStays(c) == ValuesOf(c) # {} => \E r \in ValuesOf(c) : Stays(c, r)

ValueInv ==
  /\ MemoryInv
  /\ \A w \in Extractors : SeesWhatItReplaces(w) /\ OneNewValue(w)
  /\ OnlySingleLeave
  /\ \A c \in Single : AuthorsDiffer(c) /\ ValueStays(c)

LEMMA ValueStart == MemoryInit => ValueInv
<1> SUFFICES ASSUME MemoryInit PROVE ValueInv
  OBVIOUS
<1>1. Rows = {} /\ Active = {} /\ \A w \in Extractors : job[w].pc = "idle"
  BY DEF MemoryInit, Rows, Active, NoJob
<1>2. \A w \in Extractors : SeesWhatItReplaces(w) /\ OneNewValue(w)
  BY <1>1 DEF SeesWhatItReplaces, OneNewValue, NewOf
<1>3. ASSUME NEW c \in Single
      PROVE  AuthorsDiffer(c) /\ ValueStays(c)
  <2>1. ValuesOf(c) = {}
    BY <1>1 DEF ValuesOf
  <2>2. [r \in {} |-> 0] \in [{} -> Extractors]
    OBVIOUS
  <2>3. AuthorsDiffer(c)
    BY <2>1, <2>2 DEF AuthorsDiffer
  <2> QED BY <2>1, <2>3 DEF ValueStays
<1> QED BY <1>1, <1>2, <1>3, MemoryStart DEF ValueInv, OnlySingleLeave

(* What a step of one extractor leaves of the others': their jobs and the  *)
(* rows they have changed                                                  *)
LEMMA OthersAreLeft ==
  ASSUME MemoryInv, NEW w \in Extractors,
         Extract(w) \/ NextFinding(w) \/ Supersede(w) \/ Insert(w) \/ Commit(w) \/ Fail(w)
  PROVE  /\ \A v \in Extractors \ {w} : job'[v] = job[v]
         /\ Rows \subseteq Rows'
         /\ \A r \in Rows : facts'[r].category = facts[r].category
         /\ \A r \in Rows' : facts'[r].by \in Extractors \ {w} => r \in Rows /\ facts'[r] = facts[r]
         /\ \A r \in Rows : facts[r].by \in Extractors \ {w} => facts'[r] = facts[r]
<1>1. \A v \in Extractors \ {w} : job'[v] = job[v]
  BY DEF MemoryInv, MemoryTypeOK, Extract, NextFinding, Supersede, Insert, Commit, Fail
<1>2. MemoryTypeOK /\ OpenRowsAreOwned /\ "none" \notin Extractors
  BY MemoryAssumption DEF MemoryInv
<1>3. CASE Extract(w) \/ NextFinding(w)
  BY <1>1, <1>3 DEF Extract, NextFinding, Rows
<1>4. CASE Supersede(w)
  <2>1. ASSUME NEW r \in Rows
        PROVE  /\ facts'[r].category = facts[r].category
               /\ facts'[r].by \in Extractors \ {w} => facts'[r] = facts[r]
               /\ facts[r].by \in Extractors \ {w} => facts'[r] = facts[r]
    <3>1. facts[r].status = "active" => facts[r].by \notin Extractors
      BY <1>2 DEF OpenRowsAreOwned
    <3> QED BY <1>2, <1>4, <3>1, SupersedeRows
  <2> QED BY <1>1, <1>4, <2>1, SupersedeRows
<1>5. CASE Insert(w)
  <2>1. CASE Conflict(w)
    BY <1>1, <1>5, <2>1 DEF Insert, Rows
  <2>2. CASE ~Conflict(w)
    BY <1>1, <1>5, <2>2, InsertRows
  <2> QED BY <2>1, <2>2
<1>6. CASE Commit(w) \/ Fail(w)
  <2>1. PICK new \in {"active", "past"}, leaving \in {"active", "past"} : SettleJob(w, new, leaving)
    BY <1>6 DEF Commit, Fail
  <2>2. /\ Rows' = Rows
        /\ \A r \in Rows : /\ facts'[r].category = facts[r].category
                           /\ facts[r].by # w => facts'[r] = facts[r]
                           /\ facts[r].by = w => facts'[r].by = "none"
    BY <2>1, EndRows
  <2> QED BY <1>1, <1>2, <2>2
<1> QED BY <1>3, <1>4, <1>5, <1>6

LEMMA OthersWriteAlike ==
  ASSUME MemoryInv, NEW w \in Extractors, NEW v \in Extractors \ {w},
         Extract(w) \/ NextFinding(w) \/ Supersede(w) \/ Insert(w) \/ Commit(w) \/ Fail(w)
  PROVE  /\ \A c : NewOf(v, c)' = NewOf(v, c) /\ (Writes(v, c)' <=> Writes(v, c))
         /\ \A r \in Rows : Takes(v, r)' <=> Takes(v, r)
<1>1. /\ job'[v] = job[v] /\ Rows \subseteq Rows'
      /\ \A r \in Rows' : facts'[r].by = v => r \in Rows /\ facts'[r] = facts[r]
      /\ \A r \in Rows : facts[r].by = v => facts'[r] = facts[r]
  BY OthersAreLeft
<1>2. ASSUME NEW c
      PROVE  NewOf(v, c)' = NewOf(v, c) /\ (Writes(v, c)' <=> Writes(v, c))
  <2>1. NewOf(v, c)' = NewOf(v, c)
    BY <1>1 DEF NewOf
  <2> QED BY <1>1, <2>1 DEF Writes, Finding
<1>3. ASSUME NEW r \in Rows
      PROVE  Takes(v, r)' <=> Takes(v, r)
  BY <1>1 DEF Takes
<1> QED BY <1>2, <1>3

LEMMA OthersFit ==
  ASSUME ValueInv, NEW w \in Extractors, NEW v \in Extractors \ {w},
         Extract(w) \/ NextFinding(w) \/ Supersede(w) \/ Insert(w) \/ Commit(w) \/ Fail(w)
  PROVE  SeesWhatItReplaces(v)' /\ OneNewValue(v)'
<1>1. MemoryInv /\ SeesWhatItReplaces(v) /\ OneNewValue(v)
  BY DEF ValueInv
<1>2. /\ job'[v] = job[v] /\ Rows \subseteq Rows'
      /\ \A r \in Rows : facts'[r].category = facts[r].category
  BY <1>1, OthersAreLeft
<1>3. \A c : NewOf(v, c)' = NewOf(v, c)
  BY <1>1, OthersWriteAlike
<1>4. Of(Finding(v)) \subseteq Of(Finding(v))'
  BY <1>2 DEF Of, Finding
<1>5. SeesWhatItReplaces(v)'
  BY <1>1, <1>2, <1>3, <1>4 DEF SeesWhatItReplaces, Finding
<1> QED BY <1>1, <1>3, <1>5 DEF OneNewValue

(* Values that are fewer and still taken by whoever took them have authors *)
LEMMA AuthorsStay ==
  ASSUME ValueInv, NEW w \in Extractors, NEW c \in Single,
         Extract(w) \/ NextFinding(w) \/ Supersede(w) \/ Insert(w) \/ Commit(w) \/ Fail(w),
         ValuesOf(c)' \subseteq ValuesOf(c),
         \A r \in ValuesOf(c)' : Writes(w, c)' /\ ~Takes(w, r)' => Writes(w, c) /\ ~Takes(w, r)
  PROVE  AuthorsDiffer(c)'
<1>1. MemoryInv
  BY DEF ValueInv
<1>2. PICK f \in [ValuesOf(c) -> Extractors] :
        /\ \A r, s \in ValuesOf(c) : f[r] = f[s] => r = s
        /\ \A v \in Extractors, r \in ValuesOf(c) : Writes(v, c) /\ ~Takes(v, r) => f[r] # v
  BY DEF ValueInv, AuthorsDiffer
<1> DEFINE g == [r \in ValuesOf(c)' |-> f[r]]
<1>3. /\ g \in [ValuesOf(c)' -> Extractors]
      /\ \A r, s \in ValuesOf(c)' : g[r] = g[s] => r = s
  BY <1>2
<1>4. ASSUME NEW v \in Extractors, NEW r \in ValuesOf(c)', Writes(v, c)', ~Takes(v, r)'
      PROVE  g[r] # v
  <2>1. r \in Rows /\ r \in ValuesOf(c)
    BY DEF ValuesOf, Active
  <2>2. Writes(v, c) /\ ~Takes(v, r)
    <3>1. CASE v = w
      BY <1>4, <3>1
    <3>2. CASE v # w
      BY <1>1, <1>4, <2>1, <3>2, OthersWriteAlike
    <3> QED BY <3>1, <3>2
  <2> QED BY <1>2, <2>1, <2>2
<1> HIDE DEF g
<1> QED BY <1>3, <1>4 DEF AuthorsDiffer

(* A value that stays because of another extractor still does *)
LEMMA OthersStay ==
  ASSUME MemoryInv, NEW w \in Extractors, NEW c, NEW r \in Rows,
         Extract(w) \/ NextFinding(w) \/ Supersede(w) \/ Insert(w) \/ Commit(w) \/ Fail(w),
         facts[r].status = "leaving", facts[r].by # w, Stays(c, r)
  PROVE  Stays(c, r)' /\ facts'[r] = facts[r]
<1>1. PICK v \in Extractors : facts[r].by = v /\ Writes(v, c)
  BY DEF Stays
<1>2. facts'[r] = facts[r]
  BY <1>1, OthersAreLeft
<1>3. Writes(v, c)'
  BY <1>1, OthersWriteAlike
<1> QED BY <1>1, <1>2, <1>3 DEF Stays

LEMMA NextFindingFits ==
  ASSUME ValueInv, NEW w \in Extractors, NextFinding(w)
  PROVE  /\ SeesWhatItReplaces(w)' /\ OneNewValue(w)' /\ OnlySingleLeave'
         /\ \A c \in Single : AuthorsDiffer(c)' /\ ValueStays(c)'
<1>1. /\ MemoryInv /\ MemoryTypeOK /\ OpenRowsAreOwned /\ SeesWhatItReplaces(w) /\ OneNewValue(w)
      /\ OnlySingleLeave
  BY DEF ValueInv, MemoryInv
<1>2. facts' = facts /\ Rows' = Rows /\ job[w].pc = "next"
  BY DEF NextFinding, Rows
<1> DEFINE c == job[w].batch[job[w].at + 1]
<1>3. /\ Finding(w)' = c
      /\ job'[w].pc = IF c.flaws # {} THEN "next"
                      ELSE IF c.category \in Single THEN "superseding" ELSE "inserting"
      /\ job'[w].seen = IF c.flaws = {} /\ c.category \in Single
                        THEN {r \in Of(c) : Visible(w, r)} ELSE {}
  <2>1. job \in [Extractors -> Extraction] /\ job[w] \in Extraction
    BY <1>1 DEF MemoryTypeOK
  <2>2. /\ job'[w].at = job[w].at + 1 /\ job'[w].batch = job[w].batch
        /\ job'[w].pc = IF c.flaws # {} THEN "next"
                        ELSE IF c.category \in Single THEN "superseding" ELSE "inserting"
        /\ job'[w].seen = IF c.flaws = {} /\ c.category \in Single
                          THEN {r \in Of(c) : Visible(w, r)} ELSE {}
    BY <2>1 DEF NextFinding, Extraction
  <2> QED BY <2>2 DEF Finding
<1>4. c.flaws = {} => c.category \in Categories
  <2>1. job[w].batch \in Batches \union {<<>>} /\ job[w].at + 1 \in 1..Len(job[w].batch)
    <3>1. /\ job[w].batch \in Batches \union {<<>>} /\ job[w].at \in Nat
          /\ job[w].at < Len(job[w].batch)
      BY <1>1 DEF NextFinding, MemoryTypeOK, Extraction
    <3>2. Len(job[w].batch) \in Nat
      BY <3>1, BatchIsSequence
    <3> QED BY <3>1, <3>2
  <2>2. job[w].batch \in Batches /\ job[w].at + 1 \in DOMAIN job[w].batch
    BY <2>1, BatchIsSequence
  <2> QED BY <2>2, MemoryAssumption
<1> HIDE DEF c
<1>5. \A d : NewOf(w, d)' = NewOf(w, d) /\ ValuesOf(d)' = ValuesOf(d)
  BY <1>2 DEF NewOf, ValuesOf, Active
<1>6. SeesWhatItReplaces(w)'
  <2>1. ASSUME job'[w].pc = "superseding"
        PROVE  /\ c.category \in Single /\ NewOf(w, c.category) \subseteq job'[w].seen
               /\ job'[w].seen \subseteq Of(c)
    BY <1>3, <2>1 DEF NewOf, Of, Visible
  <2>2. ASSUME job'[w].pc = "inserting"
        PROVE  c.category \in Categories /\ c.category \notin Single
    BY <1>3, <1>4, <2>2
  <2>3. Of(Finding(w))' = Of(c)
    BY <1>2, <1>3 DEF Of
  <2> QED BY <1>3, <1>5, <2>1, <2>2, <2>3 DEF SeesWhatItReplaces
<1>7. OneNewValue(w)' /\ OnlySingleLeave'
  BY <1>1, <1>2, <1>5 DEF OneNewValue, OnlySingleLeave
<1>8. ASSUME NEW d \in Single
      PROVE  AuthorsDiffer(d)'
  <2>1. ASSUME NEW r \in ValuesOf(d), Writes(w, d)', ~Takes(w, r)'
        PROVE  Writes(w, d) /\ ~Takes(w, r)
    <3>1. r \in Rows /\ facts[r].category = d /\ facts[r].status \in {"active", "leaving"}
      BY DEF ValuesOf, Active
    <3>2. CASE NewOf(w, d) # {}
      <4>1. ~Takes(w, r)
        BY <1>2, <2>1 DEF Takes
      <4> QED BY <3>2, <4>1 DEF Writes
    <3>3. CASE NewOf(w, d) = {}
      <4>1. job'[w].pc = "superseding" /\ c.category = d
        <5>1. job'[w].pc \in {"superseding", "inserting"} /\ Finding(w)'.category = d
          BY <1>5, <2>1, <3>3 DEF Writes
        <5> QED BY <1>3, <5>1
      <4>2. c.flaws = {} /\ c.category \in Single
        BY <1>3, <4>1
      <4>3. facts[r].by = w => facts[r].status = "leaving"
        BY <1>1, <3>1 DEF OpenRowsAreOwned
      <4>4. facts[r].by # w => r \in job'[w].seen
        BY <1>3, <3>1, <4>1, <4>2 DEF Of, Visible
      <4>5. Takes(w, r)'
        BY <1>2, <4>1, <4>3, <4>4 DEF Takes
      <4> QED BY <2>1, <4>5
    <3> QED BY <3>2, <3>3
  <2> QED BY <1>5, <2>1, AuthorsStay
<1>9. ASSUME NEW d \in Single
      PROVE  ValueStays(d)'
  <2>1. ASSUME NEW r \in ValuesOf(d), Stays(d, r)
        PROVE  Stays(d, r)'
    <3>1. CASE facts[r].status = "active"
      BY <1>2, <3>1 DEF Stays
    <3>2. CASE facts[r].status # "active"
      <4>1. facts[r].by \in Extractors /\ Writes(facts[r].by, d)
        BY <1>1, <2>1, <3>2 DEF Stays, ValuesOf, Active, OpenRowsAreOwned
      <4>2. CASE facts[r].by # w
        BY <1>1, <1>2, <4>1, <4>2, OthersWriteAlike DEF Stays
      <4>3. CASE facts[r].by = w
        <5>1. NewOf(w, d)' # {}
          BY <1>2, <1>5, <4>1, <4>3 DEF Writes
        <5> QED BY <1>2, <4>3, <5>1 DEF Stays, Writes
      <4> QED BY <4>2, <4>3
    <3> QED BY <3>1, <3>2
  <2> QED BY <1>5, <2>1 DEF ValueInv, ValueStays
<1> QED BY <1>6, <1>7, <1>8, <1>9

LEMMA ExtractFits ==
  ASSUME ValueInv, NEW w \in Extractors, Extract(w)
  PROVE  /\ SeesWhatItReplaces(w)' /\ OneNewValue(w)' /\ OnlySingleLeave'
         /\ \A c \in Single : AuthorsDiffer(c)' /\ ValueStays(c)'
<1>1. MemoryInv /\ MemoryTypeOK /\ OpenRowsAreOwned /\ OneNewValue(w) /\ OnlySingleLeave
  BY DEF ValueInv, MemoryInv
<1>2. facts' = facts /\ Rows' = Rows /\ job[w].pc = "idle" /\ job'[w].pc = "next"
  BY <1>1 DEF Extract, Rows, MemoryTypeOK, NoJob
<1>3. \A c : NewOf(w, c)' = NewOf(w, c) /\ ValuesOf(c)' = ValuesOf(c)
  BY <1>2 DEF NewOf, ValuesOf, Active
<1>4. SeesWhatItReplaces(w)' /\ OneNewValue(w)' /\ OnlySingleLeave'
  BY <1>1, <1>2, <1>3 DEF SeesWhatItReplaces, OneNewValue, OnlySingleLeave
<1>5. ASSUME NEW c \in Single
      PROVE  AuthorsDiffer(c)' /\ ValueStays(c)'
  <2>1. (Writes(w, c)' <=> Writes(w, c)) /\ \A r : Takes(w, r)' <=> Takes(w, r)
    BY <1>2, <1>3 DEF Writes, Takes
  <2>2. AuthorsDiffer(c)'
    BY <1>3, <2>1, AuthorsStay
  <2>3. ASSUME NEW r \in ValuesOf(c), Stays(c, r)
        PROVE  Stays(c, r)'
    <3>1. CASE facts[r].status = "active" \/ facts[r].by = w
      BY <1>2, <2>1, <2>3, <3>1 DEF Stays
    <3>2. CASE ~(facts[r].status = "active" \/ facts[r].by = w)
      BY <1>1, <2>3, <3>2, OthersStay DEF ValuesOf, Active
    <3> QED BY <3>1, <3>2
  <2> QED BY <1>3, <2>2, <2>3 DEF ValueInv, ValueStays
<1> QED BY <1>4, <1>5

LEMMA SupersedeFits ==
  ASSUME ValueInv, NEW w \in Extractors, Supersede(w)
  PROVE  /\ SeesWhatItReplaces(w)' /\ OneNewValue(w)' /\ OnlySingleLeave'
         /\ \A c \in Single : ValuesOf(c)' = ValuesOf(c) /\ AuthorsDiffer(c)' /\ ValueStays(c)'
<1>1. /\ MemoryInv /\ MemoryTypeOK /\ OpenRowsAreOwned /\ SeesWhatItReplaces(w) /\ OneNewValue(w)
      /\ OnlySingleLeave /\ "none" \notin Extractors
  BY MemoryAssumption DEF ValueInv, MemoryInv
<1>2. /\ Rows' = Rows
      /\ \A r \in Rows :
           /\ facts'[r].category = facts[r].category
           /\ \/ /\ r \in job[w].seen /\ facts[r].status = "active"
                 /\ facts'[r].status = "leaving" /\ facts'[r].by = w
              \/ /\ r \in job[w].seen /\ facts[r].status = "new" /\ facts[r].by = w
                 /\ facts'[r].status = "past" /\ facts'[r].by = "none"
              \/ /\ ~(r \in job[w].seen /\ facts[r].status \in {"active", "new"})
                 /\ facts'[r] = facts[r]
  BY <1>1, SupersedeRows
<1>0. PICK k : k = Finding(w).category
  OBVIOUS
<1>3. /\ job[w].pc = "superseding" /\ job'[w].pc = "inserting" /\ Finding(w)' = Finding(w)
      /\ k \in Single /\ NewOf(w, k) \subseteq job[w].seen
      /\ \A r \in job[w].seen : r \in Rows /\ facts[r].category = k /\ facts[r].by \in {w, "none"}
  BY <1>0, <1>1 DEF Supersede, SeesWhatItReplaces, Of, Foreign, Finding, MemoryTypeOK, Extraction
<1>4. \A c : ValuesOf(c)' = ValuesOf(c)
  BY <1>2 DEF ValuesOf, Active
<1>5. \A c : NewOf(w, c)' \subseteq NewOf(w, c) /\ (c # k => NewOf(w, c)' = NewOf(w, c))
  <2>1. ASSUME NEW r \in Rows, facts'[r].status = "new"
        PROVE  facts'[r] = facts[r]
    BY <1>2, <2>1
  <2>2. ASSUME NEW r \in Rows, facts[r].category # k
        PROVE  facts'[r] = facts[r]
    BY <1>2, <1>3, <2>2
  <2> QED BY <1>2, <2>1, <2>2 DEF NewOf
<1>6. NewOf(w, k)' = {}
  <2> SUFFICES ASSUME NEW r \in NewOf(w, k)' PROVE FALSE
    OBVIOUS
  <2>1. r \in NewOf(w, k) /\ r \in Rows /\ facts'[r].status = "new" /\ facts[r].status = "new"
    BY <1>5 DEF NewOf
  <2> QED BY <1>2, <1>3, <2>1
<1>7. SeesWhatItReplaces(w)' /\ OneNewValue(w)' /\ OnlySingleLeave'
  <2>1. SeesWhatItReplaces(w)'
    BY <1>0, <1>3, <1>6 DEF SeesWhatItReplaces, Categories
  <2>2. OneNewValue(w)'
    BY <1>1, <1>5 DEF OneNewValue
  <2>3. OnlySingleLeave'
    BY <1>1, <1>2, <1>3 DEF OnlySingleLeave
  <2> QED BY <2>1, <2>2, <2>3
<1>8. Writes(w, k) /\ Writes(w, k)' /\ \A c : c # k => (Writes(w, c)' <=> Writes(w, c))
  BY <1>0, <1>3, <1>5 DEF Writes
<1>9. ASSUME NEW c \in Single, NEW r \in ValuesOf(c), ~Takes(w, r)'
      PROVE  ~Takes(w, r)
  <2>1. r \in Rows /\ facts[r].status \in {"active", "leaving"}
    BY DEF ValuesOf, Active
  <2>2. ~(facts[r].status = "leaving" /\ facts[r].by = w)
    BY <1>2, <1>9, <2>1 DEF Takes
  <2>3. facts[r].status = "leaving" => facts[r].by \in Extractors
    BY <1>1, <2>1 DEF OpenRowsAreOwned
  <2>4. r \notin job[w].seen
    BY <1>1, <1>2, <1>3, <1>9, <2>1, <2>2, <2>3 DEF Takes
  <2> QED BY <2>2, <2>4 DEF Takes
<1>10. ASSUME NEW c \in Single
       PROVE  AuthorsDiffer(c)'
  BY <1>4, <1>8, <1>9, AuthorsStay
<1>11. ASSUME NEW c \in Single
       PROVE  ValueStays(c)'
  <2>1. ASSUME NEW r \in ValuesOf(c), Stays(c, r)
        PROVE  Stays(c, r)'
    <3>0. r \in Rows /\ facts[r].status \in {"active", "leaving"} /\ facts[r].category = c
      BY DEF ValuesOf, Active
    <3>1. CASE facts'[r] = facts[r] /\ facts[r].status = "active"
      BY <3>1 DEF Stays
    <3>2. CASE r \in job[w].seen /\ facts'[r].by = w
      BY <1>3, <1>8, <3>0, <3>2 DEF Stays
    <3>3. CASE facts'[r] = facts[r] /\ facts[r].status = "leaving" /\ facts[r].by = w
      <4>1. Writes(w, c)'
        BY <1>8, <2>1, <3>3 DEF Stays
      <4> QED BY <3>3, <4>1 DEF Stays
    <3>4. CASE facts[r].status = "leaving" /\ facts[r].by # w
      BY <1>1, <2>1, <3>0, <3>4, OthersStay
    <3> QED BY <1>2, <3>0, <3>1, <3>2, <3>3, <3>4
  <2> QED BY <1>4, <2>1 DEF ValueInv, ValueStays
<1> QED BY <1>4, <1>7, <1>10, <1>11

LEMMA InsertFits ==
  ASSUME ValueInv, NEW w \in Extractors, Insert(w)
  PROVE  /\ SeesWhatItReplaces(w)' /\ OneNewValue(w)' /\ OnlySingleLeave'
         /\ \A c \in Single : ValuesOf(c)' = ValuesOf(c) /\ AuthorsDiffer(c)' /\ ValueStays(c)'
<1>1. /\ MemoryInv /\ MemoryTypeOK /\ OpenRowsAreOwned /\ SeesWhatItReplaces(w) /\ OneNewValue(w)
      /\ OnlySingleLeave /\ "none" \notin Extractors
  BY MemoryAssumption DEF ValueInv, MemoryInv
<1>0. PICK k : k = Finding(w).category
  OBVIOUS
<1>2. job[w].pc = "inserting" /\ job'[w].pc = "next" /\ (k \in Single => NewOf(w, k) = {})
  BY <1>0, <1>1 DEF Insert, SeesWhatItReplaces, MemoryTypeOK, Extraction
<1>3. SeesWhatItReplaces(w)'
  BY <1>2 DEF SeesWhatItReplaces
<1>4. /\ Rows \subseteq Rows' /\ \A r \in Rows : facts'[r] = facts[r]
      /\ \A r \in Rows' \ Rows : facts'[r].status = "new" /\ facts'[r].by = w /\ facts'[r].category = k
      /\ \A r, s \in Rows' \ Rows : r = s
  <2>1. CASE Conflict(w)
    BY <2>1 DEF Insert, Rows
  <2>2. CASE ~Conflict(w)
    BY <1>0, <1>1, <2>2, InsertRows
  <2> QED BY <2>1, <2>2
<1>5. \A c : ValuesOf(c)' = ValuesOf(c)
  BY <1>4 DEF ValuesOf, Active
<1>6. \A c : NewOf(w, c) \subseteq NewOf(w, c)' /\ (c # k => NewOf(w, c)' = NewOf(w, c))
  BY <1>4 DEF NewOf
<1>7. OneNewValue(w)'
  <2> SUFFICES ASSUME NEW c \in Single, NEW r \in NewOf(w, c)', NEW s \in NewOf(w, c)'
               PROVE  r = s
    BY DEF OneNewValue
  <2>1. CASE c # k
    BY <1>1, <1>6, <2>1 DEF OneNewValue
  <2>2. CASE c = k
    <3>1. r \notin Rows /\ s \notin Rows
      BY <1>2, <1>4, <2>2 DEF NewOf
    <3> QED BY <1>4, <3>1 DEF NewOf
  <2> QED BY <2>1, <2>2
<1>8. OnlySingleLeave'
  BY <1>1, <1>4 DEF OnlySingleLeave
<1>9. ASSUME NEW c \in Single
      PROVE  AuthorsDiffer(c)'
  <2>1. ASSUME NEW r \in ValuesOf(c), Writes(w, c)', ~Takes(w, r)'
        PROVE  Writes(w, c) /\ ~Takes(w, r)
    <3>1. r \in Rows /\ facts'[r] = facts[r]
      BY <1>4 DEF ValuesOf, Active
    <3>2. ~Takes(w, r)
      BY <1>2, <2>1, <3>1 DEF Takes
    <3>3. NewOf(w, c)' # {}
      BY <1>2, <2>1 DEF Writes
    <3>4. c = k \/ NewOf(w, c) # {}
      BY <1>6, <3>3
    <3> QED BY <1>0, <1>2, <3>2, <3>4 DEF Writes
  <2> QED BY <1>5, <2>1, AuthorsStay
<1>10. ASSUME NEW c \in Single
       PROVE  ValueStays(c)'
  <2>1. ASSUME NEW r \in ValuesOf(c), Stays(c, r)
        PROVE  \E s \in ValuesOf(c) : Stays(c, s)'
    <3>0. r \in Rows /\ facts'[r] = facts[r] /\ facts[r].status \in {"active", "leaving"}
      BY <1>4 DEF ValuesOf, Active
    <3>1. CASE facts[r].status = "active"
      BY <3>0, <3>1 DEF Stays
    <3>2. CASE facts[r].status = "leaving" /\ facts[r].by # w
      BY <1>1, <2>1, <3>0, <3>2, OthersStay
    <3>3. CASE facts[r].status = "leaving" /\ facts[r].by = w /\ NewOf(w, c) # {}
      <4>1. Writes(w, c)'
        BY <1>6, <3>3 DEF Writes
      <4> QED BY <3>0, <3>3, <4>1 DEF Stays
    <3>4. CASE facts[r].status = "leaving" /\ facts[r].by = w /\ NewOf(w, c) = {}
      <4>1. c = k
        BY <1>0, <2>1, <3>4 DEF Stays, Writes
      <4>2. CASE Conflict(w)
        <5>1. PICK s \in Same(w) : facts[s].status = "active" \/ facts[s].status = "new"
          BY <4>2 DEF Conflict
        <5>2. s \in Rows /\ facts[s].category = c /\ facts[s].by \in {w, "none"}
          BY <1>0, <4>1, <5>1 DEF Same, Of, Insert, Foreign
        <5>3. facts[s].status # "new"
          <6>1. facts[s].status = "new" => facts[s].by = w
            BY <1>1, <5>2 DEF OpenRowsAreOwned
          <6> QED BY <3>4, <5>2, <6>1 DEF NewOf
        <5>4. s \in ValuesOf(c) /\ facts'[s].status = "active"
          BY <1>4, <5>1, <5>2, <5>3 DEF ValuesOf, Active
        <5> QED BY <5>4 DEF Stays
      <4>3. CASE ~Conflict(w)
        <5>1. Len(facts) + 1 \in NewOf(w, c)'
          BY <1>0, <1>1, <4>1, <4>3, InsertRows DEF NewOf
        <5>2. Writes(w, c)'
          BY <5>1 DEF Writes
        <5> QED BY <3>0, <3>4, <5>2 DEF Stays
      <4> QED BY <4>2, <4>3
    <3> QED BY <3>0, <3>1, <3>2, <3>3, <3>4
  <2> QED BY <1>5, <2>1 DEF ValueInv, ValueStays
<1> QED BY <1>3, <1>5, <1>7, <1>8, <1>9, <1>10

LEMMA CommitFits ==
  ASSUME ValueInv, NEW w \in Extractors, Commit(w)
  PROVE  /\ SeesWhatItReplaces(w)' /\ OneNewValue(w)' /\ OnlySingleLeave'
         /\ \A c \in Single : AuthorsDiffer(c)' /\ ValueStays(c)'
                              /\ (ValuesOf(c) # {} => ValuesOf(c)' # {})
         /\ \A r \in Active : r \notin Active' => facts[r].category \in Single
<1>1. /\ MemoryInv /\ MemoryTypeOK /\ OpenRowsAreOwned /\ OneNewValue(w)
      /\ OnlySingleLeave /\ "none" \notin Extractors
  BY MemoryAssumption DEF ValueInv, MemoryInv
<1>2. job[w].pc = "next" /\ job'[w].pc = "idle"
  BY <1>1 DEF Commit, MemoryTypeOK, NoJob
<1>3. /\ Rows' = Rows
      /\ \A r \in Rows :
           /\ facts'[r].category = facts[r].category
           /\ facts[r].by # w => facts'[r] = facts[r]
           /\ facts[r].by = w =>
                /\ facts'[r].by = "none"
                /\ facts'[r].status = IF facts[r].status = "new" THEN "active" ELSE "past"
  <2>1. SettleJob(w, "active", "past")
    BY DEF Commit
  <2> QED BY <1>1, <2>1, EndRows
<1>4. \A r \in Rows : facts[r].by = w => facts[r].status \in {"new", "leaving"}
  BY <1>1 DEF OpenRowsAreOwned
<1>5. \A c : NewOf(w, c)' = {} /\ ~Writes(w, c)'
  <2>1. \A r \in Rows : facts'[r].by # w
    BY <1>1, <1>3
  <2> QED BY <1>2, <1>3, <2>1 DEF NewOf, Writes
<1>6. SeesWhatItReplaces(w)' /\ OneNewValue(w)' /\ OnlySingleLeave'
  <2>1. OnlySingleLeave'
    BY <1>1, <1>3 DEF OnlySingleLeave
  <2> QED BY <1>2, <1>5, <2>1 DEF SeesWhatItReplaces, OneNewValue
<1>7. ASSUME NEW c, NEW r \in ValuesOf(c)', r \notin NewOf(w, c)
      PROVE  r \in ValuesOf(c) /\ ~Takes(w, r) /\ facts'[r] = facts[r]
  <2>1. r \in Rows /\ facts'[r].category = c /\ facts'[r].status \in {"active", "leaving"}
    BY <1>3 DEF ValuesOf, Active
  <2>2. facts[r].by # w
    BY <1>3, <1>4, <1>7, <2>1 DEF NewOf
  <2> QED BY <1>2, <1>3, <2>1, <2>2 DEF ValuesOf, Active, Takes
<1>8. ASSUME NEW c, NEW r \in NewOf(w, c)
      PROVE  r \in ValuesOf(c)' /\ facts'[r].status = "active"
  BY <1>3 DEF NewOf, ValuesOf, Active
<1>9. ASSUME NEW c \in Single
      PROVE  AuthorsDiffer(c)'
  <2>1. PICK f \in [ValuesOf(c) -> Extractors] :
          /\ \A r, s \in ValuesOf(c) : f[r] = f[s] => r = s
          /\ \A v \in Extractors, r \in ValuesOf(c) : Writes(v, c) /\ ~Takes(v, r) => f[r] # v
    BY DEF ValueInv, AuthorsDiffer
  <2>2. PICK mine : mine = NewOf(w, c)
    OBVIOUS
  <2> DEFINE g == [r \in ValuesOf(c)' |-> IF r \in mine THEN w ELSE f[r]]
  <2>3. \A r \in ValuesOf(c)' : r \notin mine => r \in ValuesOf(c) /\ ~Takes(w, r)
    BY <1>7, <2>2
  <2>4. g \in [ValuesOf(c)' -> Extractors]
    BY <2>1, <2>3
  <2>5. \A r, s \in mine : r = s
    BY <1>1, <2>2 DEF OneNewValue
  <2>6. mine # {} => Writes(w, c)
    BY <2>2 DEF Writes
  <2>7. ASSUME NEW r \in ValuesOf(c)', NEW s \in ValuesOf(c)', g[r] = g[s]
        PROVE  r = s
    BY <2>1, <2>3, <2>5, <2>6, <2>7
  <2>8. ASSUME NEW v \in Extractors, NEW r \in ValuesOf(c)', Writes(v, c)', ~Takes(v, r)'
        PROVE  g[r] # v
    <3>1. v # w /\ Writes(v, c)
      BY <1>1, <1>5, <2>8, OthersWriteAlike
    <3>2. CASE r \in mine
      BY <3>1, <3>2
    <3>3. CASE r \notin mine
      <4>1. r \in ValuesOf(c) /\ r \in Rows
        BY <2>3, <3>3 DEF ValuesOf, Active
      <4>2. ~Takes(v, r)
        BY <1>1, <2>8, <3>1, <4>1, OthersWriteAlike
      <4> QED BY <2>1, <3>1, <3>3, <4>1, <4>2
    <3> QED BY <3>2, <3>3
  <2> HIDE DEF g
  <2> QED BY <2>4, <2>7, <2>8 DEF AuthorsDiffer
<1>10. ASSUME NEW c \in Single
       PROVE  /\ ValueStays(c)'
              /\ ValuesOf(c) # {} => ValuesOf(c)' # {}
  <2>1. CASE NewOf(w, c) # {}
    BY <1>8, <2>1 DEF ValueStays, Stays
  <2>2. CASE NewOf(w, c) = {}
    <3>1. ASSUME NEW r \in ValuesOf(c), Stays(c, r)
          PROVE  r \in ValuesOf(c)' /\ Stays(c, r)'
      <4>1. r \in Rows /\ facts[r].category = c /\ facts[r].status \in {"active", "leaving"}
        BY DEF ValuesOf, Active
      <4>2. ~Writes(w, c)
        BY <1>2, <2>2 DEF Writes
      <4>3. facts[r].by # w
        BY <1>4, <3>1, <4>1, <4>2 DEF Stays
      <4>4. facts'[r] = facts[r] /\ r \in ValuesOf(c)'
        BY <1>3, <4>1, <4>3 DEF ValuesOf, Active
      <4>5. CASE facts[r].status = "active"
        BY <4>4, <4>5 DEF Stays
      <4>6. CASE facts[r].status = "leaving"
        BY <1>1, <3>1, <4>1, <4>3, <4>4, <4>6, OthersStay
      <4> QED BY <4>1, <4>4, <4>5, <4>6
    <3>2. ValuesOf(c)' \subseteq ValuesOf(c)
      BY <1>7, <2>2
    <3>3. ValueStays(c)
      BY DEF ValueInv
    <3> QED BY <3>1, <3>2, <3>3 DEF ValueStays
  <2> QED BY <2>1, <2>2
<1>11. ASSUME NEW r \in Active, r \notin Active'
       PROVE  facts[r].category \in Single
  <2>1. r \in Rows /\ facts[r].status \in {"active", "leaving"}
    BY DEF Active
  <2>2. facts[r].by = w
    BY <1>3, <1>11, <2>1 DEF Active
  <2> QED BY <1>1, <1>4, <2>1, <2>2 DEF OnlySingleLeave
<1> QED BY <1>6, <1>9, <1>10, <1>11

LEMMA FailFits ==
  ASSUME ValueInv, NEW w \in Extractors, Fail(w)
  PROVE  /\ SeesWhatItReplaces(w)' /\ OneNewValue(w)' /\ OnlySingleLeave'
         /\ \A c \in Single : AuthorsDiffer(c)' /\ ValueStays(c)'
         /\ Active' = Active
<1>1. /\ MemoryInv /\ MemoryTypeOK /\ OpenRowsAreOwned /\ OnlySingleLeave /\ "none" \notin Extractors
  BY MemoryAssumption DEF ValueInv, MemoryInv
<1>2. job'[w].pc = "idle"
  BY <1>1 DEF Fail, MemoryTypeOK, NoJob
<1>3. /\ Rows' = Rows
      /\ \A r \in Rows :
           /\ facts'[r].category = facts[r].category
           /\ facts[r].by # w => facts'[r] = facts[r]
           /\ facts[r].by = w =>
                /\ facts'[r].by = "none"
                /\ facts'[r].status = IF facts[r].status = "new" THEN "past" ELSE "active"
  <2>1. SettleJob(w, "past", "active")
    BY DEF Fail
  <2> QED BY <1>1, <2>1, EndRows
<1>4. \A r \in Rows : facts[r].by = w => facts[r].status \in {"new", "leaving"}
  BY <1>1 DEF OpenRowsAreOwned
<1>5. \A c : NewOf(w, c)' = {} /\ ~Writes(w, c)'
  <2>1. \A r \in Rows : facts'[r].by # w
    BY <1>1, <1>3
  <2> QED BY <1>2, <1>3, <2>1 DEF NewOf, Writes
<1>6. SeesWhatItReplaces(w)' /\ OneNewValue(w)' /\ OnlySingleLeave'
  <2>1. OnlySingleLeave'
    BY <1>1, <1>3 DEF OnlySingleLeave
  <2> QED BY <1>2, <1>5, <2>1 DEF SeesWhatItReplaces, OneNewValue
<1>7. Active' = Active /\ \A c : ValuesOf(c)' = ValuesOf(c)
  BY <1>3, <1>4 DEF ValuesOf, Active
<1>8. ASSUME NEW c \in Single
      PROVE  AuthorsDiffer(c)'
  BY <1>5, <1>7, AuthorsStay
<1>9. ASSUME NEW c \in Single
      PROVE  ValueStays(c)'
  <2>1. ASSUME NEW r \in ValuesOf(c), Stays(c, r)
        PROVE  Stays(c, r)'
    <3>1. r \in Rows /\ facts[r].status \in {"active", "leaving"}
      BY DEF ValuesOf, Active
    <3>2. CASE facts[r].status = "active" \/ facts[r].by = w
      BY <1>3, <1>4, <3>1, <3>2 DEF Stays
    <3>3. CASE facts[r].status = "leaving" /\ facts[r].by # w
      BY <1>1, <2>1, <3>1, <3>3, OthersStay
    <3> QED BY <3>1, <3>2, <3>3
  <2> QED BY <1>7, <2>1 DEF ValueInv, ValueStays
<1> QED BY <1>6, <1>7, <1>8, <1>9

(* The invariant is kept, and nothing is forgotten for nothing on the way *)
LEMMA ValueStep ==
  ASSUME ValueInv, [MemoryNext]_memoryVars
  PROVE  ValueInv' /\ NothingIsForgotten
<1>0. MemoryInv
  BY DEF ValueInv
<1>1. MemoryInv'
  BY <1>0, MemoryStep
<1>2. CASE UNCHANGED memoryVars
  <2>3. /\ facts' = facts /\ job' = job /\ Rows' = Rows /\ Active' = Active
    BY <1>2 DEF memoryVars, Rows, Active
  <2>4. /\ \A w, c : NewOf(w, c)' = NewOf(w, c) /\ (Writes(w, c)' <=> Writes(w, c))
        /\ \A w, r : Takes(w, r)' <=> Takes(w, r)
        /\ \A c : ValuesOf(c)' = ValuesOf(c)
    BY <2>3 DEF NewOf, Writes, Takes, ValuesOf, Finding
  <2>5. \A c, r : Stays(c, r)' <=> Stays(c, r)
    BY <2>3, <2>4 DEF Stays
  <2>6. ASSUME NEW w \in Extractors
        PROVE  SeesWhatItReplaces(w)' /\ OneNewValue(w)'
    <3>1. SeesWhatItReplaces(w) /\ OneNewValue(w)
      BY DEF ValueInv
    <3>2. SeesWhatItReplaces(w)'
      BY <2>3, <2>4, <3>1 DEF SeesWhatItReplaces, Finding, Of
    <3> QED BY <2>4, <3>1, <3>2 DEF OneNewValue
  <2>7. ASSUME NEW c \in Single
        PROVE  AuthorsDiffer(c)' /\ ValueStays(c)'
    <3>1. AuthorsDiffer(c) /\ ValueStays(c)
      BY DEF ValueInv
    <3>2. AuthorsDiffer(c)'
      BY <2>4, <3>1 DEF AuthorsDiffer
    <3> QED BY <2>4, <2>5, <3>1, <3>2 DEF ValueStays
  <2>1. ValueInv'
    BY <1>1, <2>3, <2>6, <2>7 DEF ValueInv, OnlySingleLeave
  <2>2. NothingIsForgotten
    BY <1>2 DEF memoryVars, NothingIsForgotten, Active, Rows
  <2> QED BY <2>1, <2>2
<1>3. ASSUME NEW w \in Extractors,
             Extract(w) \/ NextFinding(w) \/ Supersede(w) \/ Insert(w) \/ Commit(w) \/ Fail(w)
      PROVE  ValueInv' /\ NothingIsForgotten
  <2>1. \A v \in Extractors \ {w} : SeesWhatItReplaces(v)' /\ OneNewValue(v)'
    BY <1>3, OthersFit
  <2>2. /\ SeesWhatItReplaces(w)' /\ OneNewValue(w)' /\ OnlySingleLeave'
        /\ \A c \in Single : AuthorsDiffer(c)' /\ ValueStays(c)'
    BY <1>3, ExtractFits, NextFindingFits, SupersedeFits, InsertFits, CommitFits, FailFits
  <2>3. ValueInv'
    BY <1>1, <2>1, <2>2 DEF ValueInv
  <2>4. ASSUME Commit(w)
        PROVE  NothingIsForgotten
    <3>1. ASSUME NEW r \in Active, r \notin Active'
          PROVE  /\ facts[r].category \in Single
                 /\ \E s \in Active' : facts'[s].category = facts[r].category
      <4>1. facts[r].category \in Single
        BY <2>4, <3>1, CommitFits
      <4>2. PICK c \in Single : c = facts[r].category
        BY <4>1
      <4>3. ValuesOf(c) # {}
        BY <4>2 DEF ValuesOf
      <4>4. ValuesOf(c)' # {}
        BY <2>4, <4>3, CommitFits
      <4> QED BY <4>1, <4>2, <4>4 DEF ValuesOf
    <3> QED BY <3>1 DEF NothingIsForgotten
  <2>5. ASSUME ~Commit(w)
        PROVE  NothingIsForgotten
    <3>1. ASSUME NEW r \in Active
          PROVE  r \in Active'
      <4>0. r \in Rows /\ facts[r].status \in {"active", "leaving"}
        BY DEF Active
      <4>1. CASE Extract(w) \/ NextFinding(w)
        BY <4>0, <4>1 DEF Extract, NextFinding, Active, Rows
      <4>2. CASE Supersede(w)
        BY <4>0, <4>2, SupersedeRows DEF ValueInv, Active
      <4>3. CASE Insert(w) /\ Conflict(w)
        BY <4>0, <4>3 DEF Insert, Active, Rows
      <4>4. CASE Insert(w) /\ ~Conflict(w)
        BY <4>0, <4>4, InsertRows DEF ValueInv, Active
      <4>5. CASE Fail(w)
        BY <4>5, FailFits
      <4> QED BY <1>3, <2>5, <4>1, <4>2, <4>3, <4>4, <4>5
    <3> QED BY <3>1 DEF NothingIsForgotten
  <2> QED BY <2>3, <2>4, <2>5
<1> QED BY <1>2, <1>3 DEF MemoryNext

(* As many values as there are authors *)
LEMMA AuthorsAreFew == ValueInv => FewValues
<1> SUFFICES ASSUME ValueInv, NEW c \in Single
             PROVE  Cardinality({r \in Active : facts[r].category = c}) <= Cardinality(Extractors)
  BY DEF FewValues
<1>1. PICK f \in [ValuesOf(c) -> Extractors] : \A r, s \in ValuesOf(c) : f[r] = f[s] => r = s
  BY DEF ValueInv, AuthorsDiffer
<1>2. f \in Injection(ValuesOf(c), Extractors)
  BY <1>1 DEF Injection, IsInjective
<1>3. Cardinality(ValuesOf(c)) <= Cardinality(Extractors)
  BY <1>2, MemoryAssumption, FS_Injection
<1> QED BY <1>3 DEF ValuesOf

(* memory/policy.py, memory/store.py, memory/job.py: the same fact is not  *)
(* remembered twice, of a category with one value there are never more     *)
(* than there are extractors, and nothing is forgotten unless its category *)
(* has another value, for any extractors, categories, facts and findings.  *)
THEOREM MemoryHolds == MemorySpec => MemoryIsKept
<1>1. ValueInv /\ [MemoryNext]_memoryVars => ValueInv' /\ NothingIsForgotten
  BY ValueStep
<1>2. ValueInv => OneFactOnce /\ FewValues
  BY AuthorsAreFew, MemoryIsUnique DEF ValueInv
<1> QED BY ValueStart, <1>1, <1>2, PTL DEF MemorySpec, MemoryIsKept

------------------------------------------------------------------------------
(* What is read.  Each part computes row by row, cell by cell or group by  *)
(* group.  That such a computation is a function, what it has at one place *)
(* (an account of the curve so far, a row with its cells in their columns, *)
(* a number written in groups) and that the next place keeps it, gives     *)
(* what it has at the end, for a table, a sheet or an amount of any length.*)
(* The sums of the first rows *)
AddsUp(sum, seq, n) ==
  /\ sum \in [0..n -> Int] /\ sum[0] = 0
  /\ \A k \in 1..n : sum[k] = sum[k - 1] + Net(seq[k])

(* The sums are those of the rows before and the row *)
LEMMA SumsAddUp ==
  ASSUME NEW seq, NEW n \in Nat, Len(seq) = n, \A k \in 1..n : Net(seq[k]) \in Int
  PROVE  AddsUp(Sums(seq), seq, n)
<1> DEFINE sum[k \in 0..Len(seq)] == IF k = 0 THEN 0 ELSE sum[k - 1] + Net(seq[k])
           Body(f, k) == IF k = 0 THEN 0 ELSE f[k - 1] + Net(seq[k])
           Ints == Int
           step == [p \in (1..n) \X Ints |-> p[2] + Net(seq[p[1]])]
<1>1. Sums(seq) = sum
  BY DEF Sums
<1>2. sum = CHOOSE f : f = [k \in 0..n |-> Body(f, k)]
  OBVIOUS
<1> HIDE DEF sum
<1>3. PICK f : Follows(f, step, 0, n, Ints)
  <2>1. IsStep(step, n, Ints) /\ 0 \in Ints
    BY DEF IsStep
  <2> HIDE DEF step, Ints
  <2> QED BY <2>1, Recursion
<1>4. f = [k \in 0..n |-> Body(f, k)]
  <2>1. f \in [0..n -> Int] /\ f[0] = 0 /\ \A k \in 1..n : f[k] = step[<<k, f[k - 1]>>]
    <3> HIDE DEF step
    <3> QED BY <1>3 DEF Follows
  <2>2. \A k \in 1..n : k - 1 \in 0..n
    OBVIOUS
  <2>3. \A k \in 1..n : step[<<k, f[k - 1]>>] = f[k - 1] + Net(seq[k])
    BY <2>1, <2>2
  <2> HIDE DEF step
  <2>4. \A k \in 1..n : f[k] = f[k - 1] + Net(seq[k])
    BY <2>1, <2>3
  <2>5. \A k \in 0..n : k = 0 \/ k \in 1..n
    OBVIOUS
  <2>6. \A k \in 0..n : f[k] = Body(f, k)
    BY <2>1, <2>4, <2>5
  <2> HIDE DEF Body
  <2> QED BY <2>1, <2>6
<1>5. sum = [k \in 0..n |-> Body(sum, k)]
  <2> HIDE DEF Body
  <2> QED BY <1>2, <1>4
<1>6. sum[0] = 0 /\ \A k \in 1..n : sum[k] = sum[k - 1] + Net(seq[k])
  <2>1. \A k \in 0..n : sum[k] = Body(sum, k)
    <3> HIDE DEF Body
    <3> QED BY <1>5
  <2>2. 0 \in 0..n /\ \A k \in 1..n : k \in 0..n /\ k # 0
    OBVIOUS
  <2> QED BY <2>1, <2>2
<1>7. \A k \in 0..n : sum[k] \in Int
  <2>1. sum[0] \in Ints /\ \A k \in 1..n : sum[k - 1] \in Ints => sum[k] \in Ints
    BY <1>6
  <2>2. \A k \in 0..n : sum[k] \in Ints
    <3> HIDE DEF Ints
    <3> QED BY <2>1, StaysIn
  <2> QED BY <2>2
<1>8. sum \in [0..n -> Int]
  <2> HIDE DEF Body
  <2> QED BY <1>5, <1>7
<1> QED BY <1>1, <1>6, <1>8 DEF AddsUp

(* The rows that are chosen, place by place *)
Keeps(kept, rows, places, n, S) ==
  /\ kept \in [0..n -> Seq(S)] /\ kept[0] = <<>>
  /\ \A k \in 1..n : kept[k] = IF k \in places THEN Append(kept[k - 1], rows[k]) ELSE kept[k - 1]
  /\ Chosen(rows, places) = kept[n]

(* The recursion that chooses them is a function, and of rows only *)
LEMMA RowsAreKept ==
  ASSUME NEW rows, NEW n \in Nat, Len(rows) = n, NEW places, NEW S,
         \A k \in 1..n : k \in places => rows[k] \in S
  PROVE  \E kept : Keeps(kept, rows, places, n, S)
<1> DEFINE kept[k \in 0..Len(rows)] ==
             IF k = 0 THEN <<>>
             ELSE IF k \in places THEN Append(kept[k - 1], rows[k]) ELSE kept[k - 1]
           Body(f, k) ==
             IF k = 0 THEN <<>>
             ELSE IF k \in places THEN Append(f[k - 1], rows[k]) ELSE f[k - 1]
           Lists == Seq(S)
           step == [p \in (1..n) \X Lists |->
                      IF p[1] \in places THEN Append(p[2], rows[p[1]]) ELSE p[2]]
<1>1. Chosen(rows, places) = kept[n]
  BY DEF Chosen
<1>2. kept = CHOOSE f : f = [k \in 0..n |-> Body(f, k)]
  OBVIOUS
<1> HIDE DEF kept
<1>3. <<>> \in Lists /\ \A s \in Lists, k \in 1..n : k \in places => Append(s, rows[k]) \in Lists
  BY EmptySeq, AppendProperties
<1> HIDE DEF Lists
<1>4. PICK f : Follows(f, step, <<>>, n, Lists)
  <2>1. IsStep(step, n, Lists)
    BY <1>3 DEF IsStep
  <2> HIDE DEF step
  <2> QED BY <1>3, <2>1, Recursion
<1>5. f = [k \in 0..n |-> Body(f, k)]
  <2>1. f \in [0..n -> Lists] /\ f[0] = <<>> /\ \A k \in 1..n : f[k] = step[<<k, f[k - 1]>>]
    <3> HIDE DEF step
    <3> QED BY <1>4 DEF Follows
  <2>2. \A k \in 1..n : k - 1 \in 0..n
    OBVIOUS
  <2>3. \A k \in 1..n : step[<<k, f[k - 1]>>]
                          = IF k \in places THEN Append(f[k - 1], rows[k]) ELSE f[k - 1]
    BY <2>1, <2>2
  <2> HIDE DEF step
  <2>4. \A k \in 1..n : f[k] = IF k \in places THEN Append(f[k - 1], rows[k]) ELSE f[k - 1]
    BY <2>1, <2>3
  <2>5. \A k \in 0..n : k = 0 \/ k \in 1..n
    OBVIOUS
  <2>6. \A k \in 0..n : f[k] = Body(f, k)
    BY <2>1, <2>4, <2>5
  <2> HIDE DEF Body
  <2> QED BY <2>1, <2>6
<1>6. kept = [k \in 0..n |-> Body(kept, k)]
  <2> HIDE DEF Body
  <2> QED BY <1>2, <1>5
<1>7. /\ kept[0] = <<>>
      /\ \A k \in 1..n : kept[k] = IF k \in places THEN Append(kept[k - 1], rows[k]) ELSE kept[k - 1]
  <2>1. \A k \in 0..n : kept[k] = Body(kept, k)
    <3> HIDE DEF Body
    <3> QED BY <1>6
  <2>2. 0 \in 0..n /\ \A k \in 1..n : k \in 0..n /\ k # 0
    OBVIOUS
  <2> QED BY <2>1, <2>2
<1>8. \A k \in 0..n : kept[k] \in Lists
  <2>1. \A k \in 1..n : kept[k - 1] \in Lists => kept[k] \in Lists
    BY <1>3, <1>7
  <2>2. kept[0] \in Lists
    BY <1>3, <1>7
  <2> QED BY <2>1, <2>2, StaysIn
<1>9. kept \in [0..n -> Lists]
  <2> HIDE DEF Body
  <2> QED BY <1>6, <1>8
<1> QED BY <1>1, <1>7, <1>9 DEF Keeps, Lists

(* A row that is not chosen at the end changes nothing *)
LEMMA WhatIsNotChosen ==
  ASSUME NEW S, NEW rows \in Seq(S), NEW r \in S, NEW places, Len(rows) + 1 \notin places
  PROVE  Chosen(Append(rows, r), places) = Chosen(rows, places)
<1> DEFINE more == Append(rows, r)
<1>1. PICK n \in Nat : n = Len(rows) /\ DOMAIN rows = 1..n
  BY LenProperties
<1>2. /\ Len(more) = n + 1 /\ \A k \in 1..n : more[k] = rows[k]
      /\ \A k \in 1..(n + 1) : more[k] \in S
  BY <1>1, AppendProperties, ElementOfSeq, LenProperties
<1> HIDE DEF more
<1>3. PICK old : Keeps(old, rows, places, n, S)
  <2>1. \A k \in 1..n : rows[k] \in S
    BY <1>1, ElementOfSeq
  <2> QED BY <2>1, <1>1, RowsAreKept
<1>4. PICK new : Keeps(new, more, places, n + 1, S)
  <2>1. n + 1 \in Nat
    BY <1>1
  <2> QED BY <2>1, <1>2, RowsAreKept
<1>5. /\ old[0] = new[0]
      /\ \A k \in 1..n : old[k] = IF k \in places THEN Append(old[k - 1], rows[k]) ELSE old[k - 1]
      /\ \A k \in 1..(n + 1) : new[k] = IF k \in places THEN Append(new[k - 1], more[k]) ELSE new[k - 1]
      /\ Chosen(rows, places) = old[n] /\ Chosen(more, places) = new[n + 1]
  BY <1>3, <1>4 DEF Keeps
<1>6. \A k \in 1..n : old[k - 1] = new[k - 1] => old[k] = new[k]
  <2> SUFFICES ASSUME NEW k \in 1..n, old[k - 1] = new[k - 1] PROVE old[k] = new[k]
    OBVIOUS
  <2>1. k \in 1..(n + 1) /\ more[k] = rows[k]
    BY <1>2
  <2> QED BY <2>1, <1>5
<1>7. \A k \in 0..n : old[k] = new[k]
  <2>1. SameSteps(old, new, n)
    BY <1>5, <1>6 DEF SameSteps
  <2> QED BY <2>1, GoesTheSame
<1>8. new[n + 1] = new[n]
  <2>1. n + 1 \in 1..(n + 1) /\ (n + 1) - 1 = n /\ n + 1 \notin places
    BY <1>1
  <2> QED BY <2>1, <1>5
<1>9. n \in 0..n
  OBVIOUS
<1> QED BY <1>5, <1>7, <1>8, <1>9 DEF more

(* The total of no rows, and of one more *)
LEMMA TotalOfNone == Total(<<>>) = 0
<1>1. Len(<<>>) = 0
  OBVIOUS
<1>2. \A k \in 1..0 : FALSE
  OBVIOUS
<1>3. AddsUp(Sums(<<>>), <<>>, 0)
  BY <1>1, <1>2, SumsAddUp
<1> QED BY <1>1, <1>3 DEF Total, AddsUp

LEMMA TotalOfOneMore ==
  ASSUME NEW S, \A s \in S : Net(s) \in Int, NEW rows \in Seq(S), NEW r \in S
  PROVE  Total(rows) \in Int /\ Total(Append(rows, r)) = Total(rows) + Net(r)
<1> DEFINE more == Append(rows, r)
<1>1. PICK n \in Nat : n = Len(rows) /\ DOMAIN rows = 1..n
  BY LenProperties
<1>2. /\ Len(more) = n + 1 /\ \A k \in 1..n : more[k] = rows[k]
      /\ more[n + 1] = r
  BY <1>1, AppendProperties
<1>3. \A k \in 1..n : Net(rows[k]) \in Int
  BY <1>1, ElementOfSeq
<1>4. \A k \in 1..(n + 1) : Net(more[k]) \in Int
  <2>1. \A k \in 1..(n + 1) : k \in 1..n \/ k = n + 1
    OBVIOUS
  <2>2. Net(r) \in Int
    OBVIOUS
  <2> HIDE DEF more
  <2> QED BY <2>1, <2>2, <1>2, <1>3
<1> HIDE DEF more
<1>5. AddsUp(Sums(rows), rows, n)
  BY <1>1, <1>3, SumsAddUp
<1>6. AddsUp(Sums(more), more, n + 1)
  <2>1. n + 1 \in Nat
    OBVIOUS
  <2> QED BY <2>1, <1>2, <1>4, SumsAddUp
<1> DEFINE old == Sums(rows)
           new == Sums(more)
<1>7. /\ old[0] = new[0] /\ old[n] \in Int
      /\ \A k \in 1..n : old[k] = old[k - 1] + Net(rows[k])
      /\ \A k \in 1..(n + 1) : new[k] = new[k - 1] + Net(more[k])
  <2>1. n \in 0..n
    OBVIOUS
  <2> QED BY <2>1, <1>5, <1>6 DEF AddsUp
<1> HIDE DEF old, new
<1>8. \A k \in 1..n : old[k - 1] = new[k - 1] => old[k] = new[k]
  <2>1. \A k \in 1..n : k \in 1..(n + 1)
    OBVIOUS
  <2> QED BY <2>1, <1>2, <1>7
<1>9. \A k \in 0..n : old[k] = new[k]
  <2>1. SameSteps(old, new, n)
    BY <1>7, <1>8 DEF SameSteps
  <2> QED BY <2>1, GoesTheSame
<1>10. new[n + 1] = old[n] + Net(r)
  <2>1. n + 1 \in 1..(n + 1) /\ (n + 1) - 1 = n /\ n \in 0..n
    OBVIOUS
  <2> QED BY <2>1, <1>2, <1>7, <1>9
<1> QED BY <1>1, <1>2, <1>7, <1>10 DEF Total, old, new, more

(* The gains and the losses make the result *)
Gains(trades)  == {k \in DOMAIN trades : Net(trades[k]) > 0}
Losses(trades) == {k \in DOMAIN trades : Net(trades[k]) < 0}

(* Split by their sign, the rows have the total that they had together *)
LEMMA GainsAndLosses ==
  ASSUME NEW S, \A s \in S : Net(s) \in Int, NEW trades \in Seq(S)
  PROVE  /\ Total(Chosen(trades, Gains(trades))) \in Nat
         /\ -Total(Chosen(trades, Losses(trades))) \in Nat
         /\ Total(trades) = Total(Chosen(trades, Gains(trades))) + Total(Chosen(trades, Losses(trades)))
<1>1. PICK n \in Nat : n = Len(trades) /\ DOMAIN trades = 1..n
  BY LenProperties
<1>2. \A k \in 1..n : trades[k] \in S /\ Net(trades[k]) \in Int
  BY <1>1, ElementOfSeq
<1> DEFINE up == Gains(trades)
           down == Losses(trades)
           sum == Sums(trades)
<1>3. AddsUp(sum, trades, n)
  BY <1>1, <1>2, SumsAddUp
<1>4. PICK won : Keeps(won, trades, up, n, S)
  <2> HIDE DEF up
  <2> QED BY <1>1, <1>2, RowsAreKept
<1>5. PICK lost : Keeps(lost, trades, down, n, S)
  <2> HIDE DEF down
  <2> QED BY <1>1, <1>2, RowsAreKept
<1>6. \A k \in 1..n : (k \in up <=> Net(trades[k]) > 0) /\ (k \in down <=> Net(trades[k]) < 0)
  BY <1>1 DEF Gains, Losses
<1> HIDE DEF sum, up, down
<1> DEFINE P == {k \in 0..n : /\ Total(won[k]) \in Nat /\ -Total(lost[k]) \in Nat
                              /\ Total(lost[k]) \in Int
                              /\ sum[k] = Total(won[k]) + Total(lost[k])}
<1>7. 0 \in P
  <2>1. won[0] = <<>> /\ lost[0] = <<>> /\ sum[0] = 0
    BY <1>3, <1>4, <1>5 DEF Keeps, AddsUp
  <2>2. Total(won[0]) = 0 /\ Total(lost[0]) = 0
    BY <2>1, TotalOfNone
  <2> QED BY <2>1, <2>2
<1>8. ASSUME NEW k \in 1..n, k - 1 \in P PROVE k \in P
  <2>1. PICK w : w = won[k - 1]
    OBVIOUS
  <2>2. PICK l : l = lost[k - 1]
    OBVIOUS
  <2>3. PICK r : r = trades[k]
    OBVIOUS
  <2>4. k - 1 \in 0..n /\ k \in 0..n
    OBVIOUS
  <2>5. /\ w \in Seq(S) /\ l \in Seq(S) /\ r \in S /\ Net(r) \in Int
        /\ won[k] = (IF k \in up THEN Append(w, r) ELSE w)
        /\ lost[k] = (IF k \in down THEN Append(l, r) ELSE l)
        /\ sum[k] = sum[k - 1] + Net(r)
    BY <1>2, <1>3, <1>4, <1>5, <2>1, <2>2, <2>3, <2>4 DEF Keeps, AddsUp
  <2>6. /\ Total(w) \in Nat /\ -Total(l) \in Nat /\ Total(l) \in Int
        /\ sum[k - 1] = Total(w) + Total(l)
    BY <1>8, <2>1, <2>2
  <2>7. Total(Append(w, r)) = Total(w) + Net(r) /\ Total(Append(l, r)) = Total(l) + Net(r)
    BY <2>5, TotalOfOneMore
  <2>8. (k \in up <=> Net(r) > 0) /\ (k \in down <=> Net(r) < 0)
    BY <1>6, <2>3
  <2>9. CASE Net(r) > 0
    <3>1. Total(won[k]) = Total(w) + Net(r) /\ Total(lost[k]) = Total(l)
      BY <2>5, <2>7, <2>8, <2>9
    <3>2. /\ Total(won[k]) \in Nat /\ -Total(lost[k]) \in Nat /\ Total(lost[k]) \in Int
          /\ sum[k] = Total(won[k]) + Total(lost[k])
      <4> DEFINE x == Total(w)
                 y == Total(l)
                 z == Net(r)
      <4>1. /\ x \in Nat /\ -y \in Nat /\ y \in Int /\ z \in Int
            /\ sum[k] = x + y + z
        BY <2>5, <2>6
      <4>2. Total(won[k]) = x + z /\ Total(lost[k]) = y /\ z > 0
        BY <3>1, <2>9
      <4> HIDE DEF x, y, z
      <4> QED BY <4>1, <4>2
    <3> QED BY <3>2, <2>4
  <2>10. CASE Net(r) < 0
    <3>1. Total(won[k]) = Total(w) /\ Total(lost[k]) = Total(l) + Net(r)
      BY <2>5, <2>7, <2>8, <2>10
    <3>2. /\ Total(won[k]) \in Nat /\ -Total(lost[k]) \in Nat /\ Total(lost[k]) \in Int
          /\ sum[k] = Total(won[k]) + Total(lost[k])
      <4> DEFINE x == Total(w)
                 y == Total(l)
                 z == Net(r)
      <4>1. /\ x \in Nat /\ -y \in Nat /\ y \in Int /\ z \in Int
            /\ sum[k] = x + y + z
        BY <2>5, <2>6
      <4>2. Total(won[k]) = x /\ Total(lost[k]) = y + z /\ z < 0
        BY <3>1, <2>10
      <4> HIDE DEF x, y, z
      <4> QED BY <4>1, <4>2
    <3> QED BY <3>2, <2>4
  <2>11. CASE Net(r) = 0
    <3>1. Total(won[k]) = Total(w) /\ Total(lost[k]) = Total(l)
      BY <2>5, <2>8, <2>11
    <3> QED BY <3>1, <2>4, <2>5, <2>6, <2>11
  <2> QED BY <2>5, <2>9, <2>10, <2>11
<1>9. P = 0..n
  <2>1. P \in SUBSET (0..n)
    OBVIOUS
  <2> HIDE DEF P
  <2> QED BY <1>7, <1>8, <2>1, PlaceInduction
<1>10. n \in P
  BY <1>9
<1>11. Chosen(trades, up) = won[n] /\ Chosen(trades, down) = lost[n] /\ Total(trades) = sum[n]
  BY <1>1, <1>4, <1>5 DEF Keeps, Total, sum
<1> QED BY <1>10, <1>11 DEF up, down

(* The curve of an account *)
Account == [equity : Int, peak : Int, worst : Int, share : Int \X Int]
Opened(first) == [equity |-> first, peak |-> first, worst |-> 0, share |-> <<0, 1>>]

(* A row leaves an account as it should be typed *)
LEMMA FallIsAnAccount ==
  ASSUME NEW a \in Account, NEW row, Net(row) \in Int
  PROVE  Fall(a, row) \in Account
<1>1. PICK x : x = a.equity + Net(row)
  OBVIOUS
<1>2. PICK p : p = Larger(a.peak, x)
  OBVIOUS
<1>3. x \in Int /\ a.peak \in Int /\ a.worst \in Int /\ a.share \in Int \X Int
  BY <1>1 DEF Account
<1>4. p \in Int
  BY <1>2, <1>3 DEF Larger
<1>5. Larger(a.worst, p - x) \in Int
  BY <1>3, <1>4 DEF Larger
<1>6. Greater(<<p - x, p>>, a.share) \in Int \X Int
  <2>1. <<p - x, p>> \in Int \X Int
    BY <1>3, <1>4
  <2> QED BY <2>1, <1>3 DEF Greater
<1>7. Fall(a, row) = [equity |-> x, peak |-> p, worst |-> Larger(a.worst, p - x),
                      share |-> IF p > 0 THEN Greater(<<p - x, p>>, a.share) ELSE a.share]
  BY <1>1, <1>2 DEF Fall
<1> QED BY <1>3, <1>4, <1>5, <1>6, <1>7 DEF Account

IsCurve(at, rows, first, n) ==
  /\ at \in [0..n -> Account] /\ at[0] = Opened(first)
  /\ \A k \in 1..n : at[k] = Fall(at[k - 1], rows[k])

IsStart(first, initial) == first = IF initial = NoNumber THEN 0 ELSE initial
IsDrawn(at, rows, initial, n) ==
  /\ Drawdown(rows, initial).worst = at[n].worst
  /\ Drawdown(rows, initial).share = IF initial = NoNumber THEN NoNumber ELSE at[n].share

(* The draw-down is read off the last of the accounts along the rows *)
LEMMA CurveIsDrawn ==
  ASSUME NEW rows, NEW n \in Nat, Len(rows) = n, \A k \in 1..n : Net(rows[k]) \in Int,
         NEW initial, NEW first \in Int, IsStart(first, initial)
  PROVE  \E at : IsCurve(at, rows, first, n) /\ IsDrawn(at, rows, initial, n)
<1> USE DEF IsStart, IsDrawn
<1> DEFINE at[k \in 0..Len(rows)] ==
             IF k = 0 THEN [equity |-> first, peak |-> first, worst |-> 0, share |-> <<0, 1>>]
             ELSE Fall(at[k - 1], rows[k])
           zero == Opened(first)
           Body(f, k) == IF k = 0 THEN zero ELSE Fall(f[k - 1], rows[k])
           step == [p \in (1..n) \X Account |-> Fall(p[2], rows[p[1]])]
<1>1. /\ Drawdown(rows, initial).worst = at[n].worst
      /\ Drawdown(rows, initial).share = IF initial = NoNumber THEN NoNumber ELSE at[n].share
  BY DEF Drawdown
<1>2. at = CHOOSE f : f = [k \in 0..n |-> Body(f, k)]
  BY DEF Opened
<1> HIDE DEF at
<1>3. zero \in Account
  BY DEF Opened, Account
<1> HIDE DEF zero
<1>4. \A a \in Account, k \in 1..n : Fall(a, rows[k]) \in Account
  BY FallIsAnAccount
<1>5. PICK f : Follows(f, step, zero, n, Account)
  <2>1. IsStep(step, n, Account)
    BY <1>4 DEF IsStep
  <2> HIDE DEF step
  <2> QED BY <2>1, <1>3, Recursion
<1>6. f = [k \in 0..n |-> Body(f, k)]
  <2>1. f \in [0..n -> Account] /\ f[0] = zero /\ \A k \in 1..n : f[k] = step[<<k, f[k - 1]>>]
    <3> HIDE DEF step
    <3> QED BY <1>5 DEF Follows
  <2>2. \A k \in 1..n : k - 1 \in 0..n
    OBVIOUS
  <2>3. \A k \in 1..n : step[<<k, f[k - 1]>>] = Fall(f[k - 1], rows[k])
    BY <2>1, <2>2
  <2> HIDE DEF step
  <2>4. \A k \in 1..n : f[k] = Fall(f[k - 1], rows[k])
    BY <2>1, <2>3
  <2>5. \A k \in 0..n : k = 0 \/ k \in 1..n
    OBVIOUS
  <2>6. \A k \in 0..n : f[k] = Body(f, k)
    BY <2>1, <2>4, <2>5
  <2> HIDE DEF Body
  <2> QED BY <2>1, <2>6
<1>7. at = [k \in 0..n |-> Body(at, k)]
  <2> HIDE DEF Body
  <2> QED BY <1>2, <1>6
<1>8. at[0] = zero /\ \A k \in 1..n : at[k] = Fall(at[k - 1], rows[k])
  <2>1. \A k \in 0..n : at[k] = Body(at, k)
    <3> HIDE DEF Body
    <3> QED BY <1>7
  <2>2. 0 \in 0..n /\ \A k \in 1..n : k \in 0..n /\ k # 0
    OBVIOUS
  <2> QED BY <2>1, <2>2
<1>9. \A k \in 0..n : at[k] \in Account
  <2>1. at[0] \in Account /\ \A k \in 1..n : at[k - 1] \in Account => at[k] \in Account
    BY <1>3, <1>4, <1>8
  <2> QED BY <2>1, StaysIn
<1>10. at \in [0..n -> Account]
  <2> HIDE DEF Body
  <2> QED BY <1>7, <1>9
<1>11. IsCurve(at, rows, first, n)
  BY <1>8, <1>10 DEF IsCurve, zero
<1> QED BY <1>1, <1>11

(* The order of fractions *)
LEMMA FractionsAreOrdered ==
  ASSUME NEW a \in Int, NEW b \in Int, NEW c \in Int, NEW d \in Int, NEW e \in Int, NEW f \in Int,
         b > 0, d > 0, f > 0, a * d <= c * b, c * f <= e * d
  PROVE  a * f <= e * b
<1>1. (a * d) * f <= (c * b) * f
  <2>1. PICK x \in Int : x = a * d
    OBVIOUS
  <2>2. PICK y \in Int : y = c * b
    OBVIOUS
  <2>3. x <= y
    BY <2>1, <2>2
  <2>4. x * f <= y * f
    BY <2>3
  <2> QED BY <2>1, <2>2, <2>4
<1>2. (c * f) * b <= (e * d) * b
  <2>1. PICK x \in Int : x = c * f
    OBVIOUS
  <2>2. PICK y \in Int : y = e * d
    OBVIOUS
  <2>3. x <= y
    BY <2>1, <2>2
  <2>4. x * b <= y * b
    BY <2>3
  <2> QED BY <2>1, <2>2, <2>4
<1>3. (a * f) * d <= (e * b) * d
  <2>1. (a * d) * f = (a * f) * d /\ (c * b) * f = (c * f) * b /\ (e * d) * b = (e * b) * d
    OBVIOUS
  <2>2. (a * d) * f \in Int /\ (c * b) * f \in Int /\ (e * d) * b \in Int
    OBVIOUS
  <2> QED BY <1>1, <1>2, <2>1, <2>2
<1>4. PICK x \in Int : x = a * f
  OBVIOUS
<1>5. PICK y \in Int : y = e * b
  OBVIOUS
<1>6. x * d <= y * d
  BY <1>3, <1>4, <1>5
<1>7. x <= y
  <2> SUFFICES ASSUME x >= y + 1 PROVE FALSE
    OBVIOUS
  <2>1. x * d >= (y + 1) * d
    OBVIOUS
  <2>2. (y + 1) * d = y * d + d
    OBVIOUS
  <2>3. x * d \in Int /\ y * d \in Int
    OBVIOUS
  <2> QED BY <1>6, <2>1, <2>2, <2>3
<1> QED BY <1>4, <1>5, <1>7

(* What the account knows after k rows of a curve with these equities and  *)
(* peaks                                                                   *)
IsPeak(p, e, k) == (\E j \in 0..k : p = e[j]) /\ \A j \in 0..k : e[j] <= p
IsWorst(w, e, p, k) == (\E j \in 0..k : w = p[j] - e[j]) /\ \A j \in 0..k : p[j] - e[j] <= w
IsShare(s, e, p, k) ==
  /\ s \in Int \X Int /\ s[1] >= 0 /\ s[2] > 0
  /\ s = <<0, 1>> \/ \E j \in 0..k : p[j] > 0 /\ s = <<p[j] - e[j], p[j]>>
  /\ \A j \in 0..k : p[j] > 0 => (p[j] - e[j]) * s[2] <= s[1] * p[j]

(* The worst share of a peak, with one more point of the curve *)
LEMMA ShareOfOneMore ==
  ASSUME NEW k \in Nat, NEW e, NEW p, \A j \in 0..(k + 1) : e[j] \in Int /\ p[j] \in Int,
         NEW s, IsShare(s, e, p, k), e[k + 1] <= p[k + 1]
  PROVE  IsShare(IF p[k + 1] > 0 THEN Greater(<<p[k + 1] - e[k + 1], p[k + 1]>>, s) ELSE s,
                 e, p, k + 1)
<1>1. PICK l : l = k + 1
  OBVIOUS
<1>2. /\ l \in 0..l /\ \A j \in 0..k : j \in 0..l
      /\ \A j \in 0..l : j = l \/ j \in 0..k
  BY <1>1
<1>3. /\ \A j \in 0..l : e[j] \in Int /\ p[j] \in Int
      /\ e[l] <= p[l] /\ e[l] \in Int /\ p[l] \in Int
  BY <1>1
<1>4. PICK top \in Int : top = p[l]
  BY <1>2, <1>3
<1>5. PICK drop \in Int : drop = p[l] - e[l] /\ drop >= 0
  <2>1. PICK x \in Int : x = e[l]
    BY <1>2, <1>3
  <2>2. x <= top
    BY <1>3, <1>4, <2>1
  <2>3. top - x \in Int /\ top - x >= 0
    BY <2>2
  <2> QED BY <1>4, <2>1, <2>3
<1>6. PICK n \in Int, d \in Int : s = <<n, d>> /\ n = s[1] /\ d = s[2]
  BY DEF IsShare
<1>7. n >= 0 /\ d > 0
  BY <1>6 DEF IsShare
<1>8. s = <<0, 1>> \/ \E j \in 0..k : p[j] > 0 /\ s = <<p[j] - e[j], p[j]>>
  BY DEF IsShare
<1>9. \A j \in 0..k : p[j] > 0 => (p[j] - e[j]) * d <= n * p[j]
  BY <1>6 DEF IsShare
<1>10. s = <<0, 1>> \/ \E j \in 0..l : p[j] > 0 /\ s = <<p[j] - e[j], p[j]>>
  BY <1>2, <1>8
<1>11. CASE ~(p[l] > 0)
  <2>1. \A j \in 0..l : p[j] > 0 => (p[j] - e[j]) * d <= n * p[j]
    BY <1>2, <1>9, <1>11
  <2>2. IsShare(s, e, p, l)
    BY <1>6, <1>7, <1>10, <2>1 DEF IsShare
  <2> QED BY <1>1, <1>11, <2>2
<1>12. CASE p[l] > 0
  <2>1. CASE drop * d > n * top
    <3>1. Greater(<<drop, top>>, s) = <<drop, top>>
      BY <1>6, <2>1 DEF Greater
    <3>2. ASSUME NEW j \in 0..l, p[j] > 0 PROVE (p[j] - e[j]) * top <= drop * p[j]
      <4>1. CASE j = l
        <5>1. p[j] - e[j] = drop /\ p[j] = top
          BY <4>1, <1>4, <1>5
        <5>2. drop * top \in Int /\ drop * top <= drop * top
          OBVIOUS
        <5> QED BY <5>1, <5>2
      <4>2. CASE j \in 0..k
        <5>1. PICK b \in Int : b = p[j]
          BY <1>3
        <5>2. PICK x \in Int : x = e[j]
          BY <1>3
        <5>3. PICK a \in Int : a = b - x
          OBVIOUS
        <5>4. b > 0 /\ a * d <= n * b
          BY <1>9, <3>2, <4>2, <5>1, <5>2, <5>3
        <5>5. n * top <= drop * d /\ top > 0
          <6>1. n * top \in Int /\ drop * d \in Int
            OBVIOUS
          <6>2. top > 0
            BY <1>4, <1>12
          <6> QED BY <6>1, <6>2, <2>1
        <5>6. a * top <= drop * b
          BY <5>4, <5>5, <1>7, FractionsAreOrdered
        <5> QED BY <5>1, <5>2, <5>3, <5>6
      <4> QED BY <1>2, <4>1, <4>2
    <3>3. PICK t : t = <<drop, top>>
      OBVIOUS
    <3>4. t \in Int \X Int /\ t[1] = drop /\ t[2] = top
      BY <3>3
    <3>5. \E j \in 0..l : p[j] > 0 /\ t = <<p[j] - e[j], p[j]>>
      BY <3>3, <1>2, <1>4, <1>5, <1>12
    <3>6. top > 0
      BY <1>4, <1>12
    <3>7. IsShare(t, e, p, l)
      BY <3>2, <3>4, <3>5, <3>6, <1>5 DEF IsShare
    <3> QED BY <1>1, <1>4, <1>5, <1>12, <3>1, <3>3, <3>7
  <2>2. CASE ~(drop * d > n * top)
    <3>1. Greater(<<drop, top>>, s) = s
      BY <1>6, <2>2 DEF Greater
    <3>2. drop * d <= n * top
      BY <2>2
    <3>3. \A j \in 0..l : p[j] > 0 => (p[j] - e[j]) * d <= n * p[j]
      <4>1. (p[l] - e[l]) * d <= n * p[l]
        BY <3>2, <1>4, <1>5
      <4> QED BY <4>1, <1>2, <1>9
    <3>4. IsShare(s, e, p, l)
      BY <1>6, <1>7, <1>10, <3>3 DEF IsShare
    <3> QED BY <1>1, <1>4, <1>5, <1>12, <3>1, <3>4
  <2> QED BY <2>1, <2>2
<1> QED BY <1>11, <1>12

Reads(a, e, p, k) ==
  /\ a.equity = e[k] /\ a.peak = p[k] /\ IsPeak(p[k], e, k)
  /\ IsWorst(a.worst, e, p, k) /\ IsShare(a.share, e, p, k)

(* One row more keeps what an account says about the curve *)
LEMMA OneMoreRow ==
  ASSUME NEW k \in Nat, NEW e, NEW p, \A j \in 0..(k + 1) : e[j] \in Int /\ p[j] \in Int,
         NEW a \in Account, NEW row, Net(row) \in Int,
         Reads(a, e, p, k), e[k + 1] = e[k] + Net(row), p[k + 1] = Fall(a, row).peak
  PROVE  Reads(Fall(a, row), e, p, k + 1)
<1>1. PICK l \in Nat : l = k + 1
  OBVIOUS
<1>2. /\ l \in 0..l /\ k \in 0..l /\ k \in 0..k /\ \A j \in 0..k : j \in 0..l
      /\ \A j \in 0..l : j = l \/ j \in 0..k
  BY <1>1
<1>3. /\ \A j \in 0..l : e[j] \in Int /\ p[j] \in Int
      /\ e[l] \in Int /\ p[l] \in Int /\ e[k] \in Int /\ p[k] \in Int
  BY <1>1, <1>2
<1>4. PICK x \in Int : x = e[l]
  BY <1>3
<1>5. PICK top \in Int : top = p[l]
  BY <1>3
<1>6. PICK old \in Int : old = p[k]
  BY <1>3
<1>7. /\ a.equity = e[k] /\ a.peak = old /\ IsPeak(old, e, k)
      /\ IsWorst(a.worst, e, p, k) /\ IsShare(a.share, e, p, k)
  BY <1>6 DEF Reads
<1>8. a.equity + Net(row) = x
  BY <1>1, <1>4, <1>7
<1>9. PICK b : b = Fall(a, row)
  OBVIOUS
<1>10. /\ b.equity = x /\ b.peak = Larger(old, x)
       /\ b.worst = Larger(a.worst, Larger(old, x) - x)
       /\ b.share = IF Larger(old, x) > 0
                    THEN Greater(<<Larger(old, x) - x, Larger(old, x)>>, a.share) ELSE a.share
  BY <1>7, <1>8, <1>9 DEF Fall
<1>11. Larger(old, x) = top
  BY <1>1, <1>5, <1>9, <1>10
<1>12. x <= top /\ old <= top /\ (top = x \/ top = old)
  BY <1>11 DEF Larger
<1>13. IsPeak(p[l], e, l)
  <2>1. (\E j \in 0..k : old = e[j]) /\ \A j \in 0..k : e[j] <= old
    BY <1>7 DEF IsPeak
  <2>2. \E j \in 0..l : top = e[j]
    BY <2>1, <1>2, <1>4, <1>12
  <2>3. \A j \in 0..l : e[j] <= top
    <3> SUFFICES ASSUME NEW j \in 0..l PROVE e[j] <= top
      OBVIOUS
    <3>1. PICK y \in Int : y = e[j]
      BY <1>3
    <3>2. y <= x \/ y <= old
      BY <3>1, <2>1, <1>2, <1>4
    <3>3. y <= top
      BY <3>2, <1>12
    <3> QED BY <3>1, <3>3
  <2> QED BY <2>2, <2>3, <1>5 DEF IsPeak
<1>14. IsWorst(b.worst, e, p, l)
  <2>1. PICK drop \in Int : drop = top - x
    OBVIOUS
  <2>2. PICK w \in Int : w = a.worst
    BY DEF Account
  <2>3. PICK v : v = b.worst
    OBVIOUS
  <2>4. v = Larger(w, drop)
    BY <2>1, <2>2, <2>3, <1>10, <1>11
  <2>5. v \in Int /\ w <= v /\ drop <= v /\ (v = w \/ v = drop)
    BY <2>4 DEF Larger
  <2>6. (\E j \in 0..k : w = p[j] - e[j]) /\ \A j \in 0..k : p[j] - e[j] <= w
    BY <2>2, <1>7 DEF IsWorst
  <2>7. p[l] - e[l] = drop
    BY <2>1, <1>4, <1>5
  <2>8. \E j \in 0..l : v = p[j] - e[j]
    BY <2>5, <2>6, <2>7, <1>2
  <2>9. \A j \in 0..l : p[j] - e[j] <= v
    <3> SUFFICES ASSUME NEW j \in 0..l PROVE p[j] - e[j] <= v
      OBVIOUS
    <3>1. PICK y \in Int : y = p[j] - e[j]
      BY <1>3
    <3>2. y <= w \/ y = drop
      BY <3>1, <2>6, <2>7, <1>2
    <3>3. y <= v
      BY <3>2, <2>5
    <3> QED BY <3>1, <3>3
  <2> QED BY <2>3, <2>8, <2>9 DEF IsWorst
<1>15. IsShare(b.share, e, p, l)
  <2>1. e[k + 1] <= p[k + 1]
    BY <1>1, <1>4, <1>5, <1>12
  <2>2. IsShare(IF p[k + 1] > 0 THEN Greater(<<p[k + 1] - e[k + 1], p[k + 1]>>, a.share)
                ELSE a.share, e, p, k + 1)
    BY <2>1, <1>7, ShareOfOneMore
  <2>3. b.share = IF p[k + 1] > 0 THEN Greater(<<p[k + 1] - e[k + 1], p[k + 1]>>, a.share)
                  ELSE a.share
    BY <1>1, <1>4, <1>5, <1>10, <1>11
  <2> QED BY <2>2, <2>3, <1>1
<1>16. b.equity = e[l] /\ b.peak = p[l]
  BY <1>4, <1>5, <1>10, <1>11
<1>17. Reads(b, e, p, l)
  BY <1>13, <1>14, <1>15, <1>16 DEF Reads
<1> QED BY <1>1, <1>9, <1>17

(* So the account after k rows says what the first k points of the curve are *)
LEMMA CurveIsRead ==
  ASSUME NEW rows, NEW n \in Nat, \A k \in 1..n : Net(rows[k]) \in Int,
         NEW first \in Int, NEW at, IsCurve(at, rows, first, n),
         NEW sum, AddsUp(sum, rows, n),
         NEW e, e = [k \in 0..n |-> first + sum[k]], NEW p, p = [k \in 0..n |-> at[k].peak]
  PROVE  \A k \in 0..n : /\ e[k] \in Int /\ p[k] \in Int
                         /\ Reads(at[k], e, p, k)
<1>1. /\ \A k \in 0..n : at[k] \in Account
      /\ at[0] = Opened(first)
      /\ \A k \in 1..n : at[k] = Fall(at[k - 1], rows[k])
  BY DEF IsCurve
<1>2. /\ \A k \in 0..n : sum[k] \in Int
      /\ sum[0] = 0 /\ \A k \in 1..n : sum[k] = sum[k - 1] + Net(rows[k])
  BY DEF AddsUp
<1>3. \A k \in 0..n : e[k] = first + sum[k] /\ p[k] = at[k].peak
  OBVIOUS
<1>4. \A k \in 0..n : e[k] \in Int /\ p[k] \in Int
  <2> SUFFICES ASSUME NEW k \in 0..n PROVE e[k] \in Int /\ p[k] \in Int
    OBVIOUS
  <2>1. at[k].peak \in Int
    BY <1>1 DEF Account
  <2>2. first + sum[k] \in Int
    BY <1>2
  <2> QED BY <1>3, <2>1, <2>2
<1> DEFINE P == {k \in 0..n : Reads(at[k], e, p, k)}
<1>5. 0 \in P
  <2>1. 0 \in 0..n
    OBVIOUS
  <2>2. e[0] = first
    BY <1>2, <1>3, <2>1
  <2>3. p[0] = first
    BY <1>1, <1>3, <2>1 DEF Opened
  <2>4. \A j \in 0..0 : j = 0
    OBVIOUS
  <2>5. 0 \in 0..0
    OBVIOUS
  <2>6. IsPeak(p[0], e, 0)
    BY <2>2, <2>3, <2>4, <2>5 DEF IsPeak
  <2>7. IsWorst(0, e, p, 0)
    BY <2>2, <2>3, <2>4, <2>5 DEF IsWorst
  <2>8. IsShare(<<0, 1>>, e, p, 0)
    <3>1. \A j \in 0..0 : p[j] > 0 => (p[j] - e[j]) * 1 <= 0 * p[j]
      BY <2>2, <2>3, <2>4
    <3> QED BY <3>1 DEF IsShare
  <2>9. Reads(at[0], e, p, 0)
    BY <1>1, <2>2, <2>3, <2>6, <2>7, <2>8 DEF Reads, Opened
  <2> QED BY <2>1, <2>9
<1>6. ASSUME NEW k \in 1..n, k - 1 \in P PROVE k \in P
  <2>1. PICK l \in Nat : l = k - 1
    OBVIOUS
  <2>2. l \in 0..n /\ k \in 0..n /\ l + 1 = k
    BY <2>1
  <2>3. Reads(at[l], e, p, l) /\ at[l] \in Account /\ at[k] = Fall(at[l], rows[k])
    BY <2>1, <2>2, <1>1, <1>6
  <2>4. e[k] = e[l] + Net(rows[k])
    <3>1. sum[k] = sum[l] + Net(rows[k]) /\ sum[l] \in Int /\ Net(rows[k]) \in Int
      BY <2>1, <2>2, <1>2
    <3>2. e[k] = first + sum[k] /\ e[l] = first + sum[l]
      BY <2>2, <1>3
    <3> QED BY <3>1, <3>2
  <2>5. p[k] = Fall(at[l], rows[k]).peak
    BY <2>2, <2>3, <1>3
  <2>6. \A j \in 0..(l + 1) : e[j] \in Int /\ p[j] \in Int
    <3>1. \A j \in 0..(l + 1) : j \in 0..n
      BY <2>2
    <3> QED BY <3>1, <1>4
  <2>7. e[l + 1] = e[l] + Net(rows[k]) /\ p[l + 1] = Fall(at[l], rows[k]).peak /\ Net(rows[k]) \in Int
    BY <2>2, <2>4, <2>5
  <2>8. Reads(Fall(at[l], rows[k]), e, p, l + 1)
    <3> HIDE DEF P
    <3> QED BY <2>3, <2>6, <2>7, OneMoreRow
  <2>9. Reads(at[k], e, p, k)
    BY <2>2, <2>3, <2>8
  <2> QED BY <2>2, <2>9
<1>7. P = 0..n
  <2>1. P \in SUBSET (0..n)
    OBVIOUS
  <2> HIDE DEF P
  <2> QED BY <1>5, <1>6, <2>1, PlaceInduction
<1> QED BY <1>4, <1>7

(* What is read of a table *)
LEMMA TradesHaveAmounts ==
  ASSUME NEW rows \in Tables, NEW typed
  PROVE  \E S : (\A r \in S : Net(r) \in Int) /\ Trades(rows, typed) \in Seq(S)
<1> DEFINE S == {r \in TableRows : Net(r) \in Int}
           places == {k \in DOMAIN rows : Kind(rows[k], typed) = "trade"}
<1>1. rows \in Seq(TableRows)
  BY MediaAssumption
<1>2. PICK n \in Nat : n = Len(rows) /\ DOMAIN rows = 1..n
  BY <1>1, LenProperties
<1>3. \A k \in 1..n : k \in places => rows[k] \in S
  <2> SUFFICES ASSUME NEW k \in 1..n, Kind(rows[k], typed) = "trade" PROVE rows[k] \in S
    OBVIOUS
  <2>1. rows[k] \in TableRows
    BY <1>1, <1>2, ElementOfSeq
  <2>2. rows[k].profit # NoNumber
    BY DEF Kind, IsNumber
  <2>3. rows[k].profit \in Int /\ rows[k].extra \in Int
    BY <2>1, <2>2, MediaAssumption
  <2> QED BY <2>1, <2>3 DEF Net
<1>4. PICK kept : Keeps(kept, rows, places, n, S)
  <2> HIDE DEF S, places
  <2> QED BY <1>2, <1>3, RowsAreKept
<1>5. Trades(rows, typed) = kept[n] /\ n \in 0..n
  BY <1>4 DEF Keeps, Trades
<1>6. Trades(rows, typed) \in Seq(S)
  <2> HIDE DEF S
  <2> QED BY <1>4, <1>5 DEF Keeps
<1> QED BY <1>6

(* A deposit is a number *)
LEMMA DepositIsPaid ==
  ASSUME NEW rows \in Tables, NEW typed
  PROVE  Deposit(rows, typed) # NoNumber => Deposit(rows, typed) \in Int
<1> DEFINE paid == {k \in DOMAIN rows : Kind(rows[k], typed) = "balance" /\ rows[k].profit > 0}
<1>1. rows \in Seq(TableRows)
  BY MediaAssumption
<1>2. PICK n \in Nat : n = Len(rows) /\ DOMAIN rows = 1..n
  BY <1>1, LenProperties
<1>3. Deposit(rows, typed) = IF paid = {} THEN NoNumber ELSE rows[Min(paid)].profit
  BY DEF Deposit
<1>4. ASSUME paid # {} PROVE rows[Min(paid)].profit \in Int
  <2>1. paid \in SUBSET (1..n)
    BY <1>2
  <2>2. PICK k : k = Min(paid)
    OBVIOUS
  <2>3. k \in paid
    <3> HIDE DEF paid
    <3> QED BY <1>4, <2>1, <2>2, LowestPlace
  <2>4. k \in 1..n /\ Kind(rows[k], typed) = "balance"
    BY <2>3, <1>2
  <2>5. rows[k] \in TableRows
    BY <2>4, <1>1, <1>2, ElementOfSeq
  <2>6. rows[k].profit # NoNumber
    BY <2>4 DEF Kind, IsNumber
  <2>7. rows[k].profit \in Int
    BY <2>5, <2>6, MediaAssumption
  <2> QED BY <2>2, <2>7
<1> QED BY <1>3, <1>4

(* A quotient by a positive number *)
LEMMA QuotientBounds ==
  ASSUME NEW a \in Int, NEW b \in Int, b > 0
  PROVE  /\ a \div b \in Int
         /\ b * (a \div b) <= a /\ a < b * (a \div b) + b
<1>1. a \div b \in Int
  OBVIOUS
<1>2. a = b * (a \div b) + (a % b)
  OBVIOUS
<1>3. a % b \in Int /\ a % b >= 0 /\ a % b < b
  OBVIOUS
<1>4. PICK q \in Int : q = a \div b
  BY <1>1
<1>5. PICK r \in Int : r = a % b
  BY <1>3
<1>6. PICK x \in Int : x = b * q
  OBVIOUS
<1>7. a = x + r /\ r >= 0 /\ r < b
  BY <1>2, <1>3, <1>4, <1>5, <1>6
<1>8. x <= a /\ a < x + b
  BY <1>7
<1> QED BY <1>4, <1>6, <1>8

(* What is rounded is at most half a unit away *)
LEMMA NearestIsNear ==
  ASSUME NEW n \in Int, NEW d \in Int, d > 0, NEW rises
  PROVE  \E r \in Int : /\ Nearest(n, d, rises) = r
                        /\ 2 * (d * r) <= 2 * n + d /\ 2 * n <= 2 * (d * r) + d
<1>1. PICK a \in Int : a = 2 * n + d - (IF rises THEN 0 ELSE 1) /\ (a = 2 * n + d \/ a = 2 * n + d - 1)
  <2>1. CASE rises
    <3>1. PICK a \in Int : a = 2 * n + d
      OBVIOUS
    <3>2. 2 * n + d - (IF rises THEN 0 ELSE 1) = a
      BY <2>1, <3>1
    <3> QED BY <3>1, <3>2
  <2>2. CASE ~rises
    <3>1. PICK a \in Int : a = 2 * n + d - 1
      OBVIOUS
    <3>2. 2 * n + d - (IF rises THEN 0 ELSE 1) = a
      BY <2>2, <3>1
    <3> QED BY <3>1, <3>2
  <2> QED BY <2>1, <2>2
<1>2. PICK b \in Int : b = 2 * d /\ b > 0
  OBVIOUS
<1>3. PICK r \in Int : r = a \div b
  BY <1>2, QuotientBounds
<1>4. b * r <= a /\ a < b * r + b
  BY <1>2, <1>3, QuotientBounds
<1>5. PICK x \in Int : x = d * r
  OBVIOUS
<1>6. b * r = 2 * x
  BY <1>2, <1>5
<1>7. 2 * x <= 2 * n + d /\ 2 * n <= 2 * x + d
  BY <1>1, <1>2, <1>4, <1>6
<1>8. Nearest(n, d, rises) = r
  BY <1>1, <1>2, <1>3 DEF Nearest
<1> QED BY <1>5, <1>7, <1>8

(* Products with a positive number keep the order *)
LEMMA Scales ==
  ASSUME NEW x \in Int, NEW y \in Int, NEW d \in Int, x <= y, d >= 0
  PROVE  x * d <= y * d
  OBVIOUS

(* What the three limits say of a number before it was rounded *)
LEMMA RoundedShare ==
  ASSUME NEW c \in Int, NEW d \in Int, d > 0, NEW ties
  PROVE  \E r \in Int : /\ ShareOf(<<c, d>>, ties) = r
                        /\ r < 1000 => 10 * c < d
                        /\ r >= 3000 => 20000 * c >= 5999 * d
                        /\ 10 * c >= 3 * d => r >= 3000
<1>1. PICK n \in Int : n = 10000 * c
  OBVIOUS
<1>2. PICK r \in Int : /\ Nearest(n, d, "fall" \in ties) = r
                       /\ 2 * (d * r) <= 2 * n + d /\ 2 * n <= 2 * (d * r) + d
  BY NearestIsNear
<1>3. PICK x \in Int : x = d * r /\ x = r * d
  OBVIOUS
<1>4. 2 * x <= 20000 * c + d /\ 20000 * c <= 2 * x + d
  BY <1>1, <1>2, <1>3
<1>5. r < 1000 => 10 * c < d
  <2> SUFFICES ASSUME r <= 999 PROVE 10 * c < d
    OBVIOUS
  <2>1. x <= 999 * d
    BY <1>3, Scales
  <2> QED BY <2>1, <1>4
<1>6. r >= 3000 => 20000 * c >= 5999 * d
  <2> SUFFICES ASSUME 3000 <= r PROVE 20000 * c >= 5999 * d
    OBVIOUS
  <2>1. 3000 * d <= x
    BY <1>3, Scales
  <2> QED BY <2>1, <1>4
<1>7. 10 * c >= 3 * d => r >= 3000
  <2> SUFFICES ASSUME 10 * c >= 3 * d, r <= 2999 PROVE FALSE
    OBVIOUS
  <2>1. x <= 2999 * d
    BY <1>3, Scales
  <2> QED BY <2>1, <1>4
<1>8. ShareOf(<<c, d>>, ties) = r
  BY <1>1, <1>2 DEF ShareOf
<1> QED BY <1>5, <1>6, <1>7, <1>8

LEMMA RoundedFactor ==
  ASSUME NEW won \in Nat, NEW lost \in Nat, lost > 0, NEW ties
  PROVE  \E r \in Int : FactorOf(won, lost, ties) = r /\ (r >= 1500 => won >= lost)
<1>1. PICK n \in Int : n = 1000 * won
  OBVIOUS
<1>2. PICK r \in Int : /\ Nearest(n, lost, "factor" \in ties) = r
                       /\ 2 * (lost * r) <= 2 * n + lost
  BY NearestIsNear
<1>3. PICK x \in Int : x = lost * r /\ x = r * lost
  OBVIOUS
<1>4. r >= 1500 => won >= lost
  <2> SUFFICES ASSUME 1500 <= r PROVE won >= lost
    OBVIOUS
  <2>1. 1500 * lost <= x
    BY <1>3, Scales
  <2> QED BY <2>1, <1>1, <1>2, <1>3
<1>5. FactorOf(won, lost, ties) = r
  BY <1>1, <1>2 DEF FactorOf
<1> QED BY <1>4, <1>5

(* A fall of a fraction of its peak, and the worst fraction *)
LEMMA FractionOfThePeak ==
  ASSUME NEW a \in Int, NEW b \in Int, NEW c \in Int, NEW d \in Int,
         b > 0, d > 0, a * d <= c * b
  PROVE  (10 * c < d => 10 * a < b) /\ (10 * a >= 3 * b => 10 * c >= 3 * d)
<1>1. PICK x \in Int : x = a * d
  OBVIOUS
<1>2. PICK y \in Int : y = c * b
  OBVIOUS
<1>3. PICK z \in Int : z = b * d /\ z = d * b
  OBVIOUS
<1>4. x <= y
  BY <1>1, <1>2
<1>5. ASSUME 10 * c < d, b <= 10 * a PROVE FALSE
  <2>1. PICK u \in Int : u = 10 * c + 1
    OBVIOUS
  <2>2. u * b <= z
    BY <2>1, <1>3, <1>5, Scales
  <2>3. u * b = 10 * y + b
    BY <2>1, <1>2
  <2>4. PICK v \in Int : v = 10 * a
    OBVIOUS
  <2>5. z <= v * d
    BY <2>4, <1>3, <1>5, Scales
  <2>6. v * d = 10 * x
    BY <2>4, <1>1
  <2> QED BY <2>2, <2>3, <2>5, <2>6, <1>4
<1>6. ASSUME 10 * a >= 3 * b, 10 * c < 3 * d PROVE FALSE
  <2>1. PICK u \in Int : u = 10 * c + 1
    OBVIOUS
  <2>2. PICK t \in Int : t = 3 * d
    OBVIOUS
  <2>3. u * b <= t * b
    BY <2>1, <2>2, <1>6, Scales
  <2>4. u * b = 10 * y + b /\ t * b = 3 * z
    BY <2>1, <2>2, <1>2, <1>3
  <2>5. PICK v \in Int : v = 10 * a
    OBVIOUS
  <2>6. PICK w \in Int : w = 3 * b
    OBVIOUS
  <2>7. w * d <= v * d
    BY <2>5, <2>6, <1>6, Scales
  <2>8. v * d = 10 * x /\ w * d = 3 * z
    BY <2>5, <2>6, <1>1, <1>3
  <2> QED BY <2>3, <2>4, <2>7, <2>8, <1>4
<1> QED BY <1>5, <1>6

(* The gains and the losses that are counted *)
LEMMA WhatIsCounted ==
  ASSUME reading.rows \in Tables, Traded # <<>>
  PROVE  \E won \in Nat, lost \in Nat :
           /\ Total(Traded) = won - lost
           /\ Counted(reading).profit = won /\ Counted(reading).loss = lost
           /\ Counted(reading).factor = IF lost > 0 THEN FactorOf(won, lost, reading.ties)
                                        ELSE NoNumber
<1>1. PICK t : t = Traded
  OBVIOUS
<1>2. PICK S : (\A r \in S : Net(r) \in Int) /\ t \in Seq(S)
  BY <1>1, TradesHaveAmounts DEF Traded
<1>3. PICK n \in Nat : n = Len(t) /\ DOMAIN t = 1..n
  BY <1>2, LenProperties
<1>4. PICK won : won = Total(Chosen(t, Gains(t)))
  OBVIOUS
<1>5. PICK bad : bad = Total(Chosen(t, Losses(t)))
  OBVIOUS
<1>6. won \in Nat /\ -bad \in Nat /\ Total(t) = won + bad
  BY <1>2, <1>4, <1>5, GainsAndLosses
<1>7. bad \in Int
  <2>1. PICK kept : Keeps(kept, t, Losses(t), n, S)
    <3>1. \A k \in 1..n : t[k] \in S
      BY <1>2, <1>3, ElementOfSeq
    <3> QED BY <3>1, <1>3, RowsAreKept
  <2>2. Chosen(t, Losses(t)) \in Seq(S)
    <3>1. n \in 0..n
      OBVIOUS
    <3> QED BY <3>1, <2>1 DEF Keeps
  <2>3. t # <<>> /\ Len(t) # 0
    BY <1>1, <1>2, EmptySeq
  <2>4. t[1] \in S
    BY <2>3, <1>2, <1>3, ElementOfSeq
  <2> QED BY <2>2, <2>4, <1>2, <1>5, TotalOfOneMore
<1>8. PICK lost \in Nat : lost = -bad /\ Total(t) = won - lost /\ (bad < 0 <=> lost > 0)
  BY <1>6, <1>7
<1>9. /\ Counted(reading).profit = won /\ Counted(reading).loss = -bad
      /\ Counted(reading).factor = IF bad < 0 THEN FactorOf(won, -bad, reading.ties) ELSE NoNumber
  BY <1>1, <1>4, <1>5 DEF Counted, Traded, Gains, Losses
<1> QED BY <1>1, <1>6, <1>8, <1>9

(* A report without a summary is counted *)
LEMMA NotPrinted == ~HasSummary(reading.summary) => Metrics(reading) = Counted(reading)
  BY DEF Metrics

(* The advice is what the whole curve deserves *)
LEMMA AdviceFits ==
  ASSUME reading.rows \in Tables
  PROVE  AdviceFitsTheCurve
<1>1. SUFFICES ASSUME ~HasSummary(reading.summary), Traded # <<>>
               PROVE  LET m == Metrics(reading)
                      IN  /\ m.worst = Max({f[1] : f \in Falls})
                          /\ "praise" \in Says(m) =>
                               /\ Total(Traded) >= 0
                               /\ PaidIn # NoNumber => \A f \in Falls : f[2] > 0 => 10 * f[1] < f[2]
                          /\ "halt" \in Says(m) =>
                               /\ "trust" \in Says(m)
                               /\ PaidIn # NoNumber /\ \E f \in Falls : f[2] > 0 /\ 20000 * f[1] >= 5999 * f[2]
                          /\ PaidIn # NoNumber /\ (\E f \in Falls : f[2] > 0 /\ 10 * f[1] >= 3 * f[2]) =>
                               "halt" \in Says(m)
  BY DEF AdviceFitsTheCurve
<1>2. PICK t : t = Traded
  OBVIOUS
<1>3. PICK S : (\A r \in S : Net(r) \in Int) /\ t \in Seq(S)
  BY <1>2, TradesHaveAmounts DEF Traded
<1>4. PICK n \in Nat : n = Len(t) /\ DOMAIN t = 1..n
  BY <1>3, LenProperties
<1>5. \A k \in 1..n : Net(t[k]) \in Int
  BY <1>3, <1>4, ElementOfSeq
<1>6. PICK initial : initial = PaidIn
  OBVIOUS
<1>7. PICK first \in Int : first = IF initial = NoNumber THEN 0 ELSE initial
  BY <1>6, DepositIsPaid DEF PaidIn
<1>8. PICK at : IsCurve(at, t, first, n) /\ IsDrawn(at, t, initial, n)
  <2>1. IsStart(first, initial)
    BY <1>7 DEF IsStart
  <2> QED BY <2>1, <1>4, <1>5, CurveIsDrawn
<1>9. PICK sum : sum = Sums(t)
  OBVIOUS
<1>10. AddsUp(sum, t, n)
  BY <1>4, <1>5, <1>9, SumsAddUp
<1>11. PICK e : e = [k \in 0..n |-> first + sum[k]]
  OBVIOUS
<1>12. PICK p : p = [k \in 0..n |-> at[k].peak]
  OBVIOUS
<1>13. \A k \in 0..n : e[k] \in Int /\ p[k] \in Int /\ Reads(at[k], e, p, k)
  BY <1>5, <1>8, <1>10, <1>11, <1>12, CurveIsRead
<1>14. \A k \in 0..n : Equity(k) = e[k]
  BY <1>2, <1>6, <1>7, <1>9, <1>11 DEF Equity
<1>15. \A k \in 0..n : Peak(k) = p[k]
  <2> SUFFICES ASSUME NEW k \in 0..n PROVE Peak(k) = p[k]
    OBVIOUS
  <2>1. PICK heights : heights = {Equity(j) : j \in 0..k}
    OBVIOUS
  <2>2. \A j \in 0..k : j \in 0..n /\ Equity(j) = e[j] /\ e[j] \in Int
    BY <1>13, <1>14
  <2>3. heights = {e[j] : j \in 0..k}
    BY <2>1, <2>2
  <2>4. IsPeak(p[k], e, k)
    BY <1>13 DEF Reads
  <2>5. p[k] \in heights /\ \A x \in heights : x \in Int /\ p[k] >= x
    BY <2>2, <2>3, <2>4, <1>13 DEF IsPeak
  <2>6. Max(heights) = p[k]
    BY <2>5, <1>13 DEF Max
  <2> QED BY <2>1, <2>6 DEF Peak
<1>16. Falls = {<<p[k] - e[k], p[k]>> : k \in 0..n}
  <2>1. Len(Traded) = n
    BY <1>2, <1>4
  <2>2. \A k \in 0..n : <<Peak(k) - Equity(k), Peak(k)>> = <<p[k] - e[k], p[k]>>
    BY <1>14, <1>15
  <2> QED BY <2>1, <2>2 DEF Falls
<1>17. PICK m : m = Metrics(reading) /\ m = Counted(reading)
  BY <1>1, NotPrinted
<1>18. PICK won \in Nat, lost \in Nat :
         /\ Total(t) = won - lost
         /\ m.factor = IF lost > 0 THEN FactorOf(won, lost, reading.ties) ELSE NoNumber
  BY <1>1, <1>2, <1>17, WhatIsCounted
<1>19. at[n].share # NoNumber /\ at[n].share \in Int \X Int
  <2>1. at[n] \in Account
    BY <1>8 DEF IsCurve
  <2>2. at[n].share \in Int \X Int
    BY <2>1 DEF Account
  <2> QED BY <2>2, MediaAssumption
<1>20. PICK fall : fall = Drawdown(t, initial)
  OBVIOUS
<1>21. fall.worst = at[n].worst /\ fall.share = IF initial = NoNumber THEN NoNumber ELSE at[n].share
  BY <1>8, <1>20 DEF IsDrawn
<1>22. /\ m.worst = at[n].worst
       /\ m.share = IF initial = NoNumber THEN NoNumber ELSE ShareOf(at[n].share, reading.ties)
  <2>1. /\ m.worst = fall.worst
        /\ m.share = IF fall.share = NoNumber THEN NoNumber ELSE ShareOf(fall.share, reading.ties)
    BY <1>1, <1>2, <1>6, <1>17, <1>20 DEF Counted, Traded, PaidIn
  <2> QED BY <2>1, <1>19, <1>21
<1>23. n \in 0..n
  OBVIOUS
<1>24. IsWorst(at[n].worst, e, p, n) /\ IsShare(at[n].share, e, p, n) /\ at[n] \in Account
  BY <1>8, <1>13, <1>23 DEF Reads, IsCurve
<1>25. m.worst = Max({f[1] : f \in Falls})
  <2>1. PICK depths : depths = {f[1] : f \in Falls}
    OBVIOUS
  <2>2. depths = {p[k] - e[k] : k \in 0..n}
    <3>1. \A k \in 0..n : <<p[k] - e[k], p[k]>>[1] = p[k] - e[k]
      OBVIOUS
    <3>2. ASSUME NEW x \in depths PROVE \E k \in 0..n : x = p[k] - e[k]
      <4>1. PICK f \in Falls : x = f[1]
        BY <2>1, <3>2
      <4>2. PICK k \in 0..n : f = <<p[k] - e[k], p[k]>>
        BY <4>1, <1>16
      <4> QED BY <4>1, <4>2, <3>1
    <3>3. ASSUME NEW k \in 0..n PROVE p[k] - e[k] \in depths
      <4>1. <<p[k] - e[k], p[k]>> \in Falls
        BY <1>16
      <4> QED BY <4>1, <3>1, <2>1
    <3> QED BY <3>2, <3>3
  <2>3. PICK w \in Int : w = at[n].worst
    BY <1>24 DEF Account
  <2>4. w \in depths
    BY <2>2, <2>3, <1>24 DEF IsWorst
  <2>5. \A x \in depths : x \in Int /\ w >= x
    <3> SUFFICES ASSUME NEW k \in 0..n PROVE p[k] - e[k] \in Int /\ w >= p[k] - e[k]
      BY <2>2
    <3>1. PICK x \in Int : x = p[k] - e[k]
      BY <1>13
    <3>2. x <= w
      BY <3>1, <2>3, <1>24 DEF IsWorst
    <3> QED BY <3>1, <3>2
  <2>6. Max(depths) = w
    <3>1. ASSUME NEW x \in depths, \A y \in depths : x >= y PROVE x = w
      <4>1. x >= w
        BY <3>1, <2>4
      <4>2. w >= x /\ x \in Int
        BY <2>5
      <4> QED BY <4>1, <4>2, <2>3
    <3>2. \A y \in depths : w >= y
      BY <2>5
    <3> QED BY <3>1, <3>2, <2>4 DEF Max
  <2> QED BY <2>1, <2>3, <2>6, <1>22
<1>26. /\ "praise" \in Says(m) => Healthy(m)
       /\ "halt" \in Says(m) <=> m.share # NoNumber /\ m.share >= 3000
       /\ ~Healthy(m) => "trust" \in Says(m)
  BY DEF Says
<1>27. ASSUME Healthy(m) PROVE Total(t) >= 0
  <2>1. CASE lost = 0
    BY <2>1, <1>18
  <2>2. CASE lost > 0
    <3>1. PICK r \in Int : FactorOf(won, lost, reading.ties) = r /\ (r >= 1500 => won >= lost)
      BY <2>2, RoundedFactor
    <3>2. m.factor = r /\ r # NoNumber
      BY <2>2, <3>1, <1>18, MediaAssumption
    <3>3. won >= lost
      BY <3>1, <3>2, <1>27 DEF Healthy
    <3> QED BY <3>3, <1>18
  <2> QED BY <2>1, <2>2
<1>28. PICK c \in Int, d \in Int : at[n].share = <<c, d>>
  BY <1>19
<1>29. /\ d > 0
       /\ \A j \in 0..n : p[j] > 0 => (p[j] - e[j]) * d <= c * p[j]
       /\ <<c, d>> = <<0, 1>> \/ \E j \in 0..n : p[j] > 0 /\ <<c, d>> = <<p[j] - e[j], p[j]>>
  BY <1>24, <1>28 DEF IsShare
<1>30. PICK r \in Int : /\ ShareOf(<<c, d>>, reading.ties) = r
                        /\ r < 1000 => 10 * c < d
                        /\ r >= 3000 => 20000 * c >= 5999 * d
                        /\ 10 * c >= 3 * d => r >= 3000
  BY <1>29, RoundedShare
<1>31. initial # NoNumber => m.share = r /\ m.share # NoNumber
  BY <1>22, <1>28, <1>30, MediaAssumption
<1>32. ASSUME NEW f \in Falls, f[2] > 0
       PROVE  (10 * c < d => 10 * f[1] < f[2]) /\ (10 * f[1] >= 3 * f[2] => 10 * c >= 3 * d)
  <2>1. PICK k \in 0..n : f = <<p[k] - e[k], p[k]>>
    BY <1>16
  <2>2. PICK b \in Int : b = p[k]
    BY <1>13
  <2>3. PICK a \in Int : a = p[k] - e[k]
    BY <1>13
  <2>4. f[1] = a /\ f[2] = b
    BY <2>1, <2>2, <2>3
  <2>5. b > 0
    BY <2>4, <1>32
  <2>6. a * d <= c * b
    BY <2>2, <2>3, <2>5, <1>29
  <2>7. (10 * c < d => 10 * a < b) /\ (10 * a >= 3 * b => 10 * c >= 3 * d)
    BY <2>5, <2>6, <1>29, FractionOfThePeak
  <2> QED BY <2>4, <2>7
<1>33. ASSUME Healthy(m), initial # NoNumber, NEW f \in Falls, f[2] > 0
       PROVE  10 * f[1] < f[2]
  <2>1. r < 1000
    BY <1>31, <1>33 DEF Healthy
  <2> QED BY <2>1, <1>30, <1>32, <1>33
<1>34. ASSUME m.share # NoNumber, m.share >= 3000
       PROVE  /\ ~Healthy(m)
              /\ initial # NoNumber /\ \E f \in Falls : f[2] > 0 /\ 20000 * f[1] >= 5999 * f[2]
  <2>1. initial # NoNumber
    BY <1>22, <1>34
  <2>2. m.share = r /\ r >= 3000 /\ ~(r < 1000)
    BY <2>1, <1>31, <1>34
  <2>3. 20000 * c >= 5999 * d
    BY <2>2, <1>30
  <2>4. ~Healthy(m)
    BY <2>2, <1>34 DEF Healthy
  <2>5. <<c, d>> # <<0, 1>>
    <3> SUFFICES ASSUME c = 0, d = 1 PROVE FALSE
      OBVIOUS
    <3> QED BY <2>3
  <2>6. PICK j \in 0..n : p[j] > 0 /\ <<c, d>> = <<p[j] - e[j], p[j]>>
    BY <2>5, <1>29
  <2>7. <<c, d>> \in Falls
    BY <2>6, <1>16
  <2>8. <<c, d>>[2] > 0 /\ 20000 * <<c, d>>[1] >= 5999 * <<c, d>>[2]
    BY <2>3, <1>29
  <2> QED BY <2>1, <2>4, <2>7, <2>8
<1>35. ASSUME initial # NoNumber, NEW f \in Falls, f[2] > 0, 10 * f[1] >= 3 * f[2]
       PROVE  m.share # NoNumber /\ m.share >= 3000
  BY <1>30, <1>31, <1>32, <1>35
<1>36. "praise" \in Says(m) =>
         /\ Total(Traded) >= 0
         /\ PaidIn # NoNumber => \A f \in Falls : f[2] > 0 => 10 * f[1] < f[2]
  BY <1>2, <1>6, <1>26, <1>27, <1>33
<1>37. "halt" \in Says(m) =>
         /\ "trust" \in Says(m)
         /\ PaidIn # NoNumber /\ \E f \in Falls : f[2] > 0 /\ 20000 * f[1] >= 5999 * f[2]
  BY <1>6, <1>26, <1>34
<1>38. PaidIn # NoNumber /\ (\E f \in Falls : f[2] > 0 /\ 10 * f[1] >= 3 * f[2]) =>
         "halt" \in Says(m)
  BY <1>6, <1>26, <1>35
<1> QED BY <1>17, <1>25, <1>36, <1>37, <1>38

(* The printed amounts and the counted rows lead to one factor *)
LEMMA PathsAgree ==
  ASSUME reading.rows \in Tables, reading.summary \in Summaries
  PROVE  TwoPathsAgree
<1>1. SUFFICES ASSUME Traded # <<>>, reading.summary.factor = NoNumber,
                      reading.summary.profit = Counted(reading).profit,
                      reading.summary.loss \in {Counted(reading).loss, -Counted(reading).loss}
               PROVE  Metrics(reading).factor = Counted(reading).factor
  BY DEF TwoPathsAgree
<1>2. PICK won \in Nat, lost \in Nat :
        /\ Counted(reading).profit = won /\ Counted(reading).loss = lost
        /\ Counted(reading).factor = IF lost > 0 THEN FactorOf(won, lost, reading.ties) ELSE NoNumber
  BY <1>1, WhatIsCounted
<1>3. PICK loss \in Int : /\ loss = reading.summary.loss /\ (loss = lost \/ loss = -lost)
  BY <1>1, <1>2
<1>4. Absolute(loss) = lost /\ (loss = 0 <=> ~(lost > 0))
  BY <1>3 DEF Absolute
<1>5. won # NoNumber /\ loss # NoNumber
  BY MediaAssumption
<1>6. Metrics(reading) = Printed(reading)
  BY <1>1, <1>2, <1>3, <1>5 DEF Metrics, HasSummary
<1>7. Printed(reading).factor = IF loss = 0 THEN NoNumber
                                ELSE FactorOf(won, Absolute(loss), reading.ties)
  BY <1>1, <1>2, <1>3 DEF Printed
<1> QED BY <1>2, <1>4, <1>6, <1>7

(* The footer counts neither as a trade nor as a payment *)
LEMMA FooterIsSkipped ==
  ASSUME NEW rows \in Tables, NEW footer \in Footers
  PROVE  /\ Trades(Append(rows, footer), TRUE) = Trades(rows, TRUE)
         /\ Deposit(Append(rows, footer), TRUE) = Deposit(rows, TRUE)
<1> DEFINE more == Append(rows, footer)
           S == TableRows \union Footers
           traded(t) == {k \in DOMAIN t : Kind(t[k], TRUE) = "trade"}
           paid(t) == {k \in DOMAIN t : Kind(t[k], TRUE) = "balance" /\ t[k].profit > 0}
<1>1. rows \in Seq(TableRows)
  BY MediaAssumption
<1>2. PICK n \in Nat : n = Len(rows) /\ DOMAIN rows = 1..n
  BY <1>1, LenProperties
<1>3. rows \in Seq(S)
  <2>1. \A k \in 1..n : rows[k] \in S
    BY <1>1, <1>2, ElementOfSeq
  <2> HIDE DEF S
  <2> QED BY <1>1, <1>2, <2>1, IsASeq
<1>4. /\ DOMAIN more = 1..(n + 1) /\ more[n + 1] = footer
      /\ \A k \in 1..n : more[k] = rows[k]
  <2>1. footer \in S
    OBVIOUS
  <2> HIDE DEF S
  <2> QED BY <1>2, <1>3, <2>1, AppendProperties, LenProperties
<1>5. Kind(footer, TRUE) = "skipped"
  <2>1. footer.type # "trade" /\ footer.type # "balance"
    BY MediaAssumption
  <2> QED BY <2>1 DEF Kind
<1>6. \A k \in DOMAIN more : Kind(more[k], TRUE) # "skipped" => k \in 1..n /\ more[k] = rows[k]
  <2> HIDE DEF more
  <2>1. \A k \in 1..(n + 1) : k \in 1..n \/ k = n + 1
    OBVIOUS
  <2> QED BY <2>1, <1>4, <1>5
<1>7. \A k \in 1..n : k \in DOMAIN more /\ more[k] = rows[k]
  <2> HIDE DEF more
  <2> QED BY <1>4
<1> HIDE DEF more
<1>8. traded(more) = traded(rows) /\ paid(more) = paid(rows)
  <2>1. \A k : k \in traded(more) <=> k \in traded(rows)
    BY <1>2, <1>6, <1>7
  <2>2. \A k : k \in paid(more) <=> k \in paid(rows)
    BY <1>2, <1>6, <1>7
  <2> HIDE DEF traded, paid
  <2> QED BY <2>1, <2>2
<1>9. Len(rows) + 1 \notin traded(rows)
  <2>1. n + 1 \notin 1..n
    OBVIOUS
  <2>2. \A k : k \in traded(rows) => k \in 1..n
    BY <1>2
  <2> HIDE DEF traded
  <2> QED BY <2>1, <2>2, <1>2
<1>10. Trades(more, TRUE) = Trades(rows, TRUE)
  <2>1. Trades(more, TRUE) = Chosen(more, traded(more)) /\ Trades(rows, TRUE) = Chosen(rows, traded(rows))
    BY DEF Trades
  <2>2. footer \in S
    OBVIOUS
  <2> HIDE DEF traded, S
  <2>3. Chosen(more, traded(rows)) = Chosen(rows, traded(rows))
    BY <1>3, <1>9, <2>2, WhatIsNotChosen DEF more
  <2> QED BY <1>8, <2>1, <2>3
<1>11. Deposit(more, TRUE) = Deposit(rows, TRUE)
  <2>1. PICK first : first = Min(paid(rows))
    OBVIOUS
  <2>2. Deposit(rows, TRUE) = IF paid(rows) = {} THEN NoNumber ELSE rows[first].profit
    BY <2>1 DEF Deposit
  <2>3. Deposit(more, TRUE) = IF paid(rows) = {} THEN NoNumber ELSE more[first].profit
    <3>1. Deposit(more, TRUE) = IF paid(more) = {} THEN NoNumber ELSE more[Min(paid(more))].profit
      BY DEF Deposit
    <3> HIDE DEF paid
    <3> QED BY <1>8, <2>1, <3>1
  <2>4. paid(rows) # {} => first \in 1..n
    <3>1. paid(rows) \in SUBSET (1..n)
      BY <1>2
    <3> HIDE DEF paid
    <3> QED BY <2>1, <3>1, LowestPlace
  <2> HIDE DEF paid, more
  <2>5. CASE paid(rows) = {}
    BY <2>2, <2>3, <2>5
  <2>6. CASE paid(rows) # {}
    <3>1. more[first] = rows[first]
      BY <1>7, <2>4, <2>6
    <3> QED BY <2>2, <2>3, <2>6, <3>1
  <2> QED BY <2>5, <2>6
<1> QED BY <1>10, <1>11 DEF more

(* So what the terminal adds under the trades changes no figure *)
LEMMA TotalsAreSkipped ==
  ASSUME NEW rows \in Tables, NEW footer \in Footers, NEW typed, NEW summary, NEW ties,
         reading = [of |-> "statement", rows |-> rows, typed |-> typed, summary |-> summary,
                    footer |-> footer, ties |-> ties]
  PROVE  TotalsDoNotCount
<1>1. SUFFICES ASSUME typed
               PROVE  Metrics([reading EXCEPT !.rows = Append(@, footer)]) = Metrics(reading)
  BY DEF TotalsDoNotCount
<1>2. PICK more : more = [reading EXCEPT !.rows = Append(@, footer)]
  OBVIOUS
<1>3. /\ more.rows = Append(rows, footer) /\ more.typed = typed
      /\ more.summary = summary /\ more.ties = ties
      /\ reading.rows = rows /\ reading.typed = typed
      /\ reading.summary = summary /\ reading.ties = ties
  BY <1>2
<1>4. /\ Trades(Append(rows, footer), typed) = Trades(rows, typed)
      /\ Deposit(Append(rows, footer), typed) = Deposit(rows, typed)
  <2>1. typed = TRUE
    BY <1>1
  <2> QED BY <2>1, FooterIsSkipped
<1>5. Counted(more) = Counted(reading)
  BY <1>3, <1>4 DEF Counted
<1>6. Printed(more) = Printed(reading)
  BY <1>3 DEF Printed
<1> QED BY <1>2, <1>3, <1>5, <1>6 DEF Metrics

(* The columns of a sheet *)
LEMMA PaddedRow ==
  ASSUME NEW S, EmptyCell \in S, NEW row \in Seq(S), NEW index \in Nat
  PROVE  /\ Padded(row, index) \in Seq(S)
         /\ Len(Padded(row, index)) = IF Len(row) < index THEN index ELSE Len(row)
         /\ \A k \in 1..Len(row) : Padded(row, index)[k] = row[k]
<1>1. PICK n \in Nat : n = Len(row)
  BY LenProperties
<1>2. PICK m \in Nat : m = IF n < index THEN index - n ELSE 0
  <2>1. (IF n < index THEN index - n ELSE 0) \in Nat
    OBVIOUS
  <2> QED BY <2>1
<1>3. PICK blank : blank = [k \in 1..m |-> EmptyCell]
  OBVIOUS
<1>4. blank \in Seq(S) /\ Len(blank) = m
  BY <1>3, IsASeq
<1>5. Padded(row, index) = row \o blank
  BY <1>1, <1>2, <1>3 DEF Padded
<1>6. /\ row \o blank \in Seq(S) /\ Len(row \o blank) = n + m
      /\ \A k \in 1..n : (row \o blank)[k] = row[k]
  <2>1. /\ row \o blank \in Seq(S) /\ Len(row \o blank) = Len(row) + Len(blank)
        /\ \A k \in 1..Len(row) + Len(blank) :
             (row \o blank)[k] = IF k <= Len(row) THEN row[k] ELSE blank[k - Len(row)]
    BY <1>4, ConcatProperties
  <2> QED BY <2>1, <1>1, <1>4
<1>7. n + m = IF n < index THEN index ELSE n
  BY <1>2
<1> QED BY <1>1, <1>5, <1>6, <1>7

(* The rows that grow cell by cell *)
IsLaid(row, cells, n, S) ==
  /\ row \in [0..n -> Seq(S)] /\ row[0] = <<>> /\ LayOut(cells) = row[n]
  /\ \A k \in 1..n : row[k] = Laid(row[k - 1], cells[k])

(* The recursion that lays them out is a function *)
LEMMA RowsAreLaid ==
  ASSUME NEW cells, NEW n \in Nat, Len(cells) = n, NEW S, EmptyCell \in S,
         \A k \in 1..n : cells[k][1] \in Nat /\ cells[k][2] \in S
  PROVE  \E row : IsLaid(row, cells, n, S)
<1> DEFINE row[k \in 0..Len(cells)] == IF k = 0 THEN <<>> ELSE Laid(row[k - 1], cells[k])
           Body(f, k) == IF k = 0 THEN <<>> ELSE Laid(f[k - 1], cells[k])
           RowLists == Seq(S)
           step == [p \in (1..n) \X RowLists |-> Laid(p[2], cells[p[1]])]
<1>1. LayOut(cells) = row[n]
  BY DEF LayOut
<1>2. row = CHOOSE f : f = [k \in 0..n |-> Body(f, k)]
  OBVIOUS
<1> HIDE DEF row
<1>3. <<>> \in RowLists /\ \A s \in RowLists, k \in 1..n : Laid(s, cells[k]) \in RowLists
  <2>1. ASSUME NEW s \in RowLists, NEW k \in 1..n PROVE Laid(s, cells[k]) \in RowLists
    <3>1. PICK index \in Nat : index = cells[k][1]
      OBVIOUS
    <3>2. PICK padded \in Seq(S) : padded = Padded(s, index)
      BY PaddedRow
    <3>3. Append(padded, cells[k][2]) \in Seq(S)
      BY AppendProperties
    <3> QED BY <3>1, <3>2, <3>3 DEF Laid
  <2> QED BY <2>1, EmptySeq
<1> HIDE DEF RowLists
<1>4. PICK f : Follows(f, step, <<>>, n, RowLists)
  <2>1. IsStep(step, n, RowLists)
    BY <1>3 DEF IsStep
  <2> HIDE DEF step
  <2> QED BY <1>3, <2>1, Recursion
<1>5. f = [k \in 0..n |-> Body(f, k)]
  <2>1. f \in [0..n -> RowLists] /\ f[0] = <<>> /\ \A k \in 1..n : f[k] = step[<<k, f[k - 1]>>]
    <3> HIDE DEF step
    <3> QED BY <1>4 DEF Follows
  <2>2. \A k \in 1..n : k - 1 \in 0..n
    OBVIOUS
  <2>3. \A k \in 1..n : step[<<k, f[k - 1]>>] = Laid(f[k - 1], cells[k])
    BY <2>1, <2>2
  <2> HIDE DEF step
  <2>4. \A k \in 1..n : f[k] = Laid(f[k - 1], cells[k])
    BY <2>1, <2>3
  <2>5. \A k \in 0..n : k = 0 \/ k \in 1..n
    OBVIOUS
  <2>6. \A k \in 0..n : f[k] = Body(f, k)
    BY <2>1, <2>4, <2>5
  <2> HIDE DEF Body
  <2> QED BY <2>1, <2>6
<1>6. row = [k \in 0..n |-> Body(row, k)]
  <2> HIDE DEF Body
  <2> QED BY <1>2, <1>5
<1>7. row[0] = <<>> /\ \A k \in 1..n : row[k] = Laid(row[k - 1], cells[k])
  <2>1. \A k \in 0..n : row[k] = Body(row, k)
    <3> HIDE DEF Body
    <3> QED BY <1>6
  <2>2. 0 \in 0..n /\ \A k \in 1..n : k \in 0..n /\ k # 0
    OBVIOUS
  <2> QED BY <2>1, <2>2
<1>8. \A k \in 0..n : row[k] \in RowLists
  <2>1. \A k \in 1..n : row[k - 1] \in RowLists => row[k] \in RowLists
    BY <1>3, <1>7
  <2>2. row[0] \in RowLists
    BY <1>3, <1>7
  <2> QED BY <2>1, <2>2, StaysIn
<1>9. row \in [0..n -> RowLists]
  <2> HIDE DEF Body
  <2> QED BY <1>6, <1>8
<1> QED BY <1>1, <1>7, <1>9 DEF IsLaid, RowLists

(* The columns of the cells increase, not only from one to the next *)
LEMMA ColumnsIncrease ==
  ASSUME NEW n \in Nat, NEW column \in [1..n -> Nat],
         \A k \in 2..n : column[k - 1] < column[k]
  PROVE  \A j \in 1..n : \A i \in 1..(j - 1) : column[i] < column[j]
<1> DEFINE P == {j \in 0..n : \A i \in 1..(j - 1) : column[i] < column[j]}
<1>1. 0 \in P
  OBVIOUS
<1>2. ASSUME NEW j \in 1..n, j - 1 \in P PROVE j \in P
  <2> SUFFICES ASSUME NEW i \in 1..(j - 1) PROVE column[i] < column[j]
    OBVIOUS
  <2>1. j \in 2..n
    OBVIOUS
  <2>2. column[j - 1] < column[j] /\ column[j - 1] \in Nat /\ column[j] \in Nat /\ column[i] \in Nat
    BY <2>1
  <2>3. CASE i = j - 1
    BY <2>2, <2>3
  <2>4. CASE i # j - 1
    <3>1. i \in 1..((j - 1) - 1)
      BY <2>4
    <3>2. column[i] < column[j - 1]
      BY <1>2, <3>1
    <3> QED BY <3>2, <2>2
  <2> QED BY <2>3, <2>4
<1>3. P \in SUBSET (0..n)
  OBVIOUS
<1>4. P = 0..n
  <2> HIDE DEF P
  <2> QED BY <1>1, <1>2, <1>3, PlaceInduction
<1>5. \A j \in 1..n : j \in P
  <2> HIDE DEF P
  <2> QED BY <1>4
<1> QED BY <1>5


(* No cell leaves its column, whatever follows it *)
Placed(row, cells, k) ==
  /\ Len(row) <= MaxColumns
  /\ \A i \in (k + 1)..Len(cells) : Len(row) <= cells[i][1]
  /\ \A i \in 1..k : cells[i][1] < MaxColumns =>
       cells[i][1] + 1 \in 1..Len(row) /\ row[cells[i][1] + 1] = cells[i][2]

(* A cell that was laid out is not moved by any that follows *)
LEMMA CellsStay ==
  ASSUME NEW cells \in CellRows
  PROVE  Placed(LayOut(cells), cells, Len(cells))
<1>1. PICK n \in Nat : n = Len(cells) /\ DOMAIN cells = 1..n
  BY MediaAssumption
<1>2. PICK column : column = [k \in 1..n |-> cells[k][1]]
  OBVIOUS
<1>3. PICK content : content = [k \in 1..n |-> cells[k][2]]
  OBVIOUS
<1>4. PICK S : S = {EmptyCell} \union {content[k] : k \in 1..n}
  OBVIOUS
<1>5. column \in [1..n -> Nat] /\ \A k \in 2..n : column[k - 1] < column[k]
  BY <1>1, <1>2, MediaAssumption
<1>6. \A j \in 1..n : \A i \in 1..(j - 1) : column[i] < column[j]
  BY <1>5, ColumnsIncrease
<1>7. EmptyCell \in S /\ \A k \in 1..n : cells[k][1] = column[k] /\ cells[k][2] = content[k]
                                    /\ column[k] \in Nat /\ content[k] \in S
  BY <1>2, <1>3, <1>4, <1>5
<1>8. PICK row : IsLaid(row, cells, n, S)
  BY <1>1, <1>7, RowsAreLaid
<1>9. PICK max \in Nat : max = MaxColumns
  BY MediaAssumption
<1> DEFINE Fits(r, k) ==
             /\ r \in Seq(S) /\ Len(r) <= max
             /\ \A i \in (k + 1)..n : Len(r) <= column[i]
             /\ \A i \in 1..k : column[i] < max =>
                  column[i] + 1 \in 1..Len(r) /\ r[column[i] + 1] = content[i]
           P == {k \in 0..n : Fits(row[k], k)}
<1>10. 0 \in P
  <2>1. row[0] \in Seq(S) /\ Len(row[0]) = 0
    BY <1>8, EmptySeq DEF IsLaid
  <2>2. \A i \in (0 + 1)..n : column[i] \in Nat
    BY <1>5
  <2>3. Fits(row[0], 0)
    BY <2>1, <2>2, <1>9
  <2> QED BY <2>3
<1>11. ASSUME NEW k \in 1..n, k - 1 \in P PROVE k \in P
  <2>1. PICK old : old = row[k - 1]
    OBVIOUS
  <2>2. Fits(old, k - 1)
    BY <2>1, <1>11
  <2>3. PICK c \in Nat : c = column[k]
    BY <1>5
  <2>4. row[k] = IF c >= max THEN old ELSE Append(Padded(old, c), content[k])
    BY <1>7, <1>8, <1>9, <2>1, <2>3 DEF IsLaid, Laid
  <2>5. Len(old) \in Nat /\ Len(old) <= max /\ Len(old) <= c
    <3>1. k \in ((k - 1) + 1)..n
      OBVIOUS
    <3>2. Len(old) \in Nat
      BY <2>2, LenProperties
    <3> QED BY <3>1, <3>2, <2>2, <2>3
  <2>6. \A i \in (k + 1)..n : i \in ((k - 1) + 1)..n /\ c < column[i] /\ column[i] \in Nat
    <3> SUFFICES ASSUME NEW i \in (k + 1)..n
                 PROVE  i \in ((k - 1) + 1)..n /\ c < column[i] /\ column[i] \in Nat
      OBVIOUS
    <3>1. i \in 1..n /\ k \in 1..(i - 1) /\ i \in ((k - 1) + 1)..n
      OBVIOUS
    <3> QED BY <3>1, <1>5, <1>6, <2>3
  <2>7. \A i \in 1..k : i = k \/ i \in 1..(k - 1)
    OBVIOUS
  <2>8. CASE c >= max
    <3>1. row[k] = old
      BY <2>4, <2>8
    <3>2. \A i \in 1..k : column[i] < max => i \in 1..(k - 1)
      BY <2>3, <2>7, <2>8, <1>9
    <3>3. Fits(old, k)
      <4>1. \A i \in (k + 1)..n : Len(old) <= column[i]
        BY <2>2, <2>6
      <4>2. \A i \in 1..k : column[i] < max =>
              column[i] + 1 \in 1..Len(old) /\ old[column[i] + 1] = content[i]
        BY <2>2, <3>2
      <4> QED BY <4>1, <4>2, <2>2
    <3> HIDE DEF Fits
    <3> QED BY <3>1, <3>3
  <2>9. CASE c < max
    <3>1. PICK padded : padded = Padded(old, c)
      OBVIOUS
    <3>2. /\ padded \in Seq(S) /\ Len(padded) = c
          /\ \A j \in 1..Len(old) : padded[j] = old[j]
      <4>1. /\ padded \in Seq(S) /\ Len(padded) = (IF Len(old) < c THEN c ELSE Len(old))
            /\ \A j \in 1..Len(old) : padded[j] = old[j]
        BY <1>7, <2>2, <3>1, PaddedRow
      <4> QED BY <4>1, <2>5
    <3>3. PICK new : new = Append(padded, content[k])
      OBVIOUS
    <3>4. /\ new \in Seq(S) /\ Len(new) = c + 1 /\ new[c + 1] = content[k]
          /\ \A j \in 1..c : new[j] = padded[j]
      BY <1>7, <3>2, <3>3, AppendProperties
    <3>5. row[k] = new
      BY <2>3, <2>4, <2>9, <3>1, <3>3, <1>9
    <3>6. \A i \in (k + 1)..n : Len(new) <= column[i]
      BY <2>6, <3>4
    <3>7. \A i \in 1..k : column[i] < max =>
            column[i] + 1 \in 1..Len(new) /\ new[column[i] + 1] = content[i]
      <4> SUFFICES ASSUME NEW i \in 1..k, column[i] < max
                   PROVE  column[i] + 1 \in 1..Len(new) /\ new[column[i] + 1] = content[i]
        OBVIOUS
      <4>1. CASE i = k
        <5>1. c + 1 \in 1..(c + 1)
          OBVIOUS
        <5>2. column[i] = c /\ content[i] = content[k]
          BY <4>1, <2>3
        <5> QED BY <5>1, <5>2, <3>4
      <4>2. CASE i \in 1..(k - 1)
        <5>1. column[i] + 1 \in 1..Len(old) /\ old[column[i] + 1] = content[i]
          BY <4>2, <2>2
        <5>2. column[i] + 1 \in 1..c /\ column[i] + 1 \in 1..(c + 1)
          BY <5>1, <2>5
        <5> QED BY <5>1, <5>2, <3>2, <3>4
      <4> QED BY <4>1, <4>2, <2>7
    <3>8. Fits(new, k)
      BY <3>4, <3>6, <3>7, <2>9
    <3> HIDE DEF Fits
    <3> QED BY <3>5, <3>8
  <2> QED BY <2>3, <2>8, <2>9
<1>12. P \in SUBSET (0..n)
  OBVIOUS
<1>13. n \in P
  <2> HIDE DEF P
  <2>1. P = 0..n
    BY <1>10, <1>11, <1>12, PlaceInduction
  <2> QED BY <2>1
<1>14. row[n] = LayOut(cells) /\ Fits(row[n], n)
  BY <1>8, <1>13 DEF IsLaid
<1>15. \A i \in (n + 1)..n : FALSE
  OBVIOUS
<1>16. PICK laid : laid = LayOut(cells)
  OBVIOUS
<1>17. /\ Len(laid) <= max
       /\ \A i \in 1..n : column[i] < max =>
            column[i] + 1 \in 1..Len(laid) /\ laid[column[i] + 1] = content[i]
  BY <1>14, <1>16
<1>18. \A i \in 1..n : cells[i][1] < MaxColumns =>
         cells[i][1] + 1 \in 1..Len(laid) /\ laid[cells[i][1] + 1] = cells[i][2]
  BY <1>7, <1>9, <1>17
<1>19. Len(laid) <= MaxColumns
  BY <1>9, <1>17
<1>20. \A i \in (n + 1)..n : Len(laid) <= cells[i][1]
  BY <1>15
<1> HIDE DEF Fits, P
<1>21. Placed(laid, cells, n)
  BY <1>1, <1>18, <1>19, <1>20 DEF Placed
<1> QED BY <1>1, <1>16, <1>21

(* So every cell of a sheet is in its column *)
LEMMA CellsAreInColumns ==
  ASSUME reading.cells \in CellRows
  PROVE  ColumnsStay
<1>1. PICK cells \in CellRows : cells = reading.cells
  OBVIOUS
<1>2. DOMAIN cells = 1..Len(cells)
  BY MediaAssumption
<1>3. Placed(LayOut(cells), cells, Len(cells))
  BY CellsStay
<1> QED BY <1>1, <1>2, <1>3 DEF ColumnsStay, Placed

(* Numbers in groups of digits *)
Group == Int \X (1..6)
Scale(g) == TenTo[g[2]]

Glues(number, groups, n) ==
  /\ number \in [0..n -> Int] /\ number[0] = 0 /\ Glue(groups) = number[n]
  /\ \A k \in 1..n : number[k] = number[k - 1] * Scale(groups[k]) + groups[k][1]

(* A group moves what is before it by a power of ten *)
LEMMA ScaleIsANumber ==
  \A g \in Group : Scale(g) \in Int /\ g[1] \in Int
<1> SUFFICES ASSUME NEW g \in Group PROVE Scale(g) \in Int /\ g[1] \in Int
  OBVIOUS
<1>1. g[1] \in Int /\ g[2] \in 1..6
  BY DEF Group
<1>2. \A k \in 1..6 : TenTo[k] \in Int
  BY DEF TenTo
<1> QED BY <1>1, <1>2 DEF Scale

(* The recursion that glues them is a function *)
LEMMA GroupsAreGlued ==
  ASSUME NEW groups, NEW n \in Nat, Len(groups) = n, \A k \in 1..n : groups[k] \in Group
  PROVE  \E number : Glues(number, groups, n)
<1> DEFINE number[k \in 0..Len(groups)] ==
             IF k = 0 THEN 0 ELSE number[k - 1] * TenTo[groups[k][2]] + groups[k][1]
           Body(f, k) == IF k = 0 THEN 0 ELSE f[k - 1] * Scale(groups[k]) + groups[k][1]
           Ints == Int
           step == [p \in (1..n) \X Ints |-> p[2] * Scale(groups[p[1]]) + groups[p[1]][1]]
<1>1. Glue(groups) = number[n]
  BY DEF Glue
<1>2. number = CHOOSE f : f = [k \in 0..n |-> Body(f, k)]
  BY DEF Scale
<1> HIDE DEF number
<1>3. \A s \in Ints, k \in 1..n : s * Scale(groups[k]) + groups[k][1] \in Ints
  <2> SUFFICES ASSUME NEW s \in Ints, NEW k \in 1..n
               PROVE  s * Scale(groups[k]) + groups[k][1] \in Ints
    OBVIOUS
  <2>1. PICK t \in Int : t = Scale(groups[k])
    BY ScaleIsANumber
  <2>2. PICK v \in Int : v = groups[k][1]
    BY ScaleIsANumber
  <2>3. s * t + v \in Int
    OBVIOUS
  <2> QED BY <2>1, <2>2, <2>3
<1>4. PICK f : Follows(f, step, 0, n, Ints)
  <2>1. 0 \in Ints
    OBVIOUS
  <2> HIDE DEF Ints
  <2>2. IsStep(step, n, Ints)
    BY <1>3 DEF IsStep
  <2> HIDE DEF step
  <2> QED BY <2>1, <2>2, Recursion
<1> HIDE DEF Ints
<1>5. f = [k \in 0..n |-> Body(f, k)]
  <2>1. f \in [0..n -> Ints] /\ f[0] = 0 /\ \A k \in 1..n : f[k] = step[<<k, f[k - 1]>>]
    <3> HIDE DEF step
    <3> QED BY <1>4 DEF Follows
  <2>2. \A k \in 1..n : k - 1 \in 0..n
    OBVIOUS
  <2>3. \A k \in 1..n : step[<<k, f[k - 1]>>] = f[k - 1] * Scale(groups[k]) + groups[k][1]
    BY <2>1, <2>2
  <2> HIDE DEF step
  <2>4. \A k \in 1..n : f[k] = f[k - 1] * Scale(groups[k]) + groups[k][1]
    BY <2>1, <2>3
  <2>5. \A k \in 0..n : k = 0 \/ k \in 1..n
    OBVIOUS
  <2>6. \A k \in 0..n : f[k] = Body(f, k)
    BY <2>1, <2>4, <2>5
  <2> HIDE DEF Body
  <2> QED BY <2>1, <2>6
<1>6. number = [k \in 0..n |-> Body(number, k)]
  <2> HIDE DEF Body
  <2> QED BY <1>2, <1>5
<1>7. /\ number[0] = 0
      /\ \A k \in 1..n : number[k] = number[k - 1] * Scale(groups[k]) + groups[k][1]
  <2>1. \A k \in 0..n : number[k] = Body(number, k)
    <3> HIDE DEF Body
    <3> QED BY <1>6
  <2>2. 0 \in 0..n /\ \A k \in 1..n : k \in 0..n /\ k # 0
    OBVIOUS
  <2> QED BY <2>1, <2>2
<1>8. \A k \in 0..n : number[k] \in Ints
  <2>1. \A k \in 1..n : number[k - 1] \in Ints => number[k] \in Ints
    BY <1>3, <1>7
  <2>2. number[0] \in Ints
    BY <1>7 DEF Ints
  <2> QED BY <2>1, <2>2, StaysIn
<1>9. number \in [0..n -> Ints]
  <2> HIDE DEF Body
  <2> QED BY <1>6, <1>8
<1> QED BY <1>1, <1>7, <1>9 DEF Glues, Ints

(* A group more, and a group alone *)
LEMMA GlueOfOneMore ==
  ASSUME NEW groups \in Seq(Group), NEW g \in Group
  PROVE  /\ Glue(groups) \in Int
         /\ Glue(Append(groups, g)) = Glue(groups) * Scale(g) + g[1]
<1> DEFINE more == Append(groups, g)
<1>1. PICK n \in Nat : n = Len(groups) /\ DOMAIN groups = 1..n
  BY LenProperties
<1>2. /\ Len(more) = n + 1 /\ \A k \in 1..n : more[k] = groups[k]
      /\ more[n + 1] = g /\ \A k \in 1..(n + 1) : more[k] \in Group
  BY <1>1, AppendProperties, ElementOfSeq, LenProperties
<1> HIDE DEF more
<1>3. PICK old : Glues(old, groups, n)
  <2>1. \A k \in 1..n : groups[k] \in Group
    BY <1>1, ElementOfSeq
  <2> QED BY <2>1, <1>1, GroupsAreGlued
<1>4. PICK new : Glues(new, more, n + 1)
  <2>1. n + 1 \in Nat
    BY <1>1
  <2> QED BY <2>1, <1>2, GroupsAreGlued
<1>5. /\ old[0] = new[0] /\ old[n] \in Int
      /\ \A k \in 1..n : old[k] = old[k - 1] * Scale(groups[k]) + groups[k][1]
      /\ \A k \in 1..(n + 1) : new[k] = new[k - 1] * Scale(more[k]) + more[k][1]
      /\ Glue(groups) = old[n] /\ Glue(more) = new[n + 1]
  <2>1. n \in 0..n
    OBVIOUS
  <2> QED BY <2>1, <1>3, <1>4 DEF Glues
<1>6. \A k \in 1..n : old[k - 1] = new[k - 1] => old[k] = new[k]
  <2> SUFFICES ASSUME NEW k \in 1..n, old[k - 1] = new[k - 1] PROVE old[k] = new[k]
    OBVIOUS
  <2>1. k \in 1..(n + 1) /\ more[k] = groups[k]
    BY <1>2
  <2> QED BY <2>1, <1>5
<1>7. \A k \in 0..n : old[k] = new[k]
  <2>1. SameSteps(old, new, n)
    BY <1>5, <1>6 DEF SameSteps
  <2> QED BY <2>1, GoesTheSame
<1>8. new[n + 1] = new[n] * Scale(g) + g[1]
  <2>1. n + 1 \in 1..(n + 1) /\ (n + 1) - 1 = n
    BY <1>1
  <2> QED BY <2>1, <1>2, <1>5
<1>9. n \in 0..n
  OBVIOUS
<1> QED BY <1>5, <1>7, <1>8, <1>9 DEF more

LEMMA GlueOfOne ==
  ASSUME NEW g \in Group
  PROVE  <<g>> \in Seq(Group) /\ Len(<<g>>) = 1 /\ Glue(<<g>>) = g[1]
<1>1. <<g>> \in Seq(Group) /\ Len(<<g>>) = 1 /\ <<g>>[1] = g
  OBVIOUS
<1>2. PICK s \in Seq(Group) : s = <<g>>
  BY <1>1
<1>3. Len(s) = 1 /\ \A k \in 1..1 : s[k] \in Group
  BY <1>1, <1>2
<1>4. PICK number : Glues(number, s, 1)
  BY <1>3, GroupsAreGlued
<1>5. 1 \in 1..1 /\ 1 - 1 = 0 /\ s[1] = g
  BY <1>1, <1>2
<1>6. number[1] = number[0] * Scale(g) + g[1] /\ number[0] = 0 /\ Glue(s) = number[1]
  BY <1>4, <1>5 DEF Glues
<1>7. Scale(g) \in Int /\ g[1] \in Int
  BY ScaleIsANumber
<1>8. Glue(s) = g[1]
  BY <1>6, <1>7
<1> QED BY <1>1, <1>2, <1>8

(* The thousands of a whole amount *)
IsWritten(groups, n) ==
  groups \in Seq(Group) /\ Len(groups) \in Nat \ {0} /\ Glue(groups) = n

Grouped(f, n) ==
  IF n < 1000 THEN <<<<n, 3>>>> ELSE Append(f[n \div 1000], <<n % 1000, 3>>)

(* The last three digits of an amount, after those before *)
LEMMA OneMoreGroup ==
  ASSUME NEW i \in Nat, NEW groups, IsWritten(groups, i \div 1000)
  PROVE  IsWritten(Append(groups, <<i % 1000, 3>>), i)
<1>1. PICK r \in Int : r = i % 1000
  OBVIOUS
<1>2. PICK q \in Int : q = i \div 1000
  OBVIOUS
<1>3. i = q * 1000 + r
  BY <1>1, <1>2
<1> DEFINE g == <<r, 3>>
<1>5. g \in Group /\ Scale(g) = 1000 /\ g[1] = r
  <2>1. g[1] = r /\ g[2] = 3 /\ TenTo[3] = 1000
    BY DEF TenTo
  <2>2. g \in Group
    BY DEF Group
  <2> QED BY <2>1, <2>2 DEF Scale
<1> HIDE DEF g
<1>6. groups \in Seq(Group) /\ Glue(groups) = q /\ Len(groups) \in Nat
  BY <1>2 DEF IsWritten
<1>7. Glue(Append(groups, g)) = q * 1000 + r
  BY <1>5, <1>6, GlueOfOneMore
<1>8. Append(groups, g) \in Seq(Group) /\ Len(Append(groups, g)) = Len(groups) + 1
  BY <1>5, <1>6, AppendProperties
<1>9. Len(Append(groups, g)) \in Nat \ {0}
  BY <1>6, <1>8
<1> QED BY <1>1, <1>3, <1>7, <1>8, <1>9 DEF IsWritten, g

(* A whole amount of any size is written in groups that glue to it *)
LEMMA ThousandsAreWritten ==
  ASSUME NEW whole \in Nat
  PROVE  IsWritten(Thousands(whole), whole)
<1> DEFINE groups[n \in 0..whole] ==
             IF n < 1000 THEN <<<<n, 3>>>> ELSE Append(groups[n \div 1000], <<n % 1000, 3>>)
           Upto(f, m) == f = [n \in 0..m |-> Grouped(f, n)]
           P == {m \in 0..whole : \E f : Upto(f, m)}
<1>1. Thousands(whole) = groups[whole]
  BY DEF Thousands
<1>2. groups = CHOOSE f : Upto(f, whole)
  BY DEF Grouped
<1> HIDE DEF groups
<1>3. \A n \in Nat : ~(n < 1000) => n \div 1000 \in 0..(n - 1)
  OBVIOUS
<1>4. 0 \in P
  <2>1. PICK f : f = [n \in 0..0 |-> <<<<n, 3>>>>]
    OBVIOUS
  <2>2. \A n \in 0..0 : Grouped(f, n) = <<<<n, 3>>>>
    BY DEF Grouped
  <2>3. Upto(f, 0)
    BY <2>1, <2>2
  <2> HIDE DEF Upto
  <2>4. 0 \in 0..whole
    OBVIOUS
  <2> QED BY <2>3, <2>4
<1>5. ASSUME NEW m \in 1..whole, m - 1 \in P PROVE m \in P
  <2>1. PICK f : Upto(f, m - 1)
    BY <1>5
  <2>2. PICK top : top = Grouped(f, m)
    OBVIOUS
  <2>3. PICK g : g = [n \in 0..m |-> IF n = m THEN top ELSE f[n]]
    OBVIOUS
  <2>4. \A n \in 0..(m - 1) : g[n] = f[n]
    BY <2>3
  <2>5. \A n \in 0..m : Grouped(g, n) = Grouped(f, n)
    <3> SUFFICES ASSUME NEW n \in 0..m PROVE Grouped(g, n) = Grouped(f, n)
      OBVIOUS
    <3>1. CASE n < 1000
      BY <3>1 DEF Grouped
    <3>2. CASE ~(n < 1000)
      <4>1. n \div 1000 \in 0..(m - 1)
        BY <1>3, <3>2
      <4>2. g[n \div 1000] = f[n \div 1000]
        BY <2>4, <4>1
      <4> QED BY <3>2, <4>2 DEF Grouped
    <3> QED BY <3>1, <3>2
  <2>6. \A n \in 0..(m - 1) : f[n] = Grouped(f, n)
    BY <2>1
  <2>7. \A n \in 0..m : n = m \/ n \in 0..(m - 1)
    OBVIOUS
  <2>8. \A n \in 0..m : g[n] = Grouped(g, n)
    BY <2>2, <2>3, <2>5, <2>6, <2>7
  <2>9. Upto(g, m)
    BY <2>3, <2>8
  <2> HIDE DEF Upto
  <2>10. m \in 0..whole
    OBVIOUS
  <2> QED BY <2>9, <2>10
<1>6. P = 0..whole
  <2>1. P \in SUBSET (0..whole)
    OBVIOUS
  <2> HIDE DEF P
  <2> QED BY <1>4, <1>5, <2>1, PlaceInduction
<1>7. Upto(groups, whole)
  <2> HIDE DEF Upto
  <2>1. whole \in P
    <3>1. whole \in 0..whole
      OBVIOUS
    <3> HIDE DEF P
    <3> QED BY <1>6, <3>1
  <2> QED BY <1>2, <2>1
<1>8. \A n \in 0..whole : groups[n] = Grouped(groups, n)
  BY <1>7
<1> HIDE DEF Upto, P
<1> DEFINE W == {m \in 0..whole : \A i \in 0..m : IsWritten(groups[i], i)}
<1>9. \A i \in 0..whole : i < 1000 => IsWritten(groups[i], i)
  <2> SUFFICES ASSUME NEW i \in 0..whole, i < 1000 PROVE IsWritten(groups[i], i)
    OBVIOUS
  <2> DEFINE g == <<i, 3>>
  <2>2. g \in Group /\ g[1] = i
    BY DEF Group
  <2>3. groups[i] = <<g>>
    <3>1. groups[i] = Grouped(groups, i)
      BY <1>8
    <3> QED BY <3>1 DEF Grouped
  <2> HIDE DEF g
  <2>4. <<g>> \in Seq(Group) /\ Len(<<g>>) = 1 /\ Glue(<<g>>) = i
    BY <2>2, GlueOfOne
  <2> QED BY <2>3, <2>4 DEF IsWritten
<1>10. 0 \in W
  <2>1. \A i \in 0..0 : i \in 0..whole /\ i < 1000
    OBVIOUS
  <2> QED BY <2>1, <1>9
<1>11. ASSUME NEW m \in 1..whole, m - 1 \in W PROVE m \in W
  <2>1. IsWritten(groups[m], m)
    <3>1. CASE m < 1000
      BY <3>1, <1>9
    <3>2. CASE ~(m < 1000)
      <4>1. m \div 1000 \in 0..(m - 1)
        BY <1>3, <3>2
      <4>2. IsWritten(groups[m \div 1000], m \div 1000)
        BY <4>1, <1>11
      <4>3. groups[m] = Append(groups[m \div 1000], <<m % 1000, 3>>)
        <5>1. groups[m] = Grouped(groups, m)
          BY <1>8
        <5> QED BY <5>1, <3>2 DEF Grouped
      <4>4. m \in Nat
        OBVIOUS
      <4> QED BY <4>2, <4>3, <4>4, OneMoreGroup
    <3> QED BY <3>1, <3>2
  <2>2. \A i \in 0..m : i = m \/ i \in 0..(m - 1)
    OBVIOUS
  <2> QED BY <2>1, <2>2, <1>11
<1>12. W = 0..whole
  <2>1. W \in SUBSET (0..whole)
    OBVIOUS
  <2> HIDE DEF W
  <2> QED BY <1>10, <1>11, <2>1, PlaceInduction
<1>13. whole \in W
  <2>1. whole \in 0..whole
    OBVIOUS
  <2> HIDE DEF W
  <2> QED BY <1>12, <2>1
<1>14. whole \in 0..whole
  OBVIOUS
<1> QED BY <1>1, <1>13, <1>14

(* The marks of an amount *)
MarksOf(m, group, point) == [k \in 1..(m - 1) |-> group] \o <<point>>
Points(marks) == Cardinality({k \in DOMAIN marks : marks[k] = "point"})

(* Which mark stands where *)
LEMMA MarksAreLaid ==
  ASSUME NEW m \in Nat \ {0}, NEW group, NEW point
  PROVE  LET marks == MarksOf(m, group, point)
         IN  /\ Len(marks) = m /\ DOMAIN marks = 1..m /\ marks[m] = point
             /\ \A k \in 1..(m - 1) : marks[k] = group
<1> DEFINE before == [k \in 1..(m - 1) |-> group]
           S == {group, point}
<1>1. before \in Seq(S) /\ Len(before) = m - 1 /\ \A k \in 1..(m - 1) : before[k] = group
  OBVIOUS
<1>2. MarksOf(m, group, point) = before \o <<point>>
  BY DEF MarksOf
<1>3. point \in S
  OBVIOUS
<1> HIDE DEF before, S
<1>4. before \o <<point>> = Append(before, point)
  BY <1>1, <1>3, AppendIsConcat
<1>5. /\ Append(before, point) \in Seq(S)
      /\ Len(Append(before, point)) = (m - 1) + 1
      /\ \A k \in 1..(m - 1) : Append(before, point)[k] = before[k]
      /\ Append(before, point)[(m - 1) + 1] = point
  BY <1>1, <1>3, AppendProperties
<1>6. (m - 1) + 1 = m
  OBVIOUS
<1>7. DOMAIN Append(before, point) = 1..m
  BY <1>5, <1>6, LenProperties
<1> QED BY <1>1, <1>2, <1>4, <1>5, <1>6, <1>7

(* How many points are among the marks *)
LEMMA PointsAreCounted ==
  ASSUME NEW m \in Nat \ {0}, NEW group, NEW point
  PROVE  LET marks == MarksOf(m, group, point)
         IN  /\ point = "point" /\ group # "point" => Points(marks) = 1
             /\ point # "point" /\ group = "point" => Points(marks) = m - 1
             /\ point # "point" /\ m = 1 => Points(marks) = 0
             /\ point = "point" /\ m = 1 => Points(marks) = 1
<1>1. PICK marks : marks = MarksOf(m, group, point)
  OBVIOUS
<1>2. /\ DOMAIN marks = 1..m /\ marks[m] = point
      /\ \A k \in 1..(m - 1) : marks[k] = group
  BY <1>1, MarksAreLaid
<1>3. PICK set : set = {k \in DOMAIN marks : marks[k] = "point"}
  OBVIOUS
<1>4. \A k : k \in set <=> k \in 1..m /\ marks[k] = "point"
  BY <1>2, <1>3
<1>5. \A k \in 1..m : k = m \/ k \in 1..(m - 1)
  OBVIOUS
<1>6. m \in 1..m /\ \A k \in 1..(m - 1) : k \in 1..m /\ k # m
  OBVIOUS
<1>7. ASSUME point = "point", group # "point" \/ m = 1 PROVE Cardinality(set) = 1
  <2>1. \A k \in 1..(m - 1) : marks[k] # "point"
    BY <1>2, <1>7
  <2>2. \A k : k \in set <=> k = m
    BY <1>2, <1>4, <1>5, <1>6, <1>7, <2>1
  <2>3. set = {m}
    BY <2>2
  <2> QED BY <2>3, FS_Singleton
<1>8. ASSUME point # "point", group = "point" PROVE Cardinality(set) = m - 1
  <2>1. \A k : k \in set <=> k \in 1..(m - 1)
    BY <1>2, <1>4, <1>5, <1>6, <1>8
  <2>2. set = 1..(m - 1)
    BY <2>1
  <2>3. 1 \in Int /\ m - 1 \in Int
    OBVIOUS
  <2>4. Cardinality(1..(m - 1)) = IF 1 > m - 1 THEN 0 ELSE (m - 1) - 1 + 1
    BY <2>3, FS_Interval
  <2> QED BY <2>2, <2>4
<1>9. ASSUME point # "point", m = 1 PROVE Cardinality(set) = 0
  <2>1. \A k : k \notin set
    BY <1>2, <1>4, <1>5, <1>9
  <2>2. set = {}
    BY <2>1
  <2> QED BY <2>2, FS_EmptySet
<1> QED BY <1>1, <1>3, <1>7, <1>8, <1>9 DEF Points

(* An amount is read as it was written, in every style *)
LEMMA AmountIsRead ==
  ASSUME NEW n \in Nat, NEW style \in NumberStyles, NEW negative \in BOOLEAN
  PROVE  ParseNumber(Spelled(n, style[1], style[2], negative)) = IF negative THEN -n ELSE n
<1>1. PICK group, point : style = <<group, point>> /\ style[1] = group /\ style[2] = point
                          /\ <<group, point>> \in NumberStyles
  BY DEF NumberStyles
<1>2. /\ point = "point" \/ point = "comma"
      /\ group = "comma" \/ group = "point" \/ group = "none"
      /\ group # point
  BY <1>1 DEF NumberStyles
<1>3. PICK whole : whole = IF group = "none" THEN <<<<n \div 100, 6>>>> ELSE Thousands(n \div 100)
  OBVIOUS
<1>4. PICK q \in Nat : q = n \div 100
  OBVIOUS
<1>5. PICK cents \in Int : cents = n % 100
  OBVIOUS
<1>6. n = q * 100 + cents
  BY <1>4, <1>5
<1>7. IsWritten(whole, q) /\ (group = "none" => Len(whole) = 1)
  <2>1. CASE group = "none"
    <3> DEFINE g == <<q, 6>>
    <3>1. g \in Group /\ g[1] = q
      BY DEF Group
    <3>2. whole = <<g>>
      BY <1>3, <1>4, <2>1
    <3> HIDE DEF g
    <3>3. <<g>> \in Seq(Group) /\ Len(<<g>>) = 1 /\ Glue(<<g>>) = q
      BY <3>1, GlueOfOne
    <3> QED BY <3>2, <3>3 DEF IsWritten
  <2>2. CASE group # "none"
    <3>1. whole = Thousands(q)
      BY <1>3, <1>4, <2>2
    <3> QED BY <3>1, <2>2, ThousandsAreWritten
  <2> QED BY <2>1, <2>2
<1>8. PICK m \in Nat \ {0} : m = Len(whole)
  BY <1>7 DEF IsWritten
<1>9. PICK text : text = Spelled(n, group, point, negative)
  OBVIOUS
<1> DEFINE last == <<cents, 2>>
<1>10. text = [negative |-> negative, groups |-> whole \o <<last>>, marks |-> MarksOf(m, group, point)]
  BY <1>3, <1>5, <1>8, <1>9 DEF Spelled, MarksOf
<1>11. last \in Group /\ last[1] = cents /\ last[2] = 2 /\ Scale(last) = 100
  <2>1. last[1] = cents /\ last[2] = 2 /\ TenTo[2] = 100
    BY DEF TenTo
  <2>2. last \in Group
    BY DEF Group
  <2> QED BY <2>1, <2>2 DEF Scale
<1> HIDE DEF last
<1>12. PICK groups : groups = text.groups
  OBVIOUS
<1>13. groups = Append(whole, last)
  <2>1. whole \in Seq(Group)
    BY <1>7 DEF IsWritten
  <2> QED BY <2>1, <1>10, <1>11, <1>12, AppendIsConcat
<1>14. Glue(groups) = n
  <2>1. whole \in Seq(Group) /\ Glue(whole) = q
    BY <1>7 DEF IsWritten
  <2>2. Glue(Append(whole, last)) = q * 100 + cents
    BY <2>1, <1>11, GlueOfOneMore
  <2> QED BY <2>2, <1>6, <1>13
<1>15. groups[Len(groups)] = last
  <2>1. whole \in Seq(Group)
    BY <1>7 DEF IsWritten
  <2> QED BY <2>1, <1>11, <1>13, AppendProperties
<1>16. PICK marks : marks = text.marks
  OBVIOUS
<1>17. marks = MarksOf(m, group, point)
  BY <1>10, <1>16
<1>18. /\ Len(marks) = m /\ DOMAIN marks = 1..m /\ marks[m] = point
       /\ \A k \in 1..(m - 1) : marks[k] = group
  BY <1>17, MarksAreLaid
<1>19. PICK points : points = Points(marks)
  OBVIOUS
<1>20. /\ point = "point" => points = 1
       /\ point = "comma" /\ group = "point" => points = m - 1
       /\ point = "comma" /\ m = 1 => points = 0
  <2>1. group = "none" => m = 1
    BY <1>7, <1>8
  <2>2. group # "point" \/ point # "point"
    BY <1>2
  <2> QED BY <2>2, <1>17, <1>19, PointsAreCounted
<1>21. Range(marks) = IF m = 1 THEN {point} ELSE {group, point}
  <2>1. m \in 1..m /\ \A k \in 1..m : k = m \/ k \in 1..(m - 1)
    OBVIOUS
  <2>2. m # 1 => 1 \in 1..(m - 1) /\ 1 \in 1..m
    OBVIOUS
  <2>3. Range(marks) = {marks[k] : k \in 1..m}
    BY <1>18 DEF Range
  <2>4. CASE m = 1
    <3>1. \A k \in 1..m : marks[k] = point
      BY <2>4, <1>18
    <3> QED BY <2>1, <2>3, <2>4, <3>1
  <2>5. CASE m # 1
    <3>1. marks[1] = group /\ marks[m] = point
      BY <2>2, <2>5, <1>18
    <3>2. \A k \in 1..m : marks[k] = group \/ marks[k] = point
      BY <2>1, <1>18
    <3> QED BY <2>1, <2>2, <2>3, <2>5, <3>1, <3>2
  <2> QED BY <2>4, <2>5
<1>22. PICK commas : commas = m - points
  OBVIOUS
<1>23. PICK ofLast : ofLast = IF point = "point" THEN points ELSE commas
  OBVIOUS
<1>24. PICK decimal : decimal = IF Range(marks) = {"point", "comma"} THEN ofLast
                                ELSE IF Range(marks) = {"point"} THEN points
                                ELSE IF commas = 1 /\ 2 \in 1..2 THEN 1 ELSE 0
  OBVIOUS
<1>25. group = "none" => m = 1
  BY <1>7, <1>8
<1>26. decimal = 1
  <2>1. CASE point = "point"
    <3>1. points = 1 /\ ofLast = 1
      BY <1>20, <1>23, <2>1
    <3>2. m = 1 => Range(marks) = {"point"}
      BY <1>21, <2>1
    <3>3. m # 1 => Range(marks) = {"point", "comma"}
      BY <1>2, <1>21, <1>25, <2>1
    <3> QED BY <1>24, <3>1, <3>2, <3>3
  <2>2. CASE point = "comma" /\ m = 1
    <3>1. points = 0 /\ commas = 1
      BY <1>20, <1>22, <2>2
    <3>2. Range(marks) = {"comma"}
      BY <1>21, <2>2
    <3>3. {"comma"} # {"point", "comma"} /\ {"comma"} # {"point"}
      OBVIOUS
    <3>4. 2 \in 1..2
      OBVIOUS
    <3> QED BY <1>24, <3>1, <3>2, <3>3, <3>4
  <2>3. CASE point = "comma" /\ m # 1
    <3>1. group = "point"
      BY <1>2, <1>25, <2>3
    <3>2. points = m - 1 /\ m \in Nat
      BY <1>20, <2>3, <3>1
    <3>3. commas = 1
      BY <1>22, <3>2
    <3>4. ofLast = 1
      BY <1>23, <2>3, <3>3
    <3>5. Range(marks) = {"point", "comma"}
      BY <1>21, <2>3, <3>1
    <3> QED BY <1>24, <3>4, <3>5
  <2> QED BY <1>2, <2>1, <2>2, <2>3
<1>27. Scaled(groups, 2) = n
  <2>1. ~(2 < 2)
    OBVIOUS
  <2> QED BY <2>1, <1>14 DEF Scaled
<1>28. ParseNumber(text) = IF decimal > 1 THEN NoNumber
                           ELSE IF negative THEN -Scaled(groups, IF decimal = 1 THEN 2 ELSE 0)
                           ELSE Scaled(groups, IF decimal = 1 THEN 2 ELSE 0)
  <2>1. text.groups = groups /\ text.marks = marks /\ text.negative = negative
    BY <1>10, <1>12, <1>16
  <2>2. text.groups[Len(text.groups)][2] = 2
    BY <2>1, <1>11, <1>15
  <2>3. text.marks[Len(text.marks)] = point
    BY <2>1, <1>18
  <2>4. points = Cardinality({k \in DOMAIN text.marks : text.marks[k] = "point"})
    BY <2>1, <1>19 DEF Points
  <2>5. commas = Len(text.marks) - points
    BY <2>1, <1>18, <1>22
  <2> QED BY <2>1, <2>2, <2>3, <2>4, <2>5, <1>23, <1>24 DEF ParseNumber
<1>29. ParseNumber(text) = IF negative THEN -n ELSE n
  <2>1. ~(decimal > 1)
    BY <1>26
  <2>2. (IF decimal = 1 THEN 2 ELSE 0) = 2
    BY <1>26
  <2> QED BY <2>1, <2>2, <1>27, <1>28
<1> QED BY <1>1, <1>9, <1>29

(* The same of the case that is looked at *)
LEMMA AmountsAreReadAsMeant ==
  ASSUME NEW n \in Cents, NEW style \in NumberStyles, NEW negative \in BOOLEAN,
         reading.amount = n, reading.text = Spelled(n, style[1], style[2], negative)
  PROVE  AmountsAreRead
<1>1. n \in Nat
  BY MediaAssumption
<1>2. ParseNumber(reading.text) = IF negative THEN -n ELSE n
  BY <1>1, AmountIsRead
<1>3. reading.text.negative = negative
  BY DEF Spelled
<1> QED BY <1>2, <1>3 DEF AmountsAreRead

(* What is looked at, as the actions leave it *)
MediaTypeOK ==
  \/ reading = [of |-> "nothing"]
  \/ \E rows \in Tables, typed \in BOOLEAN, summary \in Summaries, footer \in Footers,
        ties \in SUBSET {"factor", "fall"} :
       reading = [of |-> "statement", rows |-> rows, typed |-> typed, summary |-> summary,
                  footer |-> footer, ties |-> ties]
  \/ \E cells \in CellRows : reading = [of |-> "sheet", cells |-> cells]
  \/ \E n \in Cents, style \in NumberStyles, negative \in BOOLEAN :
       reading = [of |-> "number", amount |-> n, text |-> Spelled(n, style[1], style[2], negative)]

(* A step looks at one such case *)
LEMMA MediaTypeStays == MediaTypeOK /\ [MediaNext]_mediaVars => MediaTypeOK'
<1> SUFFICES ASSUME MediaTypeOK, [MediaNext]_mediaVars PROVE MediaTypeOK'
  OBVIOUS
<1>1. CASE MediaNext
  <2>1. CASE ReadStatement
    BY <2>1 DEF ReadStatement, MediaTypeOK
  <2>2. CASE ReadSheet
    BY <2>2 DEF ReadSheet, MediaTypeOK
  <2>3. CASE ReadNumber
    BY <2>3 DEF ReadNumber, MediaTypeOK
  <2> QED BY <1>1, <2>1, <2>2, <2>3 DEF MediaNext
<1>2. CASE UNCHANGED mediaVars
  BY <1>2 DEF MediaTypeOK, mediaVars
<1> QED BY <1>1, <1>2

(* What is looked at is read right, case by case *)
LEMMA WhatIsReadIsSound == MediaTypeOK => ReadingIsSound
<1> SUFFICES ASSUME MediaTypeOK PROVE ReadingIsSound
  OBVIOUS
<1>1. CASE reading = [of |-> "nothing"]
  <2>1. reading.of = "nothing"
    BY <1>1
  <2> QED BY <2>1 DEF ReadingIsSound, AdviceFitsTheCurve, TwoPathsAgree, TotalsDoNotCount, ColumnsStay, AmountsAreRead
<1>2. ASSUME NEW rows \in Tables, NEW typed \in BOOLEAN, NEW summary \in Summaries,
             NEW footer \in Footers, NEW ties \in SUBSET {"factor", "fall"},
             reading = [of |-> "statement", rows |-> rows, typed |-> typed, summary |-> summary,
                        footer |-> footer, ties |-> ties]
      PROVE  ReadingIsSound
  <2>1. reading.of = "statement" /\ reading.rows \in Tables /\ reading.summary \in Summaries
    BY <1>2
  <2>2. AdviceFitsTheCurve /\ TwoPathsAgree
    BY <2>1, AdviceFits, PathsAgree
  <2>3. TotalsDoNotCount
    BY <1>2, TotalsAreSkipped
  <2>4. ColumnsStay /\ AmountsAreRead
    BY <2>1 DEF ColumnsStay, AmountsAreRead
  <2> QED BY <2>2, <2>3, <2>4 DEF ReadingIsSound
<1>3. ASSUME NEW cells \in CellRows, reading = [of |-> "sheet", cells |-> cells]
      PROVE  ReadingIsSound
  <2>1. reading.of = "sheet" /\ reading.cells \in CellRows
    BY <1>3
  <2>2. ColumnsStay
    BY <2>1, CellsAreInColumns
  <2>3. AdviceFitsTheCurve /\ TwoPathsAgree /\ TotalsDoNotCount /\ AmountsAreRead
    BY <2>1 DEF AdviceFitsTheCurve, TwoPathsAgree, TotalsDoNotCount, AmountsAreRead
  <2> QED BY <2>2, <2>3 DEF ReadingIsSound
<1>4. ASSUME NEW n \in Cents, NEW style \in NumberStyles, NEW negative \in BOOLEAN,
             reading = [of |-> "number", amount |-> n,
                        text |-> Spelled(n, style[1], style[2], negative)]
      PROVE  ReadingIsSound
  <2>1. /\ reading.of = "number" /\ reading.amount = n
        /\ reading.text = Spelled(n, style[1], style[2], negative)
    BY <1>4
  <2>2. AmountsAreRead
    BY <2>1, AmountsAreReadAsMeant
  <2>3. AdviceFitsTheCurve /\ TwoPathsAgree /\ TotalsDoNotCount /\ ColumnsStay
    BY <2>1 DEF AdviceFitsTheCurve, TwoPathsAgree, TotalsDoNotCount, ColumnsStay
  <2> QED BY <2>2, <2>3 DEF ReadingIsSound
<1> QED BY <1>1, <1>2, <1>3, <1>4 DEF MediaTypeOK

(* Whatever statement, sheet or amount is read: the draw-down that is      *)
(* reported is the worst of the curve and the advice fits it, the rows     *)
(* under the trades change nothing, a cell stays in its column, and an     *)
(* amount is read as it was written, in every style, of any size.          *)
THEOREM ReadingHolds == MediaSpec => []ReadingIsSound
<1>1. MediaInit => MediaTypeOK
  BY DEF MediaInit, MediaTypeOK
<1> QED BY <1>1, MediaTypeStays, WhatIsReadIsSound, PTL DEF MediaSpec
==============================================================================
