-------------------------------- MODULE Panel --------------------------------
(***************************************************************************)
(* The web panel: web/security.py keeps its sessions, web/csrf.py ties a   *)
(* form to the session it was rendered in, access.py limits what a mentor  *)
(* sees and records who opened which conversation, web/app.py serves the   *)
(* pages.  A request is one transaction.  It resolves its session at the   *)
(* start, answers the browser, and only then commits: the code after the   *)
(* yield of _session_dependency runs when the response has been sent (the  *)
(* fastapi that requirements.lock pins).  Others run in between, the next  *)
(* request of the same browser among them, and a commit may fail.          *)
(*                                                                         *)
(* Passwords and hashes are not modelled: who signs in knows the password, *)
(* and a token names one row of panel_sessions.                            *)
(***************************************************************************)
EXTENDS Integers, FiniteSets

CONSTANTS Browsers, Viewers, Chats,
          AccountOf,      \* of a panel user; NoAccount for an admin
          AccountOfChat,
          NoAccount,
          Tokens,
          Nobody,         \* no token, no user, no conversation
          Lifetime,       \* SESSION_LIFETIME in hours
          LastHour,       \* bounds of the model: the hours, and the pages that
          MaxReads        \* are shown

ASSUME PanelAssumption ==
  /\ Nobody \notin Tokens \union Viewers \union Chats
  /\ DOMAIN AccountOf = Viewers /\ DOMAIN AccountOfChat = Chats
  /\ Lifetime \in Nat \ {0} /\ LastHour \in Nat /\ MaxReads \in Nat

VARIABLES signed,      \* panel_sessions by token: [viewer, until, out]
          cookie,      \* of each browser
          page,        \* the page that is open in it: [token, chat]
          request,     \* the request it has sent: [route, token, viewer, chat, form, began]
          closing,     \* its transaction that is answered and not committed
          switch,      \* conversations.assistant_enabled
          audit,       \* audit_log: <<actor, action, target, hour>>
          shown,       \* pages that were ever served: [viewer, chat, token, began]
          unkept,      \* those of them whose transaction failed
          panelHour
panelVars == <<signed, cookie, page, request, closing, switch, audit, shown, unkept, panelHour>>

Never  == LastHour + 1
Idle   == [route |-> "none", token |-> Nobody, viewer |-> Nobody, chat |-> Nobody,
           form |-> Nobody, began |-> 0]
NoPage == [token |-> Nobody, chat |-> Nobody]
Closed == [route |-> "none", token |-> Nobody, viewer |-> Nobody, chat |-> Nobody,
           began |-> 0, at |-> 0, on |-> FALSE]

------------------------------------------------------------------------------
(* resolve_session; no code deactivates a user *)
Live(t) ==
  /\ t # Nobody /\ signed[t].viewer # Nobody
  /\ signed[t].out = Never /\ signed[t].until > panelHour

(* principal_for and _scoped_conversations *)
InScope(v, c) == AccountOf[v] = NoAccount \/ AccountOf[v] = AccountOfChat[c]

\* Fault: the form is not compared with the session.
FormAlwaysFits(r) == TRUE

(* csrf.valid: the field of the form was made from the token of the cookie *)
FormFits(r) == r.form = r.token

PanelInit ==
  /\ signed = [t \in Tokens |-> [viewer |-> Nobody, until |-> 0, out |-> Never]]
  /\ cookie = [b \in Browsers |-> Nobody]
  /\ page = [b \in Browsers |-> NoPage]
  /\ request = [b \in Browsers |-> Idle]
  /\ closing = [b \in Browsers |-> Closed]
  /\ switch = [c \in Chats |-> TRUE]
  /\ audit = {} /\ shown = {} /\ unkept = {} /\ panelHour = 0

(* token_urlsafe: a token that no one has had *)
IsNew(t) ==
  /\ signed[t].viewer = Nobody
  /\ \A b \in Browsers : t \notin {cookie[b], closing[b].token}

(* The response leaves.  A bound of the model: a browser is not answered   *)
(* again before its last transaction has ended.                            *)
Answer(b, r, on) ==
  /\ closing[b] = Closed
  /\ request' = [request EXCEPT ![b] = Idle]
  /\ closing' = [closing EXCEPT ![b] =
       [route |-> r.route, token |-> r.token, viewer |-> r.viewer, chat |-> r.chat,
        began |-> r.began, at |-> panelHour, on |-> on]]

(* authenticate and create_session: the cookie leaves before the row is    *)
(* there; a page that is open stays open                                   *)
SignIn(b, v, t) ==
  /\ request[b] = Idle /\ IsNew(t)
  /\ cookie' = [cookie EXCEPT ![b] = t]
  /\ Answer(b, [route |-> "login", token |-> t, viewer |-> v, chat |-> Nobody,
                began |-> panelHour], FALSE)
  /\ UNCHANGED <<signed, page, switch, audit, shown, unkept, panelHour>>

(* current_viewer; without a session the browser is sent to the log-in     *)
Ask(b, route, c) ==
  /\ request[b] = Idle /\ Live(cookie[b])
  /\ request' = [request EXCEPT ![b] =
       [route |-> route, token |-> cookie[b], viewer |-> signed[cookie[b]].viewer,
        chat |-> c, form |-> page[b].token, began |-> panelHour]]
  /\ UNCHANGED <<signed, cookie, page, closing, switch, audit, shown, unkept, panelHour>>

AskForPage(b) == \E c \in Chats : Ask(b, "page", c)
Submit(b) ==
  \/ page[b].chat # Nobody /\ Ask(b, "switch", page[b].chat)
  \/ page[b] # NoPage /\ Ask(b, "logout", Nobody)

Sight(r) == [viewer |-> r.viewer, chat |-> r.chat, token |-> r.token, began |-> r.began]

(* conversation_detail through access.get_conversation *)
ServePage(b) ==
  LET r == request[b] IN
  /\ r.route = "page" /\ InScope(r.viewer, r.chat)
  /\ Cardinality(shown) < MaxReads
  /\ shown' = shown \union {Sight(r)}
  /\ page' = [page EXCEPT ![b] = [token |-> r.token, chat |-> r.chat]]
  /\ Answer(b, r, FALSE)
  /\ UNCHANGED <<signed, cookie, switch, audit, unkept, panelHour>>

(* toggle_assistant *)
Toggle(b) ==
  LET r == request[b] IN
  /\ r.route = "switch" /\ FormFits(r) /\ InScope(r.viewer, r.chat)
  /\ \E on \in BOOLEAN : Answer(b, r, on)
  /\ UNCHANGED <<signed, cookie, page, switch, audit, shown, unkept, panelHour>>

(* logout: the update waits for the row while another one holds it *)
SignOut(b) ==
  LET r == request[b] IN
  /\ r.route = "logout" /\ FormFits(r)
  /\ \A d \in Browsers : ~(closing[d].route = "logout" /\ closing[d].token = r.token)
  /\ cookie' = [cookie EXCEPT ![b] = Nobody]
  /\ Answer(b, r, FALSE)
  /\ UNCHANGED <<signed, page, switch, audit, shown, unkept, panelHour>>

(* 403, 404 and what fails before the answer: the exception rolls the      *)
(* transaction back before the browser hears of it                         *)
Refuse(b) ==
  /\ request[b] # Idle
  /\ request' = [request EXCEPT ![b] = Idle]
  /\ UNCHANGED <<signed, cookie, page, closing, switch, audit, shown, unkept, panelHour>>

(* What a transaction has written when it commits: access.get_conversation *)
(* records every read, the handlers what they did                          *)
Actions == [page   |-> {"read_conversation"}, switch |-> {"read_conversation", "assistant"},
            login  |-> {"login"},             logout |-> {"logout"}]
Entries(t) == {<<t.viewer, action, t.chat, t.began>> : action \in Actions[t.route]}

SessionAfter(t) ==
  CASE t.route = "login"  -> [viewer |-> t.viewer, until |-> t.at + Lifetime, out |-> Never]
    [] t.route = "logout" /\ signed[t.token].out = Never -> [signed[t.token] EXCEPT !.out = t.at]
    [] OTHER -> signed[t.token]

(* The code after the yield of _session_dependency *)
CommitRequest(b) ==
  LET t == closing[b] IN
  /\ t # Closed
  /\ signed' = [signed EXCEPT ![t.token] = SessionAfter(t)]
  /\ switch' = IF t.route = "switch" THEN [switch EXCEPT ![t.chat] = t.on] ELSE switch
  /\ audit' = audit \union Entries(t)
  /\ closing' = [closing EXCEPT ![b] = Closed]
  /\ UNCHANGED <<cookie, page, request, shown, unkept, panelHour>>

(* The database refuses the commit, or the process ends before it *)
FailToCommit(b) ==
  /\ closing[b] # Closed
  /\ unkept' = IF closing[b].route = "page" THEN unkept \union {Sight(closing[b])} ELSE unkept
  /\ closing' = [closing EXCEPT ![b] = Closed]
  /\ UNCHANGED <<signed, cookie, page, request, switch, audit, shown, panelHour>>

HourPasses ==
  /\ panelHour < LastHour /\ panelHour' = panelHour + 1
  /\ UNCHANGED <<signed, cookie, page, request, closing, switch, audit, shown, unkept>>

PanelNext ==
  \/ \E b \in Browsers :
       \/ \E v \in Viewers, t \in Tokens : SignIn(b, v, t)
       \/ AskForPage(b) \/ Submit(b)
       \/ ServePage(b) \/ Toggle(b) \/ SignOut(b) \/ Refuse(b)
       \/ CommitRequest(b) \/ FailToCommit(b)
  \/ HourPasses

PanelSpec == PanelInit /\ [][PanelNext]_panelVars

------------------------------------------------------------------------------
Recorded(s)  == <<s.viewer, "read_conversation", s.chat, s.began>> \in audit
BeingKept(s) == \E b \in Browsers : closing[b].route = "page" /\ Sight(closing[b]) = s

(* web/app.py:41-42 says that no way is left on which data is read and its *)
(* record is lost.  The record is committed after the page has been sent.  *)
NoReadIsUnrecorded == \A s \in shown : Recorded(s) \/ BeingKept(s)

(* web/app.py:38-50: a page that was shown is in the audit log under the   *)
(* name of the person who saw it, or its transaction is about to commit,   *)
(* or that very transaction failed: nothing else leaves a read unrecorded. *)
(* And that person was signed in when the request began: not before the    *)
(* row of his session was there, not after the log-out, not after twelve   *)
(* hours, and not with another person's cookie.                            *)
EveryReadIsRecorded ==
  \A s \in shown :
    /\ Recorded(s) \/ BeingKept(s) \/ s \in unkept
    /\ InScope(s.viewer, s.chat)
    /\ signed[s.token].viewer = s.viewer
    /\ s.began < signed[s.token].until /\ s.began <= signed[s.token].out

(* web/csrf.py:3: a form works only in the session it was rendered in.     *)
(* Whoever is recorded as having switched an assistant had that very page  *)
(* in front of him; a page that another person left open in the same       *)
(* browser changes nothing, and no switch changes without its record.      *)
FormsAreTheViewers ==
  \A c \in Chats : switch'[c] # switch[c] =>
    \E b \in Browsers :
      /\ closing[b].route = "switch" /\ closing[b].chat = c
      /\ <<closing[b].viewer, "assistant", c, closing[b].began>> \in audit'
      /\ \E s \in shown : /\ s.viewer = closing[b].viewer /\ s.chat = c
                          /\ s.token = closing[b].token

(* Both of every step *)
PanelIsGuarded == [][EveryReadIsRecorded' /\ FormsAreTheViewers]_panelVars

=============================================================================
