--------------------------- MODULE Dashboard_proofs ---------------------------
(***************************************************************************)
(* Theorems about the dashboard: about Console, for any number of          *)
(* accounts, browsers, tabs and requests; at the end, about Reports, for   *)
(* any page and any number of polls under way, transitions and failures.   *)
(***************************************************************************)
EXTENDS Console, Reports, TLAPS

-----------------------------------------------------------------------------
(* Type correctness, part by part.                                         *)

Steps  == {"idle", "sent", "admitted", "checked", "flagged", "found", "answered"}
Sights == Statuses \cup {"none"}
TabRow == [page : Pages, user : Accounts \cup {None}, loading : BOOLEAN, event : Clients \cup {None}, shown : Sights]
Req    == [kind : Kinds, tab : Tabs \cup {None}, by : Accounts \cup {None}, of : Accounts \cup {None}, op : Ops,
           at : Steps, answer : Answers, heard : {"page", "tab", "no"}, sees : Sights]
ReqRow == {q \in Req : q.of \in Subjects(q.kind)}

TypeGateway ==
    /\ registered \subseteq Accounts /\ suspended \subseteq Clients /\ status \in [Clients -> Statuses]
    /\ overtaken \subseteq Requests /\ missed \subseteq Clients
TypeCookies == browser \in [Tabs -> Browsers] /\ cookie \in [Browsers -> Accounts \cup {None}] /\ mixed \in [Tabs -> BOOLEAN]
TypeTabs    == tab \in [Tabs -> TabRow]
TypeReqs    == req \in [Requests -> ReqRow]

LEMMA TypeParts == TypeOK <=> TypeGateway /\ TypeCookies /\ TypeTabs /\ TypeReqs
  BY DEF TypeOK, TypeGateway, TypeCookies, TypeTabs, TypeReqs, TabRow, ReqRow, Req, Steps, Sights

LEMMA PartsNext == TypeGateway' /\ TypeCookies' /\ TypeTabs' /\ TypeReqs' => TypeOK'
  BY DEF TypeOK, TypeGateway, TypeCookies, TypeTabs, TypeReqs, TabRow, ReqRow, Req, Steps, Sights

LEMMA PartsKept ==
  ASSUME TypeOK
  PROVE  /\ UnchangedGateway => TypeGateway'
         /\ UNCHANGED <<browser, cookie, mixed>> => TypeCookies'
         /\ UNCHANGED tab => TypeTabs'
         /\ UNCHANGED req => TypeReqs'
<1> USE TypeParts
<1>1. UnchangedGateway => TypeGateway'
  BY DEF UnchangedGateway, TypeGateway
<1>2. UNCHANGED <<browser, cookie, mixed>> => TypeCookies'
  BY DEF TypeCookies
<1>3. UNCHANGED tab => TypeTabs'
  BY DEF TypeTabs
<1>4. UNCHANGED req => TypeReqs'
  BY DEF TypeReqs
<1> QED
  BY <1>1, <1>2, <1>3, <1>4

LEMMA IdleRow == Idle \in ReqRow
  BY DEF Idle, ReqRow, Req, Kinds, Ops, Steps, Answers, Sights, Subjects

LEMMA BlankRow == ASSUME NEW pg \in Pages PROVE Blank(pg) \in TabRow
  BY DEF Blank, TabRow, Sights

LEMMA TypeInit == Init => TypeOK
<1> SUFFICES ASSUME Init PROVE TypeOK
  OBVIOUS
<1>1. TypeGateway /\ TypeCookies
  BY DEF Init, TypeGateway, TypeCookies, Accounts, Statuses
<1>2. "login" \in Pages
  BY DEF Pages
<1>3. TypeTabs /\ TypeReqs
  BY <1>2, IdleRow, BlankRow DEF Init, TypeTabs, TypeReqs
<1> QED
  BY <1>1, <1>3, TypeParts

LEMMA CookieType == ASSUME TypeOK, NEW t \in Tabs PROVE Cookie(t) \in Accounts \cup {None}
  BY TypeParts DEF TypeCookies, Cookie

LEMMA MiddlewareType == ASSUME NEW c, NEW pg \in Pages PROVE Middleware(c, pg) \in Pages
  BY DEF Middleware, Pages

LEMMA HomeType == ASSUME NEW c PROVE Home(c) \in Pages
  BY DEF Home, Pages

LEMMA SetCookieType ==
  ASSUME TypeOK, NEW t \in Tabs, NEW c \in Accounts \cup {None}, NEW mix \in BOOLEAN, SetCookie(t, c, mix),
     UNCHANGED browser
  PROVE  TypeCookies'
<1>1. cookie' \in [Browsers -> Accounts \cup {None}]
  BY TypeParts DEF SetCookie, TypeCookies
<1>2. mixed' \in [Tabs -> BOOLEAN]
  <2>1. ASSUME NEW s \in Tabs PROVE (IF s = t THEN mix ELSE mixed[s] \/ (s \in Shared(t) /\ c # Cookie(t))) \in BOOLEAN
    BY Zenon
  <2> QED
    BY <2>1, Zenon DEF SetCookie
<1> QED
  BY <1>1, <1>2, TypeParts DEF TypeCookies

LEMMA SentRow ==
  ASSUME TypeOK, NEW t \in Tabs, NEW kind \in Kinds, NEW of \in Subjects(kind), NEW op \in Ops,
         NEW heard \in {"page", "tab", "no"}
  PROVE  Sent(t, kind, of, op, heard) \in ReqRow
<1>1. of \in Accounts \cup {None}
  BY DEF Subjects, Accounts
<1> QED
  BY <1>1, CookieType DEF Sent, ReqRow, Req, Steps, Answers, Sights

LEMMA SendType ==
  ASSUME TypeOK, NEW t \in Tabs, NEW r \in Requests, NEW kind \in Kinds, NEW of \in Subjects(kind), NEW op \in Ops,
         NEW heard \in {"page", "tab", "no"}, Send(t, r, kind, of, op, heard)
  PROVE  TypeReqs'
<1>1. Sent(t, kind, of, op, heard) \in ReqRow
  BY SentRow
<1> QED
  BY <1>1, TypeParts DEF Send, TypeReqs

LEMMA UnloadedType ==
  ASSUME TypeOK, NEW t \in Tabs
  PROVE  Unloaded(t) \in [Requests -> ReqRow] /\ LeftPage(t) \in [Requests -> ReqRow]
<1>1. ASSUME NEW r \in Requests PROVE Abandoned(req[r]) \in ReqRow /\ Unheard(req[r]) \in ReqRow /\ req[r] \in ReqRow
  BY IdleRow, TypeParts DEF TypeReqs, Abandoned, Unheard, ReqRow, Req
<1> QED
  BY <1>1 DEF Unloaded, LeftPage

LEMMA AnsweredType ==
  ASSUME TypeOK, NEW r \in Requests, NEW answer \in Answers, NEW view \in Sights, Answered(r, answer, view)
  PROVE  TypeReqs'
<1>1. [req[r] EXCEPT !.at = "answered", !.answer = answer, !.sees = view, !.op = "end"] \in ReqRow
  BY TypeParts DEF TypeReqs, ReqRow, Req, Steps, Ops
<1> QED
  BY <1>1, IdleRow, TypeParts DEF TypeReqs, Answered

LEMMA GoesType ==
  ASSUME TypeOK, NEW r \in Requests, NEW at \in Steps, Goes(r, at)
  PROVE  TypeReqs'
<1>1. [req[r] EXCEPT !.at = at] \in ReqRow
  BY TypeParts DEF TypeReqs, ReqRow, Req
<1> QED
  BY <1>1, TypeParts DEF TypeReqs, Goes

LEMMA DoneType == ASSUME TypeOK, NEW r \in Requests, Done(r) PROVE TypeReqs'
  BY IdleRow, TypeParts DEF Done, TypeReqs

\* The tab moves within its document, or to another one.
LEMMA GoToType == ASSUME TypeOK, NEW t \in Tabs, NEW pg \in Pages, GoTo(t, pg) PROVE TypeTabs'
<1>1. [tab[t] EXCEPT !.page = pg, !.event = None, !.shown = "none"] \in TabRow
  BY TypeParts DEF TypeTabs, TabRow, Sights
<1>2. tab' = [tab EXCEPT ![t] = [tab[t] EXCEPT !.page = pg, !.event = None, !.shown = "none"]]
  BY TypeParts, Zenon DEF GoTo
<1> QED
  BY <1>1, <1>2, TypeParts DEF TypeTabs

LEMMA MountedType ==
  ASSUME TypeOK, NEW t \in Tabs, NEW r \in Requests, NEW pg \in Pages, Mounted(t, r, pg)
  PROVE  TypeTabs' /\ TypeReqs'
<1>1. Middleware(Cookie(t), pg) \in Pages
  BY MiddlewareType
<1>2. [Blank(Middleware(Cookie(t), pg)) EXCEPT !.loading = TRUE] \in TabRow
  <2>1. Blank(Middleware(Cookie(t), pg)) \in TabRow
    BY <1>1, BlankRow
  <2> HIDE DEF Blank
  <2> QED
    BY <2>1 DEF TabRow
<1>3. Sent(t, "me", None, "end", "tab") \in ReqRow
  BY SentRow DEF Kinds, Ops, Subjects
<1> QED
  BY <1>2, <1>3, UnloadedType, TypeParts DEF Mounted, TypeTabs, TypeReqs

LEMMA UnloadType ==
  ASSUME TypeOK, NEW t \in Tabs, NEW pg \in Pages, tab' = [tab EXCEPT ![t] = Blank(pg)], req' = Unloaded(t)
  PROVE  TypeTabs' /\ TypeReqs'
  BY BlankRow, UnloadedType, TypeParts DEF TypeTabs, TypeReqs

LEMMA TypeLoad ==
  ASSUME TypeOK, ConsoleAssumption, NEW t \in Tabs, NEW r \in Requests, NEW pg \in Urls, Load(t, r, pg)
  PROVE  TypeOK'
<1>1. pg \in Pages
  BY DEF ConsoleAssumption, Pages
<1>2. TypeCookies'
  BY TypeParts DEF Load, TypeCookies
<1>3. TypeTabs' /\ TypeReqs'
  <2>1. CASE Mounted(t, r, pg)
    BY <1>1, <2>1, MountedType
  <2>2. CASE ~Mounted(t, r, pg)
    <3>1. tab' = [tab EXCEPT ![t] = Blank(Middleware(None, pg))] /\ req' = Unloaded(t)
      BY <2>2 DEF Load
    <3>2. Middleware(None, pg) \in Pages
      BY <1>1, MiddlewareType
    <3> QED
      BY <3>1, <3>2, UnloadType
  <2> QED
    BY <2>1, <2>2
<1>4. TypeGateway'
  BY PartsKept DEF Load
<1> QED
  BY <1>2, <1>3, <1>4, PartsNext

LEMMA TypeMoves ==
  ASSUME TypeOK, NEW t \in Tabs, Shell(t) \/ Close(t)
  PROVE  TypeOK'
<1>1. \E pg \in Pages : GoTo(t, pg)
  <2>1. CASE Shell(t)
    <3>1. (IF tab[t].user = None THEN "login" ELSE Home(tab[t].user)) \in Pages
      BY HomeType DEF Pages
    <3>2. Middleware(Cookie(t), IF tab[t].user = None THEN "login" ELSE Home(tab[t].user)) \in Pages
      BY <3>1, MiddlewareType
    <3> QED
      BY <2>1, <3>2 DEF Shell
  <2>2. CASE Close(t)
    BY <2>2, TypeParts DEF Close, TypeTabs, TabRow
  <2> QED
    BY <2>1, <2>2
<1>2. TypeTabs'
  BY <1>1, GoToType
<1>3. TypeReqs'
  BY UnloadedType DEF Shell, Close, TypeReqs
<1>4. UNCHANGED <<browser, cookie, mixed>> /\ UnchangedGateway
  BY DEF Shell, Close
<1> QED
  BY <1>2, <1>3, <1>4, PartsKept, PartsNext

LEMMA AskingType == ASSUME NEW t PROVE Asking(t) \in BOOLEAN
  BY DEF Asking

LEMMA TypeLogout == ASSUME TypeOK, NEW t \in Tabs, Logout(t) PROVE TypeOK'
<1>1. TypeCookies'
  BY SetCookieType, AskingType DEF Logout
<1>2. [Blank("login") EXCEPT !.loading = tab[t].loading] \in TabRow
  BY BlankRow, TypeParts DEF Pages, TypeTabs, TabRow
<1>3. TypeTabs' /\ TypeReqs'
  BY <1>2, UnloadedType, TypeParts DEF Logout, TypeTabs, TypeReqs
<1>4. TypeGateway'
  BY PartsKept DEF Logout
<1> QED
  BY <1>1, <1>3, <1>4, PartsNext

\* What a page asks for.
LEMMA TypeAsks ==
  ASSUME TypeOK, ConsoleAssumption, NEW t \in Tabs, NEW r \in Requests,
         \/ \E kind \in Forms, c \in Accounts : Submit(t, r, kind, c)
         \/ \E op \in Buttons : Act(t, r, op)
         \/ \E kind \in {"suspend", "unsuspend"}, c \in Clients : Moderate(t, r, kind, c)
  PROVE  TypeOK'
<1>1. \E kind \in Kinds : \E of \in Subjects(kind), op \in Ops, heard \in {"page", "tab", "no"} :
        Send(t, r, kind, of, op, heard)
  <2>1. CASE \E kind \in Forms, c \in Accounts : Submit(t, r, kind, c)
    BY <2>1 DEF Submit, ConsoleAssumption, Kinds, Ops, Subjects
  <2>2. CASE \E op \in Buttons : Act(t, r, op)
    <3>1. tab[t].event \in Clients
      BY <2>2, TypeParts DEF Act, TypeTabs, TabRow
    <3> QED
      BY <2>2, <3>1 DEF Act, ConsoleAssumption, Kinds, Ops, Subjects
  <2>3. CASE \E kind \in {"suspend", "unsuspend"}, c \in Clients : Moderate(t, r, kind, c)
    BY <2>3 DEF Moderate, Kinds, Ops, Subjects
  <2> QED
    BY <2>1, <2>2, <2>3
<1>2. TypeReqs'
  BY <1>1, SendType
<1>3. UNCHANGED <<browser, cookie, tab, mixed>> /\ UnchangedGateway
  BY DEF Submit, Act, Moderate
<1> QED
  BY <1>2, <1>3, PartsKept, PartsNext

LEMMA TypeOpen ==
  ASSUME TypeOK, NEW t \in Tabs, NEW r \in Requests, NEW c \in Clients, Open(t, r, c)
  PROVE  TypeOK'
<1>1. Sent(t, "view", c, "end", "page") \in ReqRow
  BY SentRow DEF Kinds, Ops, Subjects
<1>2. TypeReqs'
  BY <1>1, UnloadedType DEF Open, TypeReqs
<1>3. TypeTabs'
  BY TypeParts DEF Open, TypeTabs, TabRow, Sights
<1>4. UNCHANGED <<browser, cookie, mixed>> /\ UnchangedGateway
  BY DEF Open
<1> QED
  BY <1>2, <1>3, <1>4, PartsKept, PartsNext

-----------------------------------------------------------------------------
(* The shape of a request: who hears it, and who is between two steps.     *)

RowShape(q) ==
    /\ q.heard # "no" \/ q.at = "answered" => q.tab \in Tabs /\ q.heard # "no"
    /\ q.kind = "me" /\ q.tab \in Tabs => q.by # None /\ q.heard = "tab" /\ q.at \in {"sent", "answered"}
    /\ q.at \in {"flagged", "found"} => q.kind = "suspend"

Shapes == \A r \in Requests : RowShape(req[r])

-----------------------------------------------------------------------------
LEMMA PagesKeptType == ASSUME TypeOK, UnchangedPages PROVE TypeCookies' /\ TypeTabs'
  BY TypeParts, PartsKept DEF UnchangedPages

\* What CheckEvent makes of a request it lets through.
Asker(r) == IF req[r].by = Boss THEN Boss ELSE None
Checked(r) == req' = [req EXCEPT ![r].at = "checked", ![r].by = IF @ = Boss THEN Boss ELSE None]

LEMMA CheckedIs ==
  ASSUME TypeOK, NEW r \in Requests, Checked(r)
  PROVE  req' = [req EXCEPT ![r] = [req[r] EXCEPT !.at = "checked", !.by = Asker(r)]]
  BY TypeParts DEF Checked, Asker, TypeReqs, ReqRow, Req

LEMMA LeftOpenType ==
  ASSUME TypeOK, UNCHANGED <<registered, status>>, suspended' \subseteq Clients, overtaken' \subseteq Requests,
         missed' = missed \/ \E c \in Clients : LeftOpen(c)
  PROVE  TypeGateway'
  BY TypeParts DEF LeftOpen, TypeGateway

\* Steps of the gateway that change no account and no event.
LEMMA TypeAnswers ==
  ASSUME TypeOK, Shapes, NEW r \in Requests,
         \/ Fails(r) \/ Login(r) \/ SignupChecks(r) \/ GetMe(r) \/ RequireAdminAuth(r) \/ CheckEvent(r) \/ NoSuchClient(r)
  PROVE  TypeOK'
<1>1. ASSUME NEW answer \in Answers, NEW view \in Sights, Answered(r, answer, view) PROVE TypeReqs'
  BY <1>1, AnsweredType
<1>2. ASSUME NEW at \in Steps, Goes(r, at) PROVE TypeReqs'
  BY <1>2, GoesType
<1>3. {"ok", "expired", "suspended", "refused"} \subseteq Answers /\ "none" \in Sights /\ {"checked", "admitted"} \subseteq Steps
  BY DEF Answers, Sights, Steps
<1>4. TypeReqs'
  <2>1. CASE Fails(r) \/ NoSuchClient(r)
    BY <2>1, <1>1, <1>3 DEF Fails, NoSuchClient
  <2>2. CASE Login(r)
    <3>1. (IF req[r].of \in suspended THEN "suspended" ELSE "ok") \in Answers
      BY <1>3
    <3> QED
      BY <2>2, <3>1, <1>1, <1>3 DEF Login
  <2>3. CASE SignupChecks(r)
    BY <2>3, <1>1, <1>2, <1>3 DEF SignupChecks
  <2>4. CASE GetMe(r)
    <3>1. (IF req[r].by \in suspended THEN "expired" ELSE "ok") \in Answers
      BY <1>3
    <3> QED
      BY <2>4, <3>1, <1>1, <1>3 DEF GetMe
  <2>5. CASE CheckEvent(r)
    <3>1. CASE Answered(r, "refused", "none")
      BY <3>1, <1>1, <1>3
    <3>2. CASE Checked(r)
      <4>1. [req[r] EXCEPT !.at = "checked", !.by = Asker(r)] \in ReqRow
        BY TypeParts DEF TypeReqs, ReqRow, Req, Steps, Asker, Accounts
      <4>2. req' = [req EXCEPT ![r] = [req[r] EXCEPT !.at = "checked", !.by = Asker(r)]]
        BY <3>2, CheckedIs
      <4> QED
        BY <4>1, <4>2, TypeParts DEF TypeReqs
    <3> QED
      BY <2>5, <3>1, <3>2 DEF CheckEvent, Checked
  <2>6. CASE RequireAdminAuth(r)
    <3>1. CASE Answered(r, "expired", "none") \/ Answered(r, "refused", "none") \/ Goes(r, "admitted")
      BY <3>1, <1>1, <1>2, <1>3
    <3>2. CASE GetEvent(r) /\ req[r].kind = "view"
      <4>1. CASE Answered(r, "refused", "none")
        BY <4>1, <1>1, <1>3
      <4>2. CASE Mine(r) /\ Answered(r, "ok", status[req[r].of])
        <5>1. req[r].of \in Clients
          BY <3>2, TypeParts DEF TypeReqs, ReqRow, Req, Subjects
        <5> QED
          BY <5>1, <4>2, <1>1, <1>3, TypeParts DEF TypeGateway, Sights
      <4> QED
        BY <3>2, <4>1, <4>2 DEF GetEvent
    <3> QED
      BY <2>6, <3>1, <3>2 DEF RequireAdminAuth
  <2> QED
    BY <2>1, <2>2, <2>3, <2>4, <2>5, <2>6
<1>5. UnchangedPages
  BY DEF Fails, Login, SignupChecks, GetMe, RequireAdminAuth, CheckEvent, NoSuchClient
<1>6. TypeGateway'
  <2>1. CASE Fails(r)
    <3>1. req[r].at \in {"flagged", "found"} => req[r].of \in Clients
      BY TypeParts DEF Shapes, RowShape, TypeReqs, ReqRow, Subjects
    <3> QED
      BY <2>1, <3>1, LeftOpenType, TypeParts DEF Fails, TypeGateway
  <2>2. CASE CheckEvent(r)
    BY <2>2, TypeParts DEF CheckEvent, TypeGateway
  <2>3. CASE UnchangedGateway
    BY <2>3, PartsKept
  <2> QED
    BY <2>1, <2>2, <2>3 DEF Login, SignupChecks, GetMe, RequireAdminAuth, NoSuchClient
<1> QED
  BY <1>4, <1>5, <1>6, PagesKeptType, PartsNext

\* Steps that change an account.
LEMMA TypeAccounts ==
  ASSUME TypeOK, NEW r \in Requests, SignupCreates(r) \/ ClearFlag(r)
  PROVE  TypeOK'
<1>1. TypeReqs'
  <2>1. {"ok", "refused"} \subseteq Answers /\ "none" \in Sights
    BY DEF Answers, Sights
  <2>2. \E answer \in {"ok", "refused"} : Answered(r, answer, "none")
    BY DEF SignupCreates, ClearFlag
  <2> QED
    BY <2>1, <2>2, AnsweredType
<1>2. req[r].kind = "signup" => req[r].of \in Accounts
  BY TypeParts DEF TypeReqs, ReqRow, Req, Subjects
<1>3. TypeGateway'
  BY <1>2, TypeParts DEF SignupCreates, ClearFlag, TypeGateway
<1>4. UnchangedPages
  BY DEF SignupCreates, ClearFlag
<1> QED
  BY <1>1, <1>3, <1>4, PagesKeptType, PartsNext

LEMMA SetStatusType ==
  ASSUME TypeOK, NEW c \in Clients, NEW st \in Statuses, NEW pass, SetStatus(c, st, pass),
         UNCHANGED <<registered, suspended>>, overtaken' \subseteq overtaken
  PROVE  TypeGateway'
  BY TypeParts DEF SetStatus, TypeGateway

\* Steps that change an event, and suspendClient.
LEMMA TypeEvents ==
  ASSUME TypeOK, NEW r \in Requests, WriteEvent(r) \/ SuspendClient(r)
  PROVE  TypeOK'
<1>1. {"ok", "refused"} \subseteq Answers /\ "none" \in Sights /\ {"flagged", "found"} \subseteq Steps
  BY DEF Answers, Sights, Steps
<1>2. req[r].of \in Clients
  BY TypeParts DEF WriteEvent, SuspendClient, Suspends, TypeReqs, ReqRow, Req, Subjects
<1>3. TypeReqs'
  <2>1. (\E answer \in {"ok", "refused"} : Answered(r, answer, "none")) \/ (\E at \in {"flagged", "found"} : Goes(r, at))
    BY DEF WriteEvent, SuspendClient
  <2> QED
    BY <1>1, <2>1, AnsweredType, GoesType
<1>4. TypeGateway'
  <2>1. CASE WriteEvent(r)
    <3>1. Result(req[r].op) \in Statuses
      BY TypeParts DEF TypeReqs, ReqRow, Req, Ops, Result, Statuses
    <3> QED
      BY <2>1, <3>1, <1>2, SetStatusType DEF WriteEvent
  <2>2. CASE SuspendClient(r)
    <3>1. CASE SetStatus(req[r].of, "ENDED", FALSE) /\ UNCHANGED <<registered, suspended, overtaken>>
      BY <3>1, <1>2, SetStatusType DEF Statuses
    <3>2. CASE /\ suspended' = suspended \cup {req[r].of} /\ UNCHANGED <<registered, status>>
               /\ overtaken' = overtaken \cup Admitted(req[r].of)
               /\ missed' = missed \/ LeftOpen(req[r].of)
      BY <3>2, <1>2, LeftOpenType, TypeParts DEF TypeGateway, Admitted
    <3>3. CASE UnchangedGateway
      BY <3>3, PartsKept
    <3> QED
      BY <2>2, <3>1, <3>2, <3>3 DEF SuspendClient
  <2> QED
    BY <2>1, <2>2
<1>5. UnchangedPages
  BY DEF WriteEvent, SuspendClient
<1> QED
  BY <1>3, <1>4, <1>5, PagesKeptType, PartsNext

LEMMA TypeHears ==
  ASSUME TypeOK, Shapes, NEW r \in Requests, AnswerStep(r)
  PROVE  TypeOK'
<1> DEFINE t == req[r].tab
<1>1. t \in Tabs /\ req[r] \in ReqRow
  BY TypeParts DEF AnswerStep, Expired, SignedIn, MeFailed, PersistAuth, ToSuspended, Viewed, RefetchEvent, Hears,
               Shapes, RowShape, TypeReqs
<1>2. {"login", "suspended"} \subseteq Pages /\ None \in Accounts \cup {None} /\ mixed[t] \in BOOLEAN /\ tab[t] \in TabRow
  BY <1>1, TypeParts DEF Pages, TypeCookies, TypeTabs
<1>3. UnchangedGateway
  BY DEF AnswerStep, Expired, SignedIn, MeFailed, PersistAuth, ToSuspended, Viewed, RefetchEvent
<1>4. CASE Expired(r)
  <2>1. TypeCookies'
    BY <1>1, <1>2, <1>4, SetCookieType DEF Expired
  <2>2. TypeTabs' /\ TypeReqs'
    BY <1>1, <1>2, <1>4, UnloadType DEF Expired
  <2> QED
    BY <1>3, <2>1, <2>2, PartsKept, PartsNext
<1>5. CASE SignedIn(r) \/ Viewed(r)
  <2>1. TypeTabs'
    <3>1. [tab[t] EXCEPT !.user = req[r].by, !.loading = FALSE] \in TabRow /\ [tab[t] EXCEPT !.shown = req[r].sees] \in TabRow
      BY <1>1, <1>2 DEF TabRow, ReqRow, Req
    <3>2. \/ tab' = [tab EXCEPT ![t] = [tab[t] EXCEPT !.user = req[r].by, !.loading = FALSE]]
          \/ tab' = [tab EXCEPT ![t] = [tab[t] EXCEPT !.shown = req[r].sees]]
      BY <1>1, <1>5, TypeParts DEF SignedIn, Viewed, TypeTabs, TabRow
    <3> QED
      BY <3>1, <3>2, TypeParts DEF TypeTabs
  <2>2. TypeReqs' /\ UNCHANGED <<browser, cookie, mixed>>
    BY <1>5, DoneType DEF SignedIn, Viewed
  <2> QED
    BY <1>3, <2>1, <2>2, PartsKept, PartsNext
<1>6. CASE MeFailed(r)
  <2>1. TypeCookies'
    BY <1>1, <1>2, <1>6, SetCookieType DEF MeFailed
  <2>2. TypeTabs'
    BY <1>1, <1>6, TypeParts DEF MeFailed, TypeTabs, TabRow
  <2>3. TypeReqs'
    BY <1>6, DoneType DEF MeFailed
  <2> QED
    BY <1>3, <2>1, <2>2, <2>3, PartsKept, PartsNext
<1>7. CASE PersistAuth(r)
  <2>1. req[r].of \in Accounts
    BY <1>1, <1>7 DEF PersistAuth, Hears, ReqRow, Req, Subjects
  <2>2. TypeCookies'
    BY <1>1, <1>7, <2>1, SetCookieType, AskingType DEF PersistAuth
  <2>3. TypeTabs'
    <3>1. Blank(Home(req[r].of)) \in TabRow
      BY BlankRow, HomeType
    <3> DEFINE found == [Blank(Home(req[r].of)) EXCEPT !.user = req[r].of, !.loading = tab[t].loading]
    <3>2. found \in TabRow
      BY <1>2, <2>1, <3>1 DEF TabRow
    <3>3. tab' = [tab EXCEPT ![t] = found]
      BY <1>7 DEF PersistAuth
    <3> HIDE DEF found
    <3> QED
      BY <3>2, <3>3, TypeParts DEF TypeTabs
  <2>4. TypeReqs'
    BY <1>1, <1>7, UnloadedType, IdleRow DEF PersistAuth, TypeReqs
  <2> QED
    BY <1>3, <2>2, <2>3, <2>4, PartsKept, PartsNext
<1>8. CASE ToSuspended(r)
  <2>1. TypeTabs' /\ TypeReqs'
    BY <1>1, <1>2, <1>8, MountedType, UnloadType DEF ToSuspended
  <2>2. TypeCookies'
    BY <1>8, TypeParts DEF ToSuspended, TypeCookies
  <2> QED
    BY <1>3, <2>1, <2>2, PartsKept, PartsNext
<1>9. CASE RefetchEvent(r)
  <2>1. req[r].of \in Subjects("view") /\ req[r].heard \in {"page", "tab", "no"}
    BY <1>1, <1>9 DEF RefetchEvent, Hears, ReqRow, Req, Subjects
  <2>2. Sent(t, "view", req[r].of, "end", req[r].heard) \in ReqRow
    BY <1>1, <2>1, SentRow DEF Kinds, Ops
  <2>3. TypeReqs'
    BY <1>9, <2>2, TypeParts DEF RefetchEvent, TypeReqs
  <2>4. UNCHANGED <<browser, cookie, tab, mixed>>
    BY <1>9 DEF RefetchEvent
  <2> QED
    BY <1>3, <2>3, <2>4, PartsKept, PartsNext
<1> QED
  BY <1>4, <1>5, <1>6, <1>7, <1>8, <1>9 DEF AnswerStep

LEMMA TypeNext == ASSUME TypeOK, Shapes, ConsoleAssumption, [Next]_vars PROVE TypeOK'
<1>1. ASSUME NEW t \in Tabs, UserStep(t) PROVE TypeOK'
  BY <1>1, TypeLoad, TypeMoves, TypeLogout, TypeAsks, TypeOpen DEF UserStep
<1>2. ASSUME NEW r \in Requests, GatewayStep(r) PROVE TypeOK'
  BY <1>2, TypeAnswers, TypeAccounts, TypeEvents DEF GatewayStep
<1>3. CASE UNCHANGED vars
  <2>1. UnchangedGateway /\ UNCHANGED <<browser, cookie, mixed>> /\ UNCHANGED tab /\ UNCHANGED req
    BY <1>3 DEF vars, UnchangedGateway
  <2> QED
    BY <2>1, PartsKept, PartsNext
<1> QED
  BY <1>1, <1>2, <1>3, TypeHears DEF Next

LEMMA ShapesInit == ASSUME ConsoleAssumption, Init PROVE Shapes
  BY DEF Init, Shapes, RowShape, Idle, ConsoleAssumption

LEMMA IdleShape == ASSUME ConsoleAssumption PROVE RowShape(Idle)
  BY DEF RowShape, Idle, ConsoleAssumption

LEMMA SentShape ==
  ASSUME NEW t \in Tabs, NEW kind, NEW of, NEW op, NEW heard \in {"page", "tab"},
         kind = "me" => Cookie(t) # None /\ heard = "tab"
  PROVE  RowShape(Sent(t, kind, of, op, heard))
  BY DEF RowShape, Sent

LEMMA LeftShape ==
  ASSUME TypeOK, Shapes, ConsoleAssumption, NEW t \in Tabs, NEW r \in Requests
  PROVE  RowShape(Unloaded(t)[r]) /\ RowShape(LeftPage(t)[r])
<1>1. req[r] \in ReqRow /\ RowShape(req[r])
  BY TypeParts DEF TypeReqs, Shapes
<1>2. RowShape(Abandoned(req[r]))
  BY <1>1, IdleShape DEF Abandoned, RowShape, ReqRow, Req, ConsoleAssumption
<1>3. req[r].heard # "no" => RowShape(Unheard(req[r]))
  BY <1>1, IdleShape DEF Unheard, RowShape, ReqRow, Req
<1> QED
  BY <1>1, <1>2, <1>3 DEF Unloaded, LeftPage

LEMMA AnsweredShape ==
  ASSUME TypeOK, Shapes, ConsoleAssumption, NEW r \in Requests, NEW answer, NEW view, Answered(r, answer, view)
  PROVE  Shapes'
<1> DEFINE found == [req[r] EXCEPT !.at = "answered", !.answer = answer, !.sees = view, !.op = "end"]
<1>1. req[r] \in Req /\ RowShape(req[r])
  BY TypeParts DEF TypeReqs, ReqRow, Shapes
<1>2. req[r].heard # "no" => RowShape(found)
  BY <1>1 DEF RowShape, Req
<1>3. req' = [req EXCEPT ![r] = IF Unnoticed(req[r], answer) THEN Idle ELSE found]
  BY TypeParts DEF Answered, TypeReqs
<1>4. req[r].heard = "no" => Unnoticed(req[r], answer)
  BY DEF Unnoticed
<1> HIDE DEF found
<1> QED
  BY <1>2, <1>3, <1>4, IdleShape, TypeParts DEF Shapes, TypeReqs

LEMMA GoesShape ==
  ASSUME TypeOK, Shapes, NEW r \in Requests, NEW at \in {"admitted", "checked", "flagged", "found"}, Goes(r, at),
         req[r].kind # "me", at \in {"flagged", "found"} => req[r].kind = "suspend"
  PROVE  Shapes'
<1>1. RowShape([req[r] EXCEPT !.at = at])
  BY TypeParts DEF TypeReqs, ReqRow, Req, Shapes, RowShape
<1> QED
  BY <1>1, TypeParts DEF Goes, Shapes, TypeReqs

LEMMA DoneShape == ASSUME TypeOK, Shapes, ConsoleAssumption, NEW r \in Requests, Done(r) PROVE Shapes'
  BY IdleShape, TypeParts DEF Done, Shapes, TypeReqs

LEMMA MountedShape ==
  ASSUME TypeOK, Shapes, ConsoleAssumption, NEW t \in Tabs, NEW r \in Requests, NEW pg, Mounted(t, r, pg),
     Cookie(t) # None
  PROVE  Shapes'
<1>1. RowShape(Sent(t, "me", None, "end", "tab"))
  BY SentShape
<1> QED
  BY <1>1, LeftShape, UnloadedType DEF Mounted, Shapes

LEMMA ShapesUser ==
  ASSUME TypeOK, Shapes, ConsoleAssumption, NEW t \in Tabs, UserStep(t)
  PROVE  Shapes'
<1>1. CASE Shell(t) \/ Logout(t) \/ Close(t)
  BY <1>1, LeftShape DEF Shell, Logout, Close, Shapes
<1>2. ASSUME NEW r \in Requests, NEW pg, Load(t, r, pg) PROVE Shapes'
  BY <1>2, MountedShape, LeftShape DEF Load, Shapes
<1>3. ASSUME NEW r \in Requests, NEW kind, NEW of, NEW op, NEW heard \in {"page", "tab"}, kind # "me",
   Send(t, r, kind, of, op, heard)
      PROVE  Shapes'
  BY <1>3, SentShape, TypeParts DEF Send, Shapes, TypeReqs
<1>4. ASSUME NEW r \in Requests, NEW c \in Clients, Open(t, r, c) PROVE Shapes'
  <2>1. RowShape(Sent(t, "view", c, "end", "page"))
    BY SentShape
  <2> QED
    BY <1>4, <2>1, LeftShape, UnloadedType DEF Open, Shapes
<1>5. ASSUME NEW r \in Requests, \E kind \in Forms, c \in Accounts : Submit(t, r, kind, c) PROVE Shapes'
  BY <1>3, <1>5 DEF Submit, ConsoleAssumption
<1>6. ASSUME NEW r \in Requests, NEW op, Act(t, r, op) PROVE Shapes'
  BY <1>3, <1>6 DEF Act
<1>7. ASSUME NEW r \in Requests, \E kind \in {"suspend", "unsuspend"},
   c \in Clients : Moderate(t, r, kind, c) PROVE Shapes'
  BY <1>3, <1>7 DEF Moderate
<1> QED
  BY <1>1, <1>2, <1>4, <1>5, <1>6, <1>7 DEF UserStep

LEMMA ShapesGateway ==
  ASSUME TypeOK, Shapes, ConsoleAssumption, NEW r \in Requests, GatewayStep(r)
  PROVE  Shapes'
<1>1. CASE \E answer, view : Answered(r, answer, view)
  BY <1>1, AnsweredShape
<1>2. CASE \E at \in {"admitted", "checked", "flagged", "found"} :
             Goes(r, at) /\ req[r].kind # "me" /\ (at \in {"flagged", "found"} => req[r].kind = "suspend")
  BY <1>2, GoesShape
<1>3. CASE req[r].kind = "act" /\ Checked(r)
  <2>1. RowShape([req[r] EXCEPT !.at = "checked", !.by = Asker(r)])
    BY <1>3, TypeParts DEF Shapes, RowShape, TypeReqs, ReqRow, Req
  <2> QED
    BY <1>3, <2>1, CheckedIs, TypeParts DEF Shapes, TypeReqs
<1>4. CASE Fails(r) \/ Login(r) \/ GetMe(r) \/ NoSuchClient(r) \/ SignupCreates(r) \/ ClearFlag(r) \/ WriteEvent(r)
  <2>1. \E answer, view : Answered(r, answer, view)
    BY <1>4 DEF Fails, Login, GetMe, NoSuchClient, SignupCreates, ClearFlag, WriteEvent
  <2> QED
    BY <1>1, <2>1
<1>5. CASE SignupChecks(r)
  BY <1>1, <1>2, <1>5 DEF SignupChecks
<1>6. CASE RequireAdminAuth(r)
  BY <1>1, <1>2, <1>6 DEF RequireAdminAuth, GetEvent
<1>7. CASE CheckEvent(r)
  BY <1>1, <1>3, <1>7 DEF CheckEvent, Checked
<1>8. CASE SuspendClient(r)
  BY <1>1, <1>2, <1>8 DEF SuspendClient, Suspends
<1> QED
  BY <1>4, <1>5, <1>6, <1>7, <1>8 DEF GatewayStep

LEMMA ShapesAnswer ==
  ASSUME TypeOK, Shapes, ConsoleAssumption, NEW r \in Requests, AnswerStep(r)
  PROVE  Shapes'
<1>1. req[r].tab \in Tabs /\ req[r].heard \in {"page", "tab"}
  BY TypeParts DEF AnswerStep, Expired, SignedIn, MeFailed, PersistAuth, ToSuspended, Viewed, RefetchEvent, Hears,
               Shapes, RowShape, TypeReqs, ReqRow, Req
<1>2. CASE SignedIn(r) \/ MeFailed(r) \/ Viewed(r)
  BY <1>2, DoneShape DEF SignedIn, MeFailed, Viewed
<1>3. CASE Expired(r)
  BY <1>1, <1>3, LeftShape DEF Expired, Shapes
<1>4. CASE PersistAuth(r)
  BY <1>1, <1>4, LeftShape, IdleShape, UnloadedType DEF PersistAuth, Shapes
<1>5. CASE ToSuspended(r)
  BY <1>1, <1>5, MountedShape, LeftShape DEF ToSuspended, Shapes
<1>6. CASE RefetchEvent(r)
  <2>1. RowShape(Sent(req[r].tab, "view", req[r].of, "end", req[r].heard))
    BY <1>1, SentShape
  <2> QED
    BY <1>6, <2>1, TypeParts DEF RefetchEvent, Shapes, TypeReqs
<1> QED
  BY <1>2, <1>3, <1>4, <1>5, <1>6 DEF AnswerStep

LEMMA ShapesNext == ASSUME TypeOK, Shapes, ConsoleAssumption, [Next]_vars PROVE Shapes'
<1>1. CASE UNCHANGED vars
  BY <1>1 DEF vars, Shapes
<1> QED
  BY <1>1, ShapesUser, ShapesGateway, ShapesAnswer DEF Next

-----------------------------------------------------------------------------
(* The session of a tab.                                                   *)

Me(r, t) == req[r].kind = "me" /\ req[r].tab = t

\* At most one `me` of a tab is under way.
OneMe == \A t \in Tabs : \A r, q \in Requests : Me(r, t) /\ Me(q, t) => r = q

\* A `me` of a tab that knows its cookie asks for the account of that cookie, and the tab
\* shows nobody until it has the answer.
MeForCookie ==
    \A t \in Tabs : \A r \in Requests : Me(r, t) /\ ~mixed[t] => req[r].by = Cookie(t) /\ tab[t].user = None

\* A tab that has asked, and knows its cookie, shows nobody only if there is no cookie.
NobodyNoCookie == \A t \in Tabs : ~tab[t].loading /\ tab[t].user = None /\ ~mixed[t] => Cookie(t) = None

SessionInv == OneMe /\ MeForCookie /\ NobodyNoCookie /\ RightAccount

\* What a step leaves of the session of a tab: the requests ask for nobody new ...
NoNewMe(t) == \A r \in Requests : Me(r, t)' => Me(r, t) /\ req'[r].by = req[r].by
\* ... and, as far as the tab knows its cookie, all of the rest.
SameSession(t) ==
    /\ tab'[t].user = tab[t].user /\ tab'[t].loading = tab[t].loading
    /\ ~mixed'[t] => ~mixed[t] /\ Cookie(t)' = Cookie(t)

SessionOf(t) ==
    /\ \A r, q \in Requests : Me(r, t) /\ Me(q, t) => r = q
    /\ \A r \in Requests : Me(r, t) /\ ~mixed[t] => req[r].by = Cookie(t) /\ tab[t].user = None
    /\ ~tab[t].loading /\ tab[t].user = None /\ ~mixed[t] => Cookie(t) = None
    /\ tab[t].user # None /\ ~mixed[t] => Cookie(t) = tab[t].user

LEMMA Sessions == SessionInv <=> \A t \in Tabs : SessionOf(t)
  BY DEF SessionInv, OneMe, MeForCookie, NobodyNoCookie, RightAccount, SessionOf

LEMMA SessionsNext == (\A t \in Tabs : SessionOf(t)') => SessionInv'
  BY DEF SessionInv, OneMe, MeForCookie, NobodyNoCookie, RightAccount, SessionOf

LEMMA SessionKept ==
  ASSUME NEW t \in Tabs, SessionOf(t), NoNewMe(t), SameSession(t)
  PROVE  SessionOf(t)'
  BY DEF SessionOf, NoNewMe, SameSession

\* A tab that waits for no `me`.
LEMMA SessionFresh ==
  ASSUME NEW t \in Tabs, \A r \in Requests : ~Me(r, t)', ~mixed'[t] => Cookie(t)' = tab'[t].user
  PROVE  SessionOf(t)'
  BY DEF SessionOf

LEMMA SetCookieOthers ==
  ASSUME TypeOK, NEW t \in Tabs, NEW c, NEW mix, SetCookie(t, c, mix), UNCHANGED browser
  PROVE  /\ Cookie(t)' = c /\ mixed'[t] = mix
         /\ \A s \in Tabs \ {t} : ~mixed'[s] => ~mixed[s] /\ Cookie(s)' = Cookie(s)
<1>1. Cookie(t)' = c /\ mixed'[t] = mix
  BY TypeParts DEF SetCookie, Cookie, TypeCookies
<1>2. ASSUME NEW s \in Tabs \ {t}, ~mixed'[s] PROVE ~mixed[s] /\ Cookie(s)' = Cookie(s)
  <2>1. ~mixed[s] /\ (s \notin Shared(t) \/ c = Cookie(t))
    BY <1>2, Zenon DEF SetCookie
  <2>2. CASE browser[s] = browser[t]
    BY <2>1, <2>2, TypeParts DEF SetCookie, Cookie, Shared, TypeCookies
  <2>3. CASE browser[s] # browser[t]
    <3>1. browser[s] \in Browsers /\ browser' = browser /\ cookie' = [cookie EXCEPT ![browser[t]] = c]
      BY TypeParts DEF SetCookie, TypeCookies
    <3>2. cookie'[browser[s]] = cookie[browser[s]]
      BY <2>3, <3>1, TypeParts DEF TypeCookies
    <3> QED
      BY <2>1, <3>1, <3>2 DEF Cookie
  <2> QED
    BY <2>1, <2>2, <2>3
<1> QED
  BY <1>1, <1>2

\* Requests that leave a page or a document ask for nobody new.
LEMMA LeftMe ==
  ASSUME TypeOK, Shapes, ConsoleAssumption, NEW t \in Tabs, NEW s \in Tabs, NEW r \in Requests
  PROVE  /\ LeftPage(t)[r].kind = "me" /\ LeftPage(t)[r].tab = s => Me(r, s) /\ LeftPage(t)[r].by = req[r].by
         /\ Unloaded(t)[r].kind = "me" /\ Unloaded(t)[r].tab = s => Me(r, s) /\ s # t /\ Unloaded(t)[r].by = req[r].by
<1>1. req[r] \in Req /\ RowShape(req[r])
  BY TypeParts DEF TypeReqs, ReqRow, Shapes
<1>2. Idle.tab # s
  BY DEF Idle, ConsoleAssumption
<1>3. LeftPage(t)[r].kind = "me" /\ LeftPage(t)[r].tab = s => Me(r, s) /\ LeftPage(t)[r].by = req[r].by
  BY <1>1, <1>2 DEF LeftPage, Unheard, Req, Me
<1>4. Unloaded(t)[r].kind = "me" /\ Unloaded(t)[r].tab = s => Me(r, s) /\ s # t /\ Unloaded(t)[r].by = req[r].by
  BY <1>1, <1>2 DEF Unloaded, Abandoned, Req, Me, RowShape
<1> QED
  BY <1>3, <1>4

\* Steps after which every tab has the session it had.
LEMMA SessionsKept ==
  ASSUME SessionInv, \A t \in Tabs : NoNewMe(t) /\ SameSession(t)
  PROVE  SessionInv'
  BY Sessions, SessionsNext, SessionKept

LEMMA SameTabs ==
  ASSUME NEW t \in Tabs, UNCHANGED <<browser, cookie, tab, mixed>>
  PROVE  SameSession(t)
  BY DEF SameSession, Cookie

\* A request changes, but is no `me` unless it was that `me`.
LEMMA OtherMe ==
  ASSUME TypeOK, NEW t \in Tabs, NEW r \in Requests, NEW found, req' = [req EXCEPT ![r] = found],
         found.kind = "me" /\ found.tab = t => Me(r, t) /\ found.by = req[r].by
  PROVE  NoNewMe(t)
<1>1. \A q \in Requests : req'[q] = IF q = r THEN found ELSE req[q]
  BY TypeParts DEF TypeReqs
<1> QED
  BY <1>1 DEF NoNewMe, Me

LEMMA LeftNoNew ==
  ASSUME TypeOK, Shapes, ConsoleAssumption, NEW t \in Tabs, NEW s \in Tabs, req' = LeftPage(t) \/ req' = Unloaded(t)
  PROVE  NoNewMe(s) /\ (req' = Unloaded(t) => \A r \in Requests : ~Me(r, t)')
  BY LeftMe DEF NoNewMe, Me

LEMMA SessionGateway ==
  ASSUME TypeOK, Shapes, ConsoleAssumption, SessionInv, NEW r \in Requests, GatewayStep(r)
  PROVE  SessionInv'
<1> SUFFICES ASSUME NEW t \in Tabs PROVE NoNewMe(t) /\ SameSession(t)
  BY SessionsKept
<1>1. UnchangedPages
  BY DEF GatewayStep, Fails, Login, SignupChecks, SignupCreates, GetMe, RequireAdminAuth, CheckEvent, WriteEvent,
         SuspendClient, ClearFlag, NoSuchClient
<1>2. SameSession(t)
  BY <1>1, SameTabs DEF UnchangedPages
<1>3. req[r] \in Req /\ Idle.tab # t
  BY TypeParts DEF TypeReqs, ReqRow, Idle, ConsoleAssumption
<1>4. ASSUME NEW answer, NEW view, Answered(r, answer, view) PROVE NoNewMe(t)
  <2> DEFINE found == [req[r] EXCEPT !.at = "answered", !.answer = answer, !.sees = view, !.op = "end"]
  <2>1. req' = [req EXCEPT ![r] = IF Unnoticed(req[r], answer) THEN Idle ELSE found]
    BY <1>4, TypeParts DEF Answered, TypeReqs
  <2>2. found.kind = req[r].kind /\ found.tab = req[r].tab /\ found.by = req[r].by
    BY <1>3 DEF Req
  <2> HIDE DEF found
  <2> QED
    BY <1>3, <2>1, <2>2, OtherMe DEF Me
<1>5. ASSUME NEW at, Goes(r, at) PROVE NoNewMe(t)
  <2> DEFINE found == [req[r] EXCEPT !.at = at]
  <2>1. req' = [req EXCEPT ![r] = found]
    BY <1>5, TypeParts DEF Goes, TypeReqs
  <2>2. found.kind = req[r].kind /\ found.tab = req[r].tab /\ found.by = req[r].by
    BY <1>3 DEF Req
  <2> HIDE DEF found
  <2> QED
    BY <2>1, <2>2, OtherMe DEF Me
<1>6. ASSUME req[r].kind = "act", Checked(r) PROVE NoNewMe(t)
  <2> DEFINE found == [req[r] EXCEPT !.at = "checked", !.by = Asker(r)]
  <2>1. req' = [req EXCEPT ![r] = found]
    BY <1>6, CheckedIs
  <2>2. found.kind = "act"
    BY <1>3, <1>6 DEF Req
  <2> HIDE DEF found
  <2> QED
    BY <2>1, <2>2, OtherMe
<1>7. \/ \E answer, view : Answered(r, answer, view)
      \/ \E at : Goes(r, at)
      \/ req[r].kind = "act" /\ Checked(r)
  <2>1. CASE Fails(r) \/ Login(r) \/ GetMe(r) \/ NoSuchClient(r) \/ SignupCreates(r) \/ ClearFlag(r) \/ WriteEvent(r)
    BY <2>1 DEF Fails, Login, GetMe, NoSuchClient, SignupCreates, ClearFlag, WriteEvent
  <2>2. CASE SignupChecks(r) \/ RequireAdminAuth(r)
    BY <2>2 DEF SignupChecks, RequireAdminAuth, GetEvent
  <2>3. CASE CheckEvent(r) \/ SuspendClient(r)
    BY <2>3 DEF CheckEvent, Checked, SuspendClient
  <2> QED
    BY <2>1, <2>2, <2>3 DEF GatewayStep
<1> QED
  BY <1>2, <1>4, <1>5, <1>6, <1>7

-----------------------------------------------------------------------------
\* The tab t stays as it is, or moves within its document.
LEMMA MovesSession ==
  ASSUME TypeOK, NEW t \in Tabs, NEW s \in Tabs, NEW pg, GoTo(t, pg), UNCHANGED <<browser, cookie, mixed>>
  PROVE  SameSession(s)
<1>1. tab[t] \in TabRow /\ tab[s] \in TabRow
  BY TypeParts DEF TypeTabs
<1>2. tab'[s] = IF s = t THEN [tab[t] EXCEPT !.page = pg, !.event = None, !.shown = "none"] ELSE tab[s]
  BY TypeParts DEF GoTo, TypeTabs, TabRow
<1> QED
  BY <1>1, <1>2 DEF SameSession, Cookie, TabRow

\* A new document waits for a `me` of its own, if there is a cookie.
LEMMA MountedSession ==
  ASSUME TypeOK, Shapes, ConsoleAssumption, SessionInv, NEW t \in Tabs, NEW r \in Requests, NEW pg,
         mixed' = [mixed EXCEPT ![t] = FALSE], UNCHANGED <<browser, cookie>>,
         \/ Mounted(t, r, pg)
         \/ Cookie(t) = None /\ (\E p : tab' = [tab EXCEPT ![t] = Blank(p)]) /\ req' = Unloaded(t)
  PROVE  SessionInv'
<1>1. \A s \in Tabs \ {t} : tab'[s] = tab[s] /\ mixed'[s] = mixed[s] /\ Cookie(s)' = Cookie(s)
  BY TypeParts DEF Mounted, Cookie, TypeTabs, TypeCookies
<1>2. ~mixed'[t] /\ Cookie(t)' = Cookie(t)
  BY TypeParts DEF TypeCookies, Cookie
<1>3. CASE Mounted(t, r, pg)
  <2>1. \A q \in Requests : req'[q] = IF q = r THEN Sent(t, "me", None, "end", "tab") ELSE Unloaded(t)[q]
    BY <1>3, UnloadedType DEF Mounted
  <2>2. tab'[t].loading = TRUE /\ tab'[t].user = None
    BY <1>3, TypeParts DEF Mounted, Blank, TypeTabs
  <2>3. SessionOf(t)'
    <3>1. \A q \in Requests : Me(q, t)' <=> q = r
      BY <2>1, LeftMe DEF Me, Sent
    <3>2. req'[r].by = Cookie(t)
      BY <2>1 DEF Sent
    <3> QED
      BY <3>1, <3>2, <2>2, <1>2 DEF SessionOf
  <2>4. ASSUME NEW s \in Tabs \ {t} PROVE SessionOf(s)'
    <3>1. NoNewMe(s)
      BY <2>1, LeftMe DEF NoNewMe, Me, Sent
    <3>2. SameSession(s)
      BY <1>1 DEF SameSession
    <3> QED
      BY <3>1, <3>2, Sessions, SessionKept
  <2> QED
    BY <2>3, <2>4, SessionsNext
<1>4. CASE Cookie(t) = None /\ (\E p : tab' = [tab EXCEPT ![t] = Blank(p)]) /\ req' = Unloaded(t)
  <2>1. tab'[t].user = None
    BY <1>4, TypeParts DEF Blank, TypeTabs
  <2>2. SessionOf(t)'
    BY <1>2, <1>4, <2>1, LeftNoNew, SessionFresh
  <2>3. ASSUME NEW s \in Tabs \ {t} PROVE SessionOf(s)'
    <3>1. NoNewMe(s)
      BY <1>4, LeftNoNew
    <3>2. SameSession(s)
      BY <1>1, <1>4, TypeParts DEF SameSession, TypeTabs
    <3> QED
      BY <3>1, <3>2, Sessions, SessionKept
  <2> QED
    BY <2>2, <2>3, SessionsNext
<1> QED
  BY <1>3, <1>4

\* A row that takes another's place asks for nobody, unless for the same.
LEMMA RowInLeft ==
  ASSUME TypeOK, Shapes, ConsoleAssumption, NEW t \in Tabs, NEW s \in Tabs, NEW r \in Requests, NEW found,
         req' = [LeftPage(t) EXCEPT ![r] = found], found.kind # "me" \/ found.tab # s
  PROVE  NoNewMe(s)
<1>1. \A q \in Requests : req'[q] = IF q = r THEN found ELSE LeftPage(t)[q]
  BY UnloadedType
<1> QED
  BY <1>1, LeftMe DEF NoNewMe, Me

LEMMA SentMe ==
  ASSUME TypeOK, NEW t \in Tabs, NEW r \in Requests, NEW kind, NEW of, NEW op, NEW heard,
         kind # "me", Send(t, r, kind, of, op, heard)
  PROVE  \A s \in Tabs : NoNewMe(s)
<1>1. Sent(t, kind, of, op, heard).kind # "me"
  BY DEF Sent
<1> QED
  BY <1>1, OtherMe DEF Send

LEMMA SessionLogout ==
  ASSUME TypeOK, Shapes, ConsoleAssumption, SessionInv, NEW t \in Tabs, Logout(t)
  PROVE  SessionInv'
<1>1. Cookie(t)' = None /\ mixed'[t] = Asking(t) /\ (\A s \in Tabs \ {t} : ~mixed'[s] => ~mixed[s] /\ Cookie(s)' = Cookie(s))
  BY SetCookieOthers DEF Logout
<1>2. \A s \in Tabs : NoNewMe(s)
  BY LeftNoNew DEF Logout
<1>3. tab'[t].user = None /\ tab'[t].loading = tab[t].loading
  BY TypeParts DEF Logout, Blank, TypeTabs
<1>4. SessionOf(t)'
  <2>1. SessionOf(t)
    BY Sessions
  <2>2. (\E r \in Requests : Me(r, t)') => mixed'[t]
    BY <1>1, <1>2 DEF Asking, NoNewMe, Me
  <2> QED
    BY <1>1, <1>2, <1>3, <2>1, <2>2 DEF SessionOf, NoNewMe
<1>5. ASSUME NEW s \in Tabs \ {t} PROVE SessionOf(s)'
  <2>1. SameSession(s)
    BY <1>1, TypeParts DEF SameSession, Logout, TypeTabs
  <2> QED
    BY <1>2, <2>1, Sessions, SessionKept
<1> QED
  BY <1>4, <1>5, SessionsNext

LEMMA SessionUser ==
  ASSUME TypeOK, Shapes, ConsoleAssumption, SessionInv, NEW t \in Tabs, UserStep(t)
  PROVE  SessionInv'
<1>1. CASE Shell(t) \/ Close(t)
  <2>1. \E pg : GoTo(t, pg)
    BY <1>1 DEF Shell, Close
  <2>2. UNCHANGED <<browser, cookie, mixed>> /\ req' = LeftPage(t)
    BY <1>1 DEF Shell, Close
  <2> QED
    BY <2>1, <2>2, MovesSession, LeftNoNew, SessionsKept
<1>2. ASSUME NEW r \in Requests, NEW pg, Load(t, r, pg) PROVE SessionInv'
  BY <1>2, MountedSession DEF Load
<1>3. ASSUME NEW r \in Requests, NEW kind, NEW of, NEW op, NEW heard, kind # "me",
             Send(t, r, kind, of, op, heard), UNCHANGED <<browser, cookie, tab, mixed>>
      PROVE  SessionInv'
  BY <1>3, SentMe, SameTabs, SessionsKept
<1>4. ASSUME NEW r \in Requests, NEW c \in Clients, Open(t, r, c) PROVE SessionInv'
  <2>1. \A s \in Tabs : NoNewMe(s)
    <3>1. Sent(t, "view", c, "end", "page").kind # "me"
      BY DEF Sent
    <3> QED
      BY <1>4, <3>1, RowInLeft DEF Open
  <2>2. ASSUME NEW s \in Tabs PROVE SameSession(s)
    <3>1. tab[t] \in TabRow /\ tab[s] \in TabRow
      BY TypeParts DEF TypeTabs
    <3>2. tab'[s] = IF s = t THEN [tab[t] EXCEPT !.event = c, !.shown = "none"] ELSE tab[s]
      BY <1>4, TypeParts DEF Open, TypeTabs, TabRow
    <3>3. tab'[s].user = tab[s].user /\ tab'[s].loading = tab[s].loading
      BY <3>1, <3>2 DEF TabRow
    <3> QED
      BY <1>4, <3>3 DEF SameSession, Cookie, Open
  <2> QED
    BY <2>1, <2>2, SessionsKept
<1>5. ASSUME NEW r \in Requests, \E kind \in Forms, c \in Accounts : Submit(t, r, kind, c) PROVE SessionInv'
  BY <1>3, <1>5 DEF Submit, ConsoleAssumption
<1>6. ASSUME NEW r \in Requests, NEW op, Act(t, r, op) PROVE SessionInv'
  BY <1>3, <1>6 DEF Act
<1>7. ASSUME NEW r \in Requests, \E kind \in {"suspend", "unsuspend"},
   c \in Clients : Moderate(t, r, kind, c) PROVE SessionInv'
  BY <1>3, <1>7 DEF Moderate
<1> QED
  BY <1>1, <1>2, <1>4, <1>5, <1>6, <1>7, SessionLogout DEF UserStep

-----------------------------------------------------------------------------
\* The document is loaded without a cookie.
LEMMA SessionExpired ==
  ASSUME TypeOK, Shapes, ConsoleAssumption, SessionInv, NEW r \in Requests, NEW t \in Tabs, req[r].tab = t, Expired(r)
  PROVE  SessionInv'
<1>1. Cookie(t)' = None /\ (\A s \in Tabs \ {t} : ~mixed'[s] => ~mixed[s] /\ Cookie(s)' = Cookie(s))
  BY SetCookieOthers DEF Expired
<1>2. SessionOf(t)'
  <2>1. tab'[t].user = None
    BY TypeParts DEF Expired, Blank, TypeTabs
  <2> QED
    BY <1>1, <2>1, LeftNoNew, SessionFresh DEF Expired
<1>3. ASSUME NEW s \in Tabs \ {t} PROVE SessionOf(s)'
  <2>1. SameSession(s)
    BY <1>1, TypeParts DEF SameSession, Expired, TypeTabs
  <2> QED
    BY <2>1, LeftNoNew, Sessions, SessionKept DEF Expired
<1> QED
  BY <1>2, <1>3, SessionsNext

\* `me` is answered: nobody asks any more.
LEMMA SessionMe ==
  ASSUME TypeOK, Shapes, ConsoleAssumption, SessionInv, NEW r \in Requests, NEW t \in Tabs, req[r].tab = t,
     SignedIn(r) \/ MeFailed(r)
  PROVE  SessionInv'
<1>1. Me(r, t) /\ req' = [req EXCEPT ![r] = Idle]
  BY DEF SignedIn, MeFailed, Hears, Done, Me
<1>2. \A s \in Tabs : NoNewMe(s)
  BY <1>1, OtherMe DEF Idle, ConsoleAssumption
<1>3. \A q \in Requests : ~Me(q, t)'
  <2>1. ASSUME NEW q \in Requests, q # r PROVE ~Me(q, t)'
    BY <1>1, <1>2, <2>1 DEF SessionInv, OneMe, NoNewMe
  <2>2. ~Me(r, t)'
    BY <1>1, TypeParts DEF TypeReqs, Me, Idle, ConsoleAssumption
  <2> QED
    BY <2>1, <2>2
<1>4. CASE SignedIn(r)
  <2>1. tab'[t].user = req[r].by /\ mixed' = mixed /\ Cookie(t)' = Cookie(t)
    BY <1>4, TypeParts DEF SignedIn, TypeTabs, TabRow, Cookie
  <2>2. SessionOf(t)'
    BY <1>1, <1>3, <2>1, SessionFresh DEF SessionInv, MeForCookie
  <2>3. \A s \in Tabs \ {t} : SameSession(s)
    BY <1>4, TypeParts DEF SignedIn, TypeTabs, SameSession, Cookie
  <2> QED
    BY <1>2, <2>2, <2>3, Sessions, SessionKept, SessionsNext
<1>5. CASE MeFailed(r)
  <2>1. Cookie(t)' = None /\ mixed'[t] = mixed[t] /\ (\A s \in Tabs \ {t} : ~mixed'[s] => ~mixed[s] /\ Cookie(s)' = Cookie(s))
    BY <1>5, SetCookieOthers DEF MeFailed
  <2>2. tab'[t].user = tab[t].user
    BY <1>5, TypeParts DEF MeFailed, TypeTabs, TabRow
  <2>3. SessionOf(t)'
    BY <1>1, <1>3, <2>1, <2>2, SessionFresh DEF SessionInv, MeForCookie
  <2>4. \A s \in Tabs \ {t} : SameSession(s)
    BY <1>5, <2>1, TypeParts DEF MeFailed, TypeTabs, SameSession
  <2> QED
    BY <1>2, <2>3, <2>4, Sessions, SessionKept, SessionsNext
<1> QED
  BY <1>4, <1>5

LEMMA SessionPersist ==
  ASSUME TypeOK, Shapes, ConsoleAssumption, SessionInv, NEW r \in Requests, NEW t \in Tabs, req[r].tab = t,
     NEW c, req[r].of = c, PersistAuth(r)
  PROVE  SessionInv'
<1>1. Cookie(t)' = c /\ mixed'[t] = Asking(t) /\ (\A s \in Tabs \ {t} : ~mixed'[s] => ~mixed[s] /\ Cookie(s)' = Cookie(s))
  BY SetCookieOthers DEF PersistAuth
<1>2. \A s \in Tabs : NoNewMe(s)
  BY RowInLeft DEF PersistAuth, Idle, ConsoleAssumption
<1>3. tab'[t].user = c
  <2>1. tab'[t] = [Blank(Home(c)) EXCEPT !.user = c, !.loading = tab[t].loading]
    BY TypeParts DEF PersistAuth, TypeTabs
  <2> QED
    BY <2>1 DEF Blank
<1>4. c # None
  BY TypeParts DEF PersistAuth, Hears, TypeReqs, ReqRow, Subjects, Accounts, ConsoleAssumption
<1>5. SessionOf(t)'
  <2>1. SessionOf(t)
    BY Sessions
  <2>2. (\E q \in Requests : Me(q, t)') => mixed'[t]
    BY <1>1, <1>2 DEF Asking, NoNewMe, Me
  <2> QED
    BY <1>1, <1>2, <1>3, <1>4, <2>1, <2>2 DEF SessionOf, NoNewMe
<1>6. ASSUME NEW s \in Tabs \ {t} PROVE SessionOf(s)'
  <2>1. SameSession(s)
    BY <1>1, TypeParts DEF SameSession, PersistAuth, TypeTabs
  <2> QED
    BY <1>2, <2>1, Sessions, SessionKept
<1> QED
  BY <1>5, <1>6, SessionsNext

LEMMA SessionAnswer ==
  ASSUME TypeOK, Shapes, ConsoleAssumption, SessionInv, NEW r \in Requests, AnswerStep(r)
  PROVE  SessionInv'
<1>1. PICK t \in Tabs : req[r].tab = t
  BY DEF AnswerStep, Expired, SignedIn, MeFailed, PersistAuth, ToSuspended, Viewed, RefetchEvent, Hears, Shapes,
     RowShape
<1>2. CASE ToSuspended(r)
  BY <1>1, <1>2, MountedSession DEF ToSuspended
<1>3. CASE Viewed(r)
  <2>1. \A s \in Tabs : NoNewMe(s)
    BY <1>3, OtherMe DEF Viewed, Done, Idle, ConsoleAssumption
  <2>2. ASSUME NEW s \in Tabs PROVE SameSession(s)
    <3>1. tab[t] \in TabRow /\ tab[s] \in TabRow
      BY <1>1, TypeParts DEF TypeTabs
    <3>2. tab'[s] = IF s = t THEN [tab[t] EXCEPT !.shown = req[r].sees] ELSE tab[s]
      BY <1>1, <1>3, TypeParts DEF Viewed, TypeTabs, TabRow
    <3> QED
      BY <1>3, <3>1, <3>2 DEF SameSession, Cookie, TabRow, Viewed
  <2> QED
    BY <2>1, <2>2, SessionsKept
<1>4. CASE RefetchEvent(r)
  <2>1. Sent(t, "view", req[r].of, "end", req[r].heard).kind # "me"
    BY DEF Sent
  <2>2. \A s \in Tabs : NoNewMe(s)
    BY <1>1, <1>4, <2>1, OtherMe DEF RefetchEvent
  <2> QED
    BY <1>4, <2>2, SameTabs, SessionsKept DEF RefetchEvent
<1> QED
  BY <1>1, <1>2, <1>3, <1>4, SessionExpired, SessionMe, SessionPersist DEF AnswerStep

LEMMA SessionInit == ASSUME Init, ConsoleAssumption PROVE SessionInv
<1>1. \A t \in Tabs : tab[t].user = None /\ Cookie(t) = None
  BY DEF Init, Blank, Cookie
<1>2. \A t \in Tabs, r \in Requests : ~Me(r, t)
  BY DEF Init, Idle, Me, ConsoleAssumption
<1> QED
  BY <1>1, <1>2 DEF SessionInv, OneMe, MeForCookie, NobodyNoCookie, RightAccount

LEMMA SessionNext ==
  ASSUME TypeOK, Shapes, ConsoleAssumption, SessionInv, [Next]_vars
  PROVE  SessionInv'
<1>1. CASE UNCHANGED vars
  <2>1. \A t \in Tabs : NoNewMe(t) /\ SameSession(t)
    BY <1>1 DEF vars, NoNewMe, SameSession, Me, Cookie
  <2> QED
    BY <2>1, SessionsKept
<1> QED
  BY <1>1, SessionUser, SessionGateway, SessionAnswer DEF Next

-----------------------------------------------------------------------------
(* Suspended accounts.                                                     *)

ShutOf(c) == c \in suspended /\ status[c] = "ACTIVE" => Suspending(c) \/ c \in missed

\* A request on the event of a suspended account that requireAdminAuth has let through is Boss's,
\* or was there before the flag; what another account asks for is refused when it is checked.
Passed(q) == q.at \in {"admitted", "checked"} /\ q.kind = "act" /\ (q.at = "admitted" => q.by = q.of)
Marked == \A r \in Requests : Passed(req[r]) /\ req[r].of \in suspended => r \in overtaken \/ req[r].by = Boss

LEMMA ShutParts == SuspendedStaysShut <=> \A c \in suspended : ShutOf(c)
  BY DEF SuspendedStaysShut, ShutOf

LEMMA ShutInit == Init => SuspendedStaysShut
  BY DEF Init, SuspendedStaysShut

LEMMA MarkedInit == Init => Marked
  BY DEF Init, Marked, Passed, Idle

\* A request that suspends the account goes on with it, or has looked at its event.
LEMMA ShutKept ==
  ASSUME SuspendedStaysShut, NEW c \in suspended', c \in suspended, status'[c] = status[c],
         Suspending(c) => Suspending(c)', c \in missed => c \in missed'
  PROVE  ShutOf(c)'
  BY DEF ShutOf, SuspendedStaysShut

\* Tabs come and go; suspendClient goes on.
LEMMA LeftSuspending ==
  ASSUME TypeOK, Shapes, NEW t \in Tabs, NEW r \in Requests, req[r].at \in {"flagged", "found"}
  PROVE  /\ LeftPage(t)[r].at = req[r].at /\ LeftPage(t)[r].of = req[r].of
         /\ Unloaded(t)[r].at = req[r].at /\ Unloaded(t)[r].of = req[r].of
  BY TypeParts DEF LeftPage, Unheard, Unloaded, Abandoned, Shapes, RowShape, TypeReqs, ReqRow, Req

LEMMA LeftGoesOn ==
  ASSUME TypeOK, Shapes, NEW t \in Tabs, NEW r \in Requests, NEW found, req[r].at \notin {"flagged", "found"},
         \/ req' = LeftPage(t) \/ req' = Unloaded(t)
         \/ req' = [LeftPage(t) EXCEPT ![r] = found] \/ req' = [Unloaded(t) EXCEPT ![r] = found]
  PROVE  \A c : Suspending(c) => Suspending(c)'
<1>1. ASSUME NEW q \in Requests, req[q].at \in {"flagged", "found"}
      PROVE  req'[q].at = req[q].at /\ req'[q].of = req[q].of
  BY <1>1, LeftSuspending, UnloadedType
<1> QED
  BY <1>1 DEF Suspending

LEMMA OtherGoesOn ==
  ASSUME TypeOK, NEW r \in Requests, NEW found, req[r].at \notin {"flagged", "found"},
     req' = [req EXCEPT ![r] = found]
  PROVE  \A c : Suspending(c) => Suspending(c)'
<1>1. \A q \in Requests \ {r} : req'[q] = req[q]
  BY TypeParts DEF TypeReqs
<1> QED
  BY <1>1 DEF Suspending

LEMMA ShutPages ==
  ASSUME SuspendedStaysShut, UnchangedGateway, \A c : Suspending(c) => Suspending(c)'
  PROVE  SuspendedStaysShut'
  BY DEF SuspendedStaysShut, UnchangedGateway

\* Steps of the pages.
LEMMA ShutUser ==
  ASSUME TypeOK, Shapes, SuspendedStaysShut, NEW t \in Tabs, UserStep(t)
  PROVE  SuspendedStaysShut'
<1>1. UnchangedGateway
  BY DEF UserStep, Shell, Logout, Close, Load, Submit, Open, Act, Moderate
<1>2. \A c : Suspending(c) => Suspending(c)'
  <2>1. CASE Shell(t) \/ Logout(t) \/ Close(t)
    <3>1. req' = LeftPage(t)
      BY <2>1 DEF Shell, Logout, Close
    <3> QED
      BY <3>1, LeftSuspending DEF Suspending
  <2>2. ASSUME NEW r \in Requests, NEW pg, Load(t, r, pg) PROVE \A c : Suspending(c) => Suspending(c)'
    <3>1. CASE req' = Unloaded(t)
      BY <3>1, LeftSuspending DEF Suspending
    <3>2. CASE Unloaded(t)[r] = Idle /\ Mounted(t, r, pg)
      <4>1. req[r].at \notin {"flagged", "found"}
        BY <3>2, LeftSuspending DEF Idle
      <4> QED
        BY <3>2, <4>1, LeftGoesOn DEF Mounted
    <3> QED
      BY <2>2, <3>1, <3>2 DEF Load
  <2>3. ASSUME NEW r \in Requests, NEW c \in Clients, Open(t, r, c) PROVE \A d : Suspending(d) => Suspending(d)'
    <3>1. req[r].at \notin {"flagged", "found"}
      BY <2>3 DEF Open, Idle
    <3>2. req' = [LeftPage(t) EXCEPT ![r] = Sent(t, "view", c, "end", "page")]
      BY <2>3 DEF Open
    <3> QED
      BY <3>1, <3>2, LeftGoesOn
  <2>4. ASSUME NEW r \in Requests, NEW kind, NEW of, NEW op, NEW heard, Send(t, r, kind, of, op, heard)
        PROVE  \A c : Suspending(c) => Suspending(c)'
    <3>1. req[r].at \notin {"flagged", "found"}
      BY <2>4 DEF Send, Idle
    <3>2. req' = [req EXCEPT ![r] = Sent(t, kind, of, op, heard)]
      BY <2>4 DEF Send
    <3> QED
      BY <3>1, <3>2, OtherGoesOn
  <2> QED
    BY <2>1, <2>2, <2>3, <2>4 DEF UserStep, Submit, Act, Moderate
<1> QED
  BY <1>1, <1>2, ShutPages

LEMMA ShutAnswer ==
  ASSUME TypeOK, Shapes, SuspendedStaysShut, NEW r \in Requests, AnswerStep(r)
  PROVE  SuspendedStaysShut'
<1>1. UnchangedGateway
  BY DEF AnswerStep, Expired, SignedIn, MeFailed, PersistAuth, ToSuspended, Viewed, RefetchEvent
<1>2. PICK t \in Tabs : req[r].tab = t /\ req[r].at = "answered"
  BY DEF AnswerStep, Expired, SignedIn, MeFailed, PersistAuth, ToSuspended, Viewed, RefetchEvent, Hears, Shapes,
     RowShape
<1>3. \/ \E found : req' = [req EXCEPT ![r] = found]
      \/ req' = Unloaded(t)
      \/ \E found : req' = [LeftPage(t) EXCEPT ![r] = found]
      \/ \E found : req' = [Unloaded(t) EXCEPT ![r] = found]
  BY <1>2 DEF AnswerStep, Expired, SignedIn, MeFailed, PersistAuth, ToSuspended, Viewed, RefetchEvent, Done, Mounted
<1>4. \A c : Suspending(c) => Suspending(c)'
  BY <1>2, <1>3, LeftGoesOn, OtherGoesOn
<1> QED
  BY <1>1, <1>4, ShutPages

\* Steps of the gateway.
LEMMA AnsweredGoesOn ==
  ASSUME TypeOK, NEW r \in Requests, NEW answer, NEW view, Answered(r, answer, view)
  PROVE  \A c : Suspending(c) /\ (req[r].at \in {"flagged", "found"} => c # req[r].of) => Suspending(c)'
<1>1. \A q \in Requests \ {r} : req'[q] = req[q]
  BY TypeParts DEF TypeReqs, Answered
<1> QED
  BY <1>1 DEF Suspending

LEMMA GoesGoesOn ==
  ASSUME TypeOK, NEW r \in Requests, NEW at, Goes(r, at)
  PROVE  /\ at \in {"flagged", "found"} => \A c : c = req[r].of => Suspending(c)'
         /\ req[r].at \notin {"flagged", "found"} \/ at \in {"flagged", "found"} => \A c : Suspending(c) => Suspending(c)'
<1>1. \A q \in Requests \ {r} : req'[q] = req[q]
  BY TypeParts DEF TypeReqs, Goes
<1>2. req'[r].at = at /\ req'[r].of = req[r].of
  BY TypeParts DEF TypeReqs, ReqRow, Req, Goes
<1> QED
  BY <1>1, <1>2 DEF Suspending

LEMMA SetStatusShut ==
  ASSUME TypeOK, NEW c \in Clients, NEW st, NEW pass, SetStatus(c, st, pass), suspended' = suspended,
         st = "ACTIVE" /\ c \in suspended => pass
  PROVE  /\ c \in suspended => (status'[c] = "ACTIVE" => c \in missed')
         /\ \A d \in Clients \ {c} : status'[d] = status[d] /\ (d \in missed => d \in missed')
  BY TypeParts DEF SetStatus, TypeGateway

LEMMA ShutSuspend ==
  ASSUME TypeOK, Shapes, SuspendedStaysShut, NEW r \in Requests, SuspendClient(r)
  PROVE  SuspendedStaysShut'
<1> DEFINE c == req[r].of
<1>1. c \in Clients /\ \A d \in suspended : d \in Clients
  BY TypeParts DEF SuspendClient, Suspends, TypeReqs, ReqRow, Subjects, TypeGateway
<1>2. CASE Suspends(r, "admitted")
  <2>1. /\ suspended' = suspended \cup {c} /\ UNCHANGED status
        /\ \/ Goes(r, "flagged") /\ UNCHANGED missed
           \/ Answered(r, "refused", "none") /\ LeftOpen(c)
    BY <1>2 DEF SuspendClient, Suspends
  <2>2. CASE Goes(r, "flagged") /\ UNCHANGED missed
    <3>1. \A d : d = c \/ Suspending(d) => Suspending(d)'
      BY <1>2, <2>2, GoesGoesOn DEF Suspends
    <3> QED
      BY <2>1, <2>2, <3>1 DEF SuspendedStaysShut
  <2>3. CASE Answered(r, "refused", "none") /\ LeftOpen(c)
    <3>1. \A d : Suspending(d) => Suspending(d)'
      BY <1>2, <2>3, AnsweredGoesOn DEF Suspends
    <3> QED
      BY <2>1, <2>3, <3>1 DEF SuspendedStaysShut, LeftOpen
  <2> QED
    BY <2>1, <2>2, <2>3
<1>3. CASE Suspends(r, "flagged")
  <2>1. UnchangedGateway /\ (IF status[c] = "ACTIVE" THEN Goes(r, "found") ELSE Answered(r, "ok", "none"))
    BY <1>3 DEF SuspendClient, Suspends
  <2>2. ASSUME NEW d \in suspended, status[d] = "ACTIVE", Suspending(d) PROVE Suspending(d)'
    BY <2>1, <2>2, GoesGoesOn, AnsweredGoesOn
  <2> QED
    BY <2>1, <2>2 DEF SuspendedStaysShut, UnchangedGateway
<1>4. CASE Suspends(r, "found")
  <2>1. SetStatus(c, "ENDED", FALSE) /\ (\E answer : Answered(r, answer, "none")) /\ suspended' = suspended
    BY <1>4 DEF SuspendClient, Suspends
  <2>2. ASSUME NEW d \in suspended, d # c, Suspending(d) PROVE Suspending(d)'
    BY <2>1, <2>2, AnsweredGoesOn
  <2> HIDE DEF c
  <2>4. (c \in suspended => (status'[c] = "ACTIVE" => c \in missed')) /\ \A d \in Clients \ {c} : status'[d] = status[d] /\ (d \in missed => d \in missed')
    BY <1>1, <2>1, SetStatusShut
  <2> QED
    BY <2>1, <2>2, <1>1, <2>4 DEF SuspendedStaysShut
<1> QED
  BY <1>2, <1>3, <1>4 DEF SuspendClient

\* A request that fails half-way leaves what it had to end to `missed`.
LEMMA ShutFails ==
  ASSUME TypeOK, Shapes, SuspendedStaysShut, NEW r \in Requests, Fails(r)
  PROVE  SuspendedStaysShut'
<1> DEFINE c == req[r].of
<1>1. UNCHANGED <<suspended, status>> /\ missed \subseteq missed'
  BY DEF Fails, LeftOpen
<1>2. Answered(r, "refused", "none")
  BY DEF Fails
<1>3. CASE req[r].at \in {"flagged", "found"}
  <2>1. LeftOpen(c)
    BY <1>3 DEF Fails
  <2>2. \A d : Suspending(d) /\ d # c => Suspending(d)'
    BY <1>2, AnsweredGoesOn
  <2> QED
    BY <1>1, <2>1, <2>2 DEF SuspendedStaysShut, LeftOpen
<1>4. CASE req[r].at \notin {"flagged", "found"}
  <2>1. \A d : Suspending(d) => Suspending(d)'
    BY <1>2, <1>4, AnsweredGoesOn
  <2> QED
    BY <1>1, <2>1 DEF SuspendedStaysShut
<1> QED
  BY <1>3, <1>4

LEMMA ShutGateway ==
  ASSUME TypeOK, Shapes, SuspendedStaysShut, Marked, NEW r \in Requests, GatewayStep(r)
  PROVE  SuspendedStaysShut'
<1>1. ASSUME NEW answer, NEW view, Answered(r, answer, view), req[r].at \notin {"flagged", "found"}
      PROVE  \A c : Suspending(c) => Suspending(c)'
  BY <1>1, AnsweredGoesOn
<1>2. ASSUME NEW at, Goes(r, at), req[r].at \notin {"flagged", "found"}
      PROVE  \A c : Suspending(c) => Suspending(c)'
  BY <1>2, GoesGoesOn
<1>3. CASE Login(r) \/ GetMe(r) \/ NoSuchClient(r) \/ SignupChecks(r) \/ RequireAdminAuth(r) \/ CheckEvent(r)
  <2>1. UNCHANGED <<suspended, status, missed>> /\ req[r].at \notin {"flagged", "found"}
    BY <1>3 DEF Login, GetMe, NoSuchClient, SignupChecks, RequireAdminAuth, CheckEvent, UnchangedGateway
  <2>2. \/ \E answer, view : Answered(r, answer, view)
        \/ \E at : Goes(r, at)
        \/ \E found : req' = [req EXCEPT ![r] = found]
    <3>1. CASE Login(r) \/ GetMe(r) \/ NoSuchClient(r)
      BY <3>1 DEF Login, GetMe, NoSuchClient
    <3>2. CASE SignupChecks(r) \/ RequireAdminAuth(r)
      BY <3>2 DEF SignupChecks, RequireAdminAuth, GetEvent
    <3>3. CASE CheckEvent(r)
      BY <3>3, CheckedIs DEF CheckEvent, Checked
    <3> QED
      BY <1>3, <3>1, <3>2, <3>3
  <2>3. \A c : Suspending(c) => Suspending(c)'
    BY <1>1, <1>2, <2>1, <2>2, OtherGoesOn
  <2> QED
    BY <2>1, <2>3 DEF SuspendedStaysShut
<1>4. CASE SignupCreates(r)
  <2>1. UNCHANGED <<suspended, status, missed>> /\ req[r].at = "checked" /\ \E answer : Answered(r, answer, "none")
    BY <1>4 DEF SignupCreates
  <2>2. \A c : Suspending(c) => Suspending(c)'
    BY <1>1, <2>1
  <2> QED
    BY <2>1, <2>2 DEF SuspendedStaysShut
<1>5. CASE ClearFlag(r)
  <2>1. /\ suspended' = suspended \ {req[r].of} /\ missed' = missed \ {req[r].of} /\ status' = status
        /\ req[r].at = "admitted" /\ \E answer : Answered(r, answer, "none")
    BY <1>5 DEF ClearFlag
  <2>2. \A c : Suspending(c) => Suspending(c)'
    BY <1>1, <2>1
  <2> QED
    BY <2>1, <2>2 DEF SuspendedStaysShut
<1>6. CASE WriteEvent(r)
  <2>1. PICK c \in Clients : c = req[r].of /\ SetStatus(c, Result(req[r].op), r \in overtaken \/ req[r].by = Boss)
    BY <1>6, TypeParts DEF WriteEvent, TypeReqs, ReqRow, Subjects
  <2>2. req[r].at = "checked" /\ req[r].kind = "act" /\ suspended' = suspended /\ \E answer : Answered(r, answer, "none")
    BY <1>6 DEF WriteEvent
  <2>3. \A d : Suspending(d) => Suspending(d)'
    BY <1>1, <2>2
  <2>4. \A d \in suspended : d \in Clients
    BY TypeParts DEF TypeGateway
  <2>5. c \in suspended => r \in overtaken \/ req[r].by = Boss
    BY <2>1, <2>2 DEF Marked, Passed
  <2> QED
    BY <2>1, <2>2, <2>3, <2>4, <2>5, SetStatusShut DEF SuspendedStaysShut
<1> QED
  BY <1>3, <1>4, <1>5, <1>6, ShutSuspend, ShutFails DEF GatewayStep

LEMMA ShutNext ==
  ASSUME TypeOK, Shapes, SuspendedStaysShut, Marked, [Next]_vars
  PROVE  SuspendedStaysShut'
<1>1. CASE UNCHANGED vars
  BY <1>1 DEF vars, SuspendedStaysShut, Suspending
<1> QED
  BY <1>1, ShutUser, ShutGateway, ShutAnswer DEF Next

-----------------------------------------------------------------------------
(* Who is let through to the event of a suspended account.                 *)

\* A request that is let through stays what it was, or is gone.
Carries(q) == Passed(req'[q]) => Passed(req[q]) /\ req'[q].of = req[q].of /\ req'[q].by = req[q].by

LEMMA MarkedKept ==
  ASSUME Marked, \A q \in Requests : Carries(q), suspended' \subseteq suspended,
         \A q \in Requests : q \in overtaken /\ Passed(req'[q]) => q \in overtaken'
  PROVE  Marked'
  BY DEF Marked, Carries, Passed

LEMMA LeftCarries ==
  ASSUME TypeOK, Shapes, ConsoleAssumption, NEW t \in Tabs, NEW r \in Requests, NEW found, ~Passed(found),
         \/ req' = LeftPage(t) \/ req' = Unloaded(t) \/ req' = [req EXCEPT ![r] = found]
         \/ req' = [LeftPage(t) EXCEPT ![r] = found] \/ req' = [Unloaded(t) EXCEPT ![r] = found]
  PROVE  \A q \in Requests : Carries(q)
<1> TAKE q \in Requests
<1>1. req[q] \in Req
  BY TypeParts DEF TypeReqs, ReqRow
<1>2. ~Passed(Idle)
  BY DEF Passed, Idle
<1>3. Passed(LeftPage(t)[q]) => Passed(req[q]) /\ LeftPage(t)[q].of = req[q].of /\ LeftPage(t)[q].by = req[q].by
  BY <1>1, <1>2 DEF LeftPage, Unheard, Passed, Req
<1>4. Passed(Unloaded(t)[q]) => Passed(req[q]) /\ Unloaded(t)[q].of = req[q].of /\ Unloaded(t)[q].by = req[q].by
  BY <1>1, <1>2 DEF Unloaded, Abandoned, Passed, Req
<1>5. req'[q] \in {LeftPage(t)[q], Unloaded(t)[q], req[q], found}
  BY UnloadedType, TypeParts DEF TypeReqs
<1> QED
  BY <1>3, <1>4, <1>5 DEF Carries

LEMMA MarkedUser ==
  ASSUME TypeOK, Shapes, ConsoleAssumption, Marked, NEW t \in Tabs, UserStep(t)
  PROVE  Marked'
<1>1. UNCHANGED <<suspended, overtaken>>
  BY DEF UserStep, Shell, Logout, Close, Load, Submit, Open, Act, Moderate, UnchangedGateway
<1>2. \A u \in Tabs : \A kind, of, op, heard : ~Passed(Sent(u, kind, of, op, heard))
  BY DEF Sent, Passed
<1>3. \A q \in Requests : Carries(q)
  <2>1. CASE Shell(t) \/ Logout(t) \/ Close(t)
    <3>1. req' = LeftPage(t) /\ ~Passed(Idle)
      BY <2>1 DEF Shell, Logout, Close, Passed, Idle
    <3> QED
      BY <3>1, LeftCarries
  <2>2. ASSUME NEW r \in Requests, NEW pg, Load(t, r, pg) PROVE \A q \in Requests : Carries(q)
    <3>1. req' = Unloaded(t) \/ req' = [Unloaded(t) EXCEPT ![r] = Sent(t, "me", None, "end", "tab")]
      BY <2>2 DEF Load, Mounted
    <3> QED
      BY <1>2, <3>1, LeftCarries
  <2>3. ASSUME NEW r \in Requests, NEW c \in Clients, Open(t, r, c) PROVE \A q \in Requests : Carries(q)
    <3>1. req' = [LeftPage(t) EXCEPT ![r] = Sent(t, "view", c, "end", "page")]
      BY <2>3 DEF Open
    <3> QED
      BY <1>2, <3>1, LeftCarries
  <2>4. ASSUME NEW r \in Requests, NEW kind, NEW of, NEW op, NEW heard, Send(t, r, kind, of, op, heard)
        PROVE  \A q \in Requests : Carries(q)
    <3>1. req' = [req EXCEPT ![r] = Sent(t, kind, of, op, heard)]
      BY <2>4 DEF Send
    <3> QED
      BY <1>2, <3>1, LeftCarries
  <2> QED
    BY <2>1, <2>2, <2>3, <2>4 DEF UserStep, Submit, Act, Moderate
<1> QED
  BY <1>1, <1>3, MarkedKept

LEMMA MarkedAnswer ==
  ASSUME TypeOK, Shapes, ConsoleAssumption, Marked, NEW r \in Requests, AnswerStep(r)
  PROVE  Marked'
<1>1. UNCHANGED <<suspended, overtaken>>
  BY DEF AnswerStep, Expired, SignedIn, MeFailed, PersistAuth, ToSuspended, Viewed, RefetchEvent, UnchangedGateway
<1>2. PICK t \in Tabs : req[r].tab = t
  BY DEF AnswerStep, Expired, SignedIn, MeFailed, PersistAuth, ToSuspended, Viewed, RefetchEvent, Hears, Shapes,
     RowShape
<1>3. ~Passed(Idle) /\ \A u, kind, of, op, heard : ~Passed(Sent(u, kind, of, op, heard))
  BY DEF Passed, Idle, Sent
<1>4. \/ req' = Unloaded(t)
      \/ \E found : /\ ~Passed(found)
                    /\ \/ req' = [req EXCEPT ![r] = found]
                       \/ req' = [LeftPage(t) EXCEPT ![r] = found]
                       \/ req' = [Unloaded(t) EXCEPT ![r] = found]
  BY <1>2, <1>3 DEF AnswerStep, Expired, SignedIn, MeFailed, PersistAuth, ToSuspended, Viewed, RefetchEvent, Done, Mounted
<1>5. \A q \in Requests : Carries(q)
  BY <1>3, <1>4, LeftCarries
<1> QED
  BY <1>1, <1>5, MarkedKept

LEMMA MarkedGateway ==
  ASSUME TypeOK, Shapes, ConsoleAssumption, Marked, NEW r \in Requests, GatewayStep(r)
  PROVE  Marked'
<1>1. req[r] \in Req /\ \A q \in Requests : q # r => (Passed(req[q]) => req[q].of # None)
  BY TypeParts DEF TypeReqs, ReqRow, Passed, Subjects, ConsoleAssumption
<1>2. ASSUME NEW answer, NEW view, Answered(r, answer, view)
      PROVE  ~Passed(req'[r]) /\ \A q \in Requests : Carries(q)
  <2>1. \A q \in Requests \ {r} : req'[q] = req[q]
    BY <1>2, TypeParts DEF TypeReqs, Answered
  <2>2. req'[r].at \in {"idle", "answered"}
    BY <1>1, <1>2, TypeParts DEF TypeReqs, Answered, Idle, Req
  <2> QED
    BY <2>1, <2>2 DEF Carries, Passed
<1>3. ASSUME NEW at, Goes(r, at), at \in {"admitted", "checked"} => req[r].kind # "act"
      PROVE  \A q \in Requests : Carries(q)
  <2>1. \A q \in Requests \ {r} : req'[q] = req[q]
    BY <1>3, TypeParts DEF TypeReqs, Goes
  <2>2. req'[r].at = at /\ req'[r].kind = req[r].kind
    BY <1>1, <1>3, TypeParts DEF TypeReqs, Goes, Req
  <2> QED
    BY <1>3, <2>1, <2>2 DEF Carries, Passed
<1>4. CASE Fails(r) \/ WriteEvent(r)
  <2>1. (\E answer : Answered(r, answer, "none")) /\ suspended' = suspended /\ overtaken' = overtaken \ {r}
    BY <1>4 DEF Fails, WriteEvent
  <2> QED
    BY <1>2, <2>1, MarkedKept
<1>5. CASE Login(r) \/ GetMe(r) \/ NoSuchClient(r) \/ SignupChecks(r) \/ SignupCreates(r) \/ ClearFlag(r)
  <2>1. suspended' \subseteq suspended /\ overtaken' = overtaken
    BY <1>5 DEF Login, GetMe, NoSuchClient, SignupChecks, SignupCreates, ClearFlag, UnchangedGateway
  <2>2. (\E answer, view : Answered(r, answer, view)) \/ (req[r].kind = "signup" /\ Goes(r, "checked"))
    <3>1. CASE Login(r) \/ GetMe(r) \/ NoSuchClient(r) \/ SignupCreates(r) \/ ClearFlag(r)
      <4>1. \E answer, view : Answered(r, answer, view)
        BY <3>1 DEF Login, GetMe, NoSuchClient, SignupCreates, ClearFlag
      <4> QED
        BY <4>1
    <3>2. CASE SignupChecks(r)
      <4>1. req[r].kind = "signup" /\ (Answered(r, "refused", "none") \/ Goes(r, "checked"))
        BY <3>2 DEF SignupChecks
      <4> QED
        BY <4>1
    <3> QED
      BY <1>5, <3>1, <3>2
  <2> QED
    BY <1>2, <1>3, <2>1, <2>2, MarkedKept
<1>6. CASE RequireAdminAuth(r)
  <2>1. UNCHANGED <<suspended, overtaken>>
    BY <1>6 DEF RequireAdminAuth, UnchangedGateway
  <2>2. CASE \E answer, view : Answered(r, answer, view)
    BY <1>2, <2>1, <2>2, MarkedKept
  <2>3. CASE ~Shut(r) /\ Goes(r, "admitted")
    <3>1. \A q \in Requests \ {r} : req'[q] = req[q]
      BY <2>3, TypeParts DEF TypeReqs, Goes
    <3>2. req'[r].at = "admitted" /\ req'[r].by = req[r].by /\ req'[r].of = req[r].of
      BY <1>1, <2>3, TypeParts DEF TypeReqs, Goes, Req
    <3>3. ~(Passed(req'[r]) /\ req'[r].of \in suspended)
      BY <2>3, <3>2 DEF Shut, Passed
    <3> QED
      BY <2>1, <3>1, <3>3 DEF Marked
  <2> QED
    BY <1>6, <2>2, <2>3 DEF RequireAdminAuth, GetEvent
<1>7. CASE CheckEvent(r)
  <2>1. suspended' = suspended
    BY <1>7 DEF CheckEvent
  <2>2. CASE Answered(r, "refused", "none") /\ overtaken' = overtaken \ {r}
    BY <1>2, <2>1, <2>2, MarkedKept
  <2>3. CASE Allowed(r) /\ Checked(r) /\ UNCHANGED overtaken
    <3>1. req' = [req EXCEPT ![r] = [req[r] EXCEPT !.at = "checked", !.by = Asker(r)]]
      BY <2>3, CheckedIs
    <3>2. (\A q \in Requests \ {r} : req'[q] = req[q]) /\ req'[r].of = req[r].of /\ req'[r].by = Asker(r)
      BY <1>1, <3>1, TypeParts DEF TypeReqs, Req
    <3>3. req[r].at = "admitted" /\ req[r].kind = "act" /\ req[r].by \in {Boss, req[r].of}
      BY <1>7, <2>3 DEF CheckEvent, Allowed, Mine
    <3>4. req[r].of \in suspended => r \in overtaken \/ req'[r].by = Boss
      BY <3>2, <3>3 DEF Marked, Passed, Asker
    <3> QED
      BY <2>1, <2>3, <3>2, <3>4 DEF Marked
  <2> QED
    BY <1>7, <2>2, <2>3 DEF CheckEvent, Checked
<1>8. CASE SuspendClient(r)
  <2>1. CASE Suspends(r, "admitted")
    <3>1. /\ suspended' = suspended \cup {req[r].of} /\ overtaken' = overtaken \cup Admitted(req[r].of)
          /\ Goes(r, "flagged") \/ Answered(r, "refused", "none")
      BY <1>8, <2>1 DEF SuspendClient, Suspends
    <3>2. \A q \in Requests : Carries(q)
      BY <1>2, <1>3, <3>1
    <3>3. ASSUME NEW q \in Requests, Passed(req'[q]), req'[q].of \in suspended'
          PROVE  q \in overtaken' \/ req'[q].by = Boss
      <4>1. Passed(req[q]) /\ req[q].of \in suspended \cup {req[r].of} /\ req'[q].by = req[q].by
        BY <3>1, <3>2, <3>3 DEF Carries
      <4>2. CASE req[q].of \in suspended
        BY <3>1, <4>1, <4>2 DEF Marked
      <4>3. CASE req[q].of = req[r].of
        BY <3>1, <4>1, <4>3 DEF Admitted, Passed
      <4> QED
        BY <4>1, <4>2, <4>3
    <3> QED
      BY <3>3 DEF Marked
  <2>2. CASE ~Suspends(r, "admitted")
    <3>1. /\ UNCHANGED <<suspended, overtaken>>
          /\ Goes(r, "found") \/ \E answer : Answered(r, answer, "none")
      BY <1>8, <2>2 DEF SuspendClient, Suspends, UnchangedGateway
    <3>2. \A q \in Requests : Carries(q)
      BY <1>2, <1>3, <3>1
    <3> QED
      BY <3>1, <3>2, MarkedKept
  <2> QED
    BY <2>1, <2>2
<1> QED
  BY <1>4, <1>5, <1>6, <1>7, <1>8 DEF GatewayStep

LEMMA MarkedNext ==
  ASSUME TypeOK, Shapes, ConsoleAssumption, Marked, [Next]_vars
  PROVE  Marked'
<1>1. CASE UNCHANGED vars
  BY <1>1 DEF vars, Marked
<1> QED
  BY <1>1, MarkedUser, MarkedGateway, MarkedAnswer DEF Next

-----------------------------------------------------------------------------
Inv == TypeOK /\ Shapes /\ SessionInv /\ Marked /\ SuspendedStaysShut

LEMMA InvHolds == Spec => []Inv
<1>1. Init => Inv
  BY ConsoleAssumption, TypeInit, ShapesInit, SessionInit, ShutInit, MarkedInit DEF Inv
<1>2. Inv /\ [Next]_vars => Inv'
  BY ConsoleAssumption, TypeNext, ShapesNext, SessionNext, ShutNext, MarkedNext DEF Inv
<1> QED
  BY <1>1, <1>2, PTL DEF Spec

\* The rows, cookies, tabs and requests keep their types.
THEOREM ConsoleTypes == Spec => []TypeOK
<1>1. Inv => TypeOK
  BY DEF Inv
<1> QED
  BY <1>1, InvHolds, PTL

\* Whom a tab shows as signed in is who its requests speak for, as long as no other tab changed
\* the cookie and no `me` was under way when the tab wrote it itself (auth-context.tsx:51-91, api.ts:19-28).
THEOREM RightAccountHolds == Spec => []RightAccount
<1>1. Inv => RightAccount
  BY DEF Inv, SessionInv
<1> QED
  BY <1>1, InvHolds, PTL

\* A tab with nobody to show has no cookie, so that the middleware lets it through to /login
\* (middleware.ts:7-20, auth-context.tsx:56-58).
THEOREM NeverStuckHolds == Spec => []NeverStuck
<1>1. Inv => NeverStuck
  BY DEF Inv, SessionInv, NobodyNoCookie, NeverStuck
<1> QED
  BY <1>1, InvHolds, PTL

\* A suspended account has no open event once suspendClient is through, but one that Boss or a
\* request admitted before the flag opened, or that a suspension which failed half-way left
\* (superadmin.controller.ts:86-96, admin-auth.middleware.ts:11-57).
THEOREM SuspendedStaysShutHolds == Spec => []SuspendedStaysShut
<1>1. Inv => SuspendedStaysShut
  BY DEF Inv
<1> QED
  BY <1>1, InvHolds, PTL

-----------------------------------------------------------------------------
(* Reports: the pages and what they show.                                   *)

\* Types.
CallKinds == Reports \cup Transitions \cup {"nothing"}
Todo == SUBSET (Reads \cup {"check", "write"})
Call == [asks : CallKinds, todo : Todo, seen : Findings]
Screen == [shown : [Reports -> Findings \cup {Unseen}], loading : BOOLEAN, fetching : BOOLEAN,
           error : BOOLEAN, action : Transitions \cup {"none"}]
ReportsType ==
    /\ page \in OpenPages /\ row \in EventStatuses /\ sold \in Nat /\ crossed \in BOOLEAN
    /\ ui \in Screen
    /\ call \in [Slots -> Call]

\* A board without an answer has its first load under way, or the error of the last one.
BoardInv == page \in Boards /\ ui.shown[Board] = Unseen => ui.fetching \/ ui.error

\* What a load of another page asks for is shown together, and stays.
ListInv == page \notin Boards => ui.loading \/ ui.error \/ \A report \in Parts(page) : ui.shown[report] # Unseen

\* An action is taken on a page at rest; the parts of a load and a transition are never under way together.
ActionInv ==
    /\ ui.action # "none" => page \in EventPages /\ ~ui.loading /\ ~ui.error
    /\ call["put"] # NoCall => ui.action # "none"
    /\ page \in Boards => ~Fetching
    /\ Fetching => ui.loading \/ (ui.action # "none" /\ call["put"] = NoCall)

\* An answer to the event page has read the row, and while nobody crossed the load, the row as it is.
RowOf(c) ==
    /\ c # NoCall => "row" \in c.todo \/ c.seen["row"] # Unseen
    /\ ~crossed /\ c.seen["row"] # Unseen => c.seen["row"] = row
RowInv == \A s \in {"detail", "stats"} : RowOf(call[s])

ReportsInv == ReportsType /\ BoardInv /\ ListInv /\ ActionInv /\ RowInv /\ FinalNumbers

LEMMA ReportsAre ==
  Reports = {"detail", "stats", "timeline", "list", "account", "clients", "platform", "live", "health"}
  BY DEF Reports, Needs

LEMMA NeedsAre == ASSUME NEW report \in Reports PROVE Needs[report] \in SUBSET Reads
  BY ReportsAre DEF Reads, Needs, GetEventDetail, GetEventStats, GetEventTimeline, ListEvents, GetClientOverview,
                    ListClients, GetPlatformOverview, GetLiveEvents, GetSystemHealth

LEMMA NotReadType == NotRead \in Findings
  BY DEF NotRead, Reads, Findings

LEMMA IdleType == NoCall \in Call
  BY NotReadType DEF NoCall, Call, CallKinds, Todo

LEMMA SentType == ASSUME NEW report \in Reports PROVE Ask(report) \in Call
  BY NotReadType, NeedsAre DEF Ask, Call, CallKinds, Todo

LEMMA PutType == ASSUME NEW op \in Transitions PROVE Put(op) \in Call
  BY NotReadType DEF Put, Call, CallKinds, Todo

LEMMA PartsAre == ASSUME NEW p \in OpenPages, ReportsAssumption PROVE Parts(p) \in SUBSET Reports
  BY ReportsAre DEF Parts, ReportsAssumption, EventPages, Lists, Boards

LEMMA EventParts == ASSUME page \in EventPages PROVE Parts(page) = {"detail", "stats"}
<1>1. /\ page \in EventPages /\ page # "dashboard" /\ page # "events" /\ page # "clients"
      /\ page # "overview" /\ page # "system" /\ page # "live"
  BY DEF EventPages
<1> QED  BY <1>1 DEF Parts

LEMMA BoardIs == ASSUME page \in Boards PROVE Board \in {"platform", "health", "live"} /\ Board \in Reports
  BY ReportsAre DEF Board, Parts, Boards, EventPages

LEMMA PolledIs ==
  ASSUME NEW calls \in [Slots -> Call], FreePolls(calls) # {}, NEW report \in Reports
  PROVE  \E p \in Polls : calls[p] = NoCall /\ Polled(calls, report) = [calls EXCEPT ![p] = Ask(report)]
  BY DEF FreePolls, Polled

LEMMA PolledType ==
  ASSUME NEW calls \in [Slots -> Call], FreePolls(calls) # {}, NEW report \in Reports, ReportsAssumption
  PROVE  /\ Polled(calls, report) \in [Slots -> Call]
         /\ \A s \in Reports \cup {"put"} : Polled(calls, report)[s] = calls[s]
<1>1. PICK p \in Polls : Polled(calls, report) = [calls EXCEPT ![p] = Ask(report)]
  BY PolledIs
<1> QED  BY <1>1, SentType DEF Slots, ReportsAssumption

LEMMA AskedType ==
  ASSUME NEW calls \in [Slots -> Call], NEW parts \in SUBSET Reports
  PROVE  /\ Asked(calls, parts) \in [Slots -> Call]
         /\ \A s \in Slots : Asked(calls, parts)[s] = IF s \in parts THEN Ask(s) ELSE calls[s]
  BY SentType DEF Asked

LEMMA NoPartsType ==
  ASSUME ReportsType, ReportsAssumption
  PROVE  /\ NoParts \in [Slots -> Call]
         /\ \A s \in Reports \cup {"put"} : NoParts[s] = NoCall
         /\ FreePolls(NoParts) = FreePolls(call)
  BY IdleType DEF NoParts, ReportsType, Slots, ReportsAssumption, FreePolls

LEMMA FinishedType ==
  ASSUME ReportsType, NEW s \in Slots
  PROVE  Finished(s) \in [Slots -> Call] /\ Finished(s)[s] = NoCall /\ \A t \in Slots \ {s} : Finished(s)[t] = call[t]
  BY IdleType DEF Finished, ReportsType

LEMMA LoadingType == ASSUME NEW u \in Screen PROVE Loading(u) \in Screen
<1> DEFINE loading == page \notin {"overview", "system"}
           fetching == page \in Boards
<1>1. loading \in BOOLEAN /\ fetching \in BOOLEAN
  OBVIOUS
<1>2. Loading(u) = [u EXCEPT !.loading = loading, !.fetching = fetching, !.error = FALSE]
  BY DEF Loading
<1> HIDE DEF loading, fetching
<1> QED  BY <1>1, <1>2 DEF Screen

LEMMA LoadsType ==
  ASSUME NEW calls \in [Slots -> Call], page \in OpenPages, ReportsAssumption,
         page \in Boards => FreePolls(calls) # {}
  PROVE  /\ Loads(calls) \in [Slots -> Call]
         /\ Loads(calls)["put"] = calls["put"]
         /\ \A s \in Reports :
               Loads(calls)[s] = calls[s] \/ (page \notin Boards /\ Loads(calls)[s] = Ask(s))
<1>1. CASE page \in Boards
  BY <1>1, BoardIs, PolledType DEF Loads
<1>2. CASE page \notin Boards
  <2>1. Parts(page) \in SUBSET Reports
    BY PartsAre
  <2>2. "put" \notin Reports
    BY ReportsAre
  <2>3. Loads(calls) = Asked(calls, Parts(page))
    BY <1>2 DEF Loads
  <2>4. /\ Loads(calls) \in [Slots -> Call]
        /\ \A s \in Slots : Loads(calls)[s] = IF s \in Parts(page) THEN Ask(s) ELSE calls[s]
    BY <2>1, <2>3, AskedType
  <2> QED  BY <1>2, <2>1, <2>2, <2>4 DEF Slots
<1> QED  BY <1>1, <1>2

-----------------------------------------------------------------------------
LEMMA ReportsInvInit == ASSUME ReportsAssumption, ReportsInit PROVE ReportsInv
<1> DEFINE none == [s \in Slots |-> NoCall]
           blank == [shown |-> [report \in Reports |-> Unseen], loading |-> FALSE, fetching |-> FALSE,
                     error |-> FALSE, action |-> "none"]
<1>1. none \in [Slots -> Call] /\ FreePolls(none) # {}
  BY IdleType DEF FreePolls, ReportsAssumption, Slots
<1>2. call = Loads(none) /\ ui = Loading(blank) /\ page \in OpenPages
  BY DEF ReportsInit
<1>3. blank \in Screen
  BY DEF Screen
<1> HIDE DEF none, blank
<1>4. ReportsType
  BY <1>1, <1>2, <1>3, LoadsType, LoadingType DEF ReportsInit, ReportsType
<1>5. BoardInv /\ ListInv
  BY <1>2, <1>3 DEF BoardInv, ListInv, Loading, Boards, Screen
<1>6. \A s \in Reports \cup {"put"} : none[s] = NoCall
  BY DEF none, Slots
<1>7. ui.action = "none"
  BY <1>2 DEF blank, Loading
<1>8. ui.loading \/ page \in Boards
  BY <1>2, <1>3 DEF Loading, Screen, Boards
<1>9. call["put"] = NoCall /\ (page \in Boards => ~Fetching)
  BY <1>1, <1>2, <1>6, LoadsType DEF Fetching
<1>10. ActionInv
  BY <1>7, <1>8, <1>9 DEF ActionInv
<1>11. \A s \in Reports : call[s] = NoCall \/ call[s] = Ask(s)
  BY <1>1, <1>2, <1>6, LoadsType
<1>12. RowInv
  BY <1>11, ReportsAre DEF RowInv, RowOf, NoCall, Ask, NotRead, Reads, Needs, GetEventDetail, GetEventStats
<1>13. FinalNumbers
  <2>1. Reports = DOMAIN ui.shown /\ ui.shown["detail"] = Unseen
    BY <1>2, ReportsAre DEF blank, Loading
  <2>2. Unseen # "ENDED"
    BY DEF ReportsAssumption, EventStatuses
  <2> QED  BY <2>1, <2>2 DEF FinalNumbers, Badge
<1> QED  BY <1>4, <1>5, <1>10, <1>12, <1>13 DEF ReportsInv

\* What a step does not touch.
LEMMA LoadingIs ==
  ASSUME ReportsType
  PROVE  /\ Loading(ui).shown = ui.shown /\ Loading(ui).action = ui.action /\ ~Loading(ui).error
         /\ page \in Boards => Loading(ui).fetching
         /\ page \notin Boards => Loading(ui).loading
  BY DEF Loading, ReportsType, Screen, Boards

LEMMA NoneIsNew ==
  ASSUME ReportsAssumption PROVE Unseen \notin EventStatuses /\ Unseen \notin Findings
  BY DEF ReportsAssumption

LEMMA ScreenKept ==
  ASSUME ReportsInv, UNCHANGED <<page, ui>>, crossed => crossed'
  PROVE  BoardInv' /\ ListInv' /\ FinalNumbers'
  BY DEF ReportsInv, BoardInv, ListInv, FinalNumbers, Board, Parts, Badge, Boards, EventPages

LEMMA SlotsKept ==
  ASSUME ReportsInv, UNCHANGED <<page, row>>, crossed => crossed',
         ui'.action = ui.action, page \notin Boards => ui'.loading = ui.loading /\ ui'.error = ui.error,
         \A s \in Reports \cup {"put"} : call'[s] = call[s]
  PROVE  ActionInv' /\ RowInv'
<1>1. /\ call'["put"] = call["put"] /\ (Fetching' <=> Fetching)
      /\ call'["detail"] = call["detail"] /\ call'["stats"] = call["stats"]
  BY ReportsAre DEF Fetching
<1>2. ActionInv'
  BY <1>1 DEF ReportsInv, ActionInv, EventPages, Boards
<1>3. RowInv'
  BY <1>1 DEF ReportsInv, RowInv, RowOf
<1> QED  BY <1>2, <1>3

\* The steps, one by one: the page asks,
LEMMA Timers ==
  ASSUME ReportsInv, ReportsAssumption, BoardTick \/ StatsTick \/ ChartTick PROVE ReportsInv'
<1>1. CASE BoardTick
  <2>1. call' \in [Slots -> Call] /\ \A s \in Reports \cup {"put"} : call'[s] = call[s]
    BY <1>1, PolledType, BoardIs DEF BoardTick, ReportsInv, ReportsType
  <2>2. ReportsType'
    BY <1>1, <2>1 DEF BoardTick, ReportsInv, ReportsType, sale, Screen
  <2>3. BoardInv' /\ ListInv' /\ FinalNumbers'
    BY <1>1 DEF BoardTick, ReportsInv, ReportsType, Screen, BoardInv, ListInv, FinalNumbers, Boards, EventPages
  <2>4. ActionInv' /\ RowInv'
    BY <1>1, <2>1, SlotsKept DEF BoardTick, sale, ReportsInv, ReportsType, Screen
  <2> QED  BY <2>2, <2>3, <2>4 DEF ReportsInv
<1>2. CASE StatsTick \/ ChartTick
  <2>1. call' \in [Slots -> Call] /\ \A s \in Reports \cup {"put"} : call'[s] = call[s]
    <3>1. PICK report \in Reports : call' = Polled(call, report) /\ FreePolls(call) # {}
      BY <1>2, ReportsAre DEF StatsTick, ChartTick
    <3> QED  BY <3>1, PolledType DEF ReportsInv, ReportsType
  <2>2. ReportsType' /\ UNCHANGED <<page, ui, row, crossed>>
    BY <1>2, <2>1 DEF StatsTick, ChartTick, ReportsInv, ReportsType, sale
  <2> QED  BY <2>1, <2>2, ScreenKept, SlotsKept DEF ReportsInv
<1> QED  BY <1>1, <1>2

LEMMA Reloads == ASSUME ReportsInv, ReportsAssumption, Reload PROVE ReportsInv'
<1>1. ui.action = "none"
  BY DEF Reload, View, LoadView, ReportsInv, ActionInv, Boards, EventPages
<1>2. /\ call' \in [Slots -> Call] /\ call'["put"] = call["put"]
      /\ \A s \in Reports : call'[s] = call[s] \/ (page \notin Boards /\ call'[s] = Ask(s))
  BY LoadsType DEF Reload, ReportsInv, ReportsType
<1>3. ReportsType'
  BY <1>2, LoadingType DEF Reload, ReportsInv, ReportsType, sale
<1>4. BoardInv' /\ ListInv' /\ FinalNumbers'
  BY LoadingIs DEF Reload, ReportsInv, BoardInv, ListInv, FinalNumbers, Badge, sale
<1>5. ActionInv'
  BY <1>1, <1>2, LoadingIs DEF Reload, ReportsInv, ActionInv, Fetching
<1>6. RowInv'
  <2>1. SUFFICES ASSUME NEW s \in {"detail", "stats"} PROVE RowOf(call[s])'
    BY DEF RowInv
  <2>2. CASE call'[s] = Ask(s)
    BY <2>2 DEF RowOf, Ask, NotRead, Reads, Needs, GetEventDetail, GetEventStats
  <2>3. CASE call'[s] = call[s]
    BY <2>3 DEF RowOf, RowInv, ReportsInv, Reload, sale
  <2> QED  BY <1>2, <2>2, <2>3, ReportsAre
<1> QED  BY <1>3, <1>4, <1>5, <1>6 DEF ReportsInv

LEMMA Clicks == ASSUME ReportsInv, ReportsAssumption, NEW op \in Transitions, Click(op) PROVE ReportsInv'
<1>1. ~ui.loading /\ ~ui.error /\ page \in EventPages /\ page \notin Boards /\ ui.action = "none"
  <2>1. page \in EventPages /\ page \notin Boards /\ ui.action = "none" /\ LoadView = "reports"
    BY DEF Click, View, Boards, EventPages
  <2>2. ui.loading \in BOOLEAN /\ ui.error \in BOOLEAN
    BY DEF ReportsInv, ReportsType, Screen
  <2> QED  BY <2>1, <2>2 DEF LoadView
<1>2. ~Fetching
  BY <1>1 DEF ReportsInv, ActionInv
<1>3. /\ call' \in [Slots -> Call] /\ \A s \in Reports : call'[s] = call[s]
  <2>1. call \in [Slots -> Call] /\ Put(op) \in Call /\ "put" \notin Reports /\ Reports \subseteq Slots
    BY PutType, ReportsAre DEF ReportsInv, ReportsType, Slots
  <2>2. call' = [call EXCEPT !["put"] = Put(op)]
    BY DEF Click
  <2> HIDE DEF Put
  <2> QED  BY <2>1, <2>2
<1>4. ReportsType'
  BY <1>3 DEF Click, ReportsInv, ReportsType, sale, Screen
<1>5. /\ ui'.shown = ui.shown /\ ui'.loading = ui.loading /\ ui'.error = ui.error /\ ui'.action = op
      /\ op # "none"
  BY DEF Click, ReportsInv, ReportsType, Screen, Transitions
<1>6. BoardInv' /\ ListInv' /\ FinalNumbers'
  BY <1>1, <1>5 DEF Click, ReportsInv, BoardInv, ListInv, FinalNumbers, Badge, sale
<1>7. ActionInv'
  BY <1>1, <1>2, <1>3, <1>5 DEF ActionInv, Click, Fetching
<1>8. RowInv'
  BY <1>3, ReportsAre DEF ReportsInv, RowInv, RowOf, Click, sale
<1> QED  BY <1>4, <1>6, <1>7, <1>8 DEF ReportsInv

\* the gateway and the sale move,
LEMMA PutHeld ==
  ASSUME ReportsInv, ReportsAssumption, call["put"].todo # {}
  PROVE  call["put"] # NoCall /\ ui.action \in Transitions /\ ~Fetching
<1>1. call["put"] # NoCall
  BY DEF NoCall
<1> QED  BY <1>1 DEF ReportsInv, ActionInv, ReportsType, Screen

LEMMA Parted == "put" \notin Reports /\ Reports \subseteq Slots /\ "put" \in Slots
  BY ReportsAre DEF Slots

LEMMA PutChecks == ASSUME ReportsInv, ReportsAssumption, Check PROVE ReportsInv'
<1>1. call["put"].todo # {} /\ call["put"] \in Call
  BY Parted DEF Check, ReportsInv, ReportsType
<1>2. ui.action # "none" /\ ~Fetching
  BY <1>1, PutHeld DEF Transitions
<1>3. PICK put \in Call : call' = [call EXCEPT !["put"] = put]
  <2> DEFINE put == [call["put"] EXCEPT !.seen["row"] = row,
                                        !.todo = IF row \in AllowedFrom(ui.action) THEN {"write"} ELSE {}]
  <2>1. call' = [call EXCEPT !["put"] = put]
    BY Parted DEF Check, ReportsInv, ReportsType
  <2>2. row \in EventStatuses
    BY DEF ReportsInv, ReportsType
  <2>3. put \in Call
    BY <1>1, <2>2 DEF Call, Findings, Todo
  <2> QED  BY <2>1, <2>3
<1>4. call' \in [Slots -> Call] /\ \A s \in Reports : call'[s] = call[s]
  BY <1>3, Parted DEF ReportsInv, ReportsType
<1>5. ReportsType' /\ UNCHANGED <<page, ui, row, crossed>>
  BY <1>4 DEF Check, ReportsInv, ReportsType, sale
<1>6. BoardInv' /\ ListInv' /\ FinalNumbers'
  BY <1>5, ScreenKept
<1>7. ActionInv' /\ RowInv'
  BY <1>2, <1>4, <1>5, ReportsAre DEF ReportsInv, ActionInv, RowInv, RowOf, Fetching
<1> QED  BY <1>5, <1>6, <1>7 DEF ReportsInv

LEMMA RowMoves ==
  ASSUME ReportsInv, ReportsAssumption, row' \in EventStatuses, sold' = sold, UNCHANGED <<page, ui>>,
         call' \in [Slots -> Call], \A s \in Reports : call'[s] = call[s],
         call'["put"] # NoCall => call["put"] # NoCall, call["put"] = NoCall => call'["put"] = NoCall,
         crossed' \in BOOLEAN, crossed => crossed', Fetching => crossed'
  PROVE  ReportsInv'
<1>1. ReportsType'
  BY DEF ReportsInv, ReportsType
<1>2. BoardInv' /\ ListInv' /\ FinalNumbers'
  BY ScreenKept
<1>3. ActionInv'
  BY DEF ReportsInv, ActionInv, Fetching
<1>4. RowInv'
  <2>1. \A s \in Reports : call'[s] = NoCall \/ crossed'
    BY DEF Fetching
  <2>2. \A s \in {"detail", "stats"} : call'[s] = call[s]
    BY ReportsAre
  <2>3. NoCall.seen["row"] = Unseen
    BY DEF NoCall, NotRead, Reads
  <2> QED  BY <2>1, <2>2, <2>3, ReportsAre DEF ReportsInv, RowInv, RowOf
<1> QED  BY <1>1, <1>2, <1>3, <1>4 DEF ReportsInv

LEMMA PutWrites == ASSUME ReportsInv, ReportsAssumption, Write PROVE ReportsInv'
<1>1. call["put"] # NoCall /\ ui.action \in Transitions /\ ~Fetching
  BY PutHeld DEF Write
<1>2. call' \in [Slots -> Call] /\ \A s \in Reports : call'[s] = call[s]
  <2>1. call["put"] \in Call /\ [call["put"] EXCEPT !.todo = {}] \in Call
    BY Parted DEF ReportsInv, ReportsType, Call, Todo
  <2>2. call' = [call EXCEPT !["put"] = [call["put"] EXCEPT !.todo = {}]]
    BY Parted DEF Write, ReportsInv, ReportsType
  <2> QED  BY <2>1, <2>2, Parted DEF ReportsInv, ReportsType
<1>3. row' \in EventStatuses
  BY <1>1 DEF Write, Target, Transitions, EventStatuses
<1> QED  BY <1>1, <1>2, <1>3, RowMoves DEF Write, ReportsInv, ReportsType

LEMMA Elsewhere == ASSUME ReportsInv, ReportsAssumption, NEW op \in Transitions, OpElsewhere(op) PROVE ReportsInv'
<1>1. row' \in EventStatuses
  BY DEF OpElsewhere, Target, Transitions, EventStatuses
<1>2. crossed' \in BOOLEAN /\ (crossed => crossed') /\ (Fetching => crossed')
  BY DEF OpElsewhere, ReportsInv, ReportsType, Fetching
<1> QED  BY <1>1, <1>2, RowMoves DEF OpElsewhere, ReportsInv, ReportsType

LEMMA Sells == ASSUME ReportsInv, Sell PROVE ReportsInv'
<1>1. ReportsType'
  BY DEF Sell, ReportsInv, ReportsType
<1> QED  BY <1>1, ScreenKept, SlotsKept DEF Sell, ReportsInv

\* and the answers come.
LEMMA RowOfFresh ==
  ASSUME ReportsAssumption, NEW s \in {"detail", "stats"}, call'[s] = NoCall \/ call'[s] = Ask(s)
  PROVE  RowOf(call[s])'
  BY DEF RowOf, NoCall, Ask, NotRead, Reads, Needs, GetEventDetail, GetEventStats

LEMMA PutAnswers == ASSUME ReportsInv, ReportsAssumption, PutAnswered PROVE ReportsInv'
<1>1. call["put"] # NoCall /\ ui.action # "none" /\ ~Fetching
  BY DEF PutAnswered, Arrived, ReportsInv, ActionInv
<1>2. Finished("put") \in [Slots -> Call] /\ Finished("put")["put"] = NoCall /\ \A s \in Reports : Finished("put")[s] = NoCall
  BY <1>1, FinishedType, Parted DEF ReportsInv, Fetching
<1>3. Refetched \in SUBSET Reports
  BY ReportsAre DEF Refetched
<1>4. /\ call' \in [Slots -> Call] /\ call'["put"] = NoCall
      /\ \A s \in Reports : call'[s] = NoCall \/ call'[s] = Ask(s)
  BY <1>2, <1>3, AskedType, Parted DEF PutAnswered
<1>5. UNCHANGED <<page, ui, row, crossed, sold>>
  BY DEF PutAnswered, sale
<1>6. ReportsType' /\ BoardInv' /\ ListInv' /\ FinalNumbers'
  BY <1>4, <1>5, ScreenKept DEF ReportsInv, ReportsType
<1>7. ActionInv'
  BY <1>1, <1>4, <1>5 DEF ReportsInv, ActionInv, EventPages, Boards
<1>8. RowInv'
  BY <1>4, RowOfFresh, ReportsAre DEF RowInv
<1> QED  BY <1>6, <1>7, <1>8 DEF ReportsInv

LEMMA Cleared ==
  ASSUME ReportsInv, ReportsAssumption, NEW calls \in [Slots -> Call], call' = calls,
         \A s \in Reports \cup {"put"} : calls[s] = NoCall,
         UNCHANGED page, ui'.action = "none"
  PROVE  ActionInv' /\ RowInv'
<1>1. ~Fetching' /\ call'["put"] = NoCall
  BY DEF Fetching
<1>2. ActionInv'
  BY <1>1 DEF ActionInv
<1>3. RowInv'
  BY RowOfFresh, ReportsAre DEF RowInv
<1> QED  BY <1>2, <1>3

LEMMA ActionFailing ==
  ASSUME ReportsInv, ReportsAssumption, ActionFails, UNCHANGED <<page, row, sold, crossed>> PROVE ReportsInv'
<1>1. NoParts \in [Slots -> Call] /\ \A s \in Reports \cup {"put"} : NoParts[s] = NoCall
  BY NoPartsType DEF ReportsInv
<1>2. /\ ui' \in Screen /\ ui'.shown = ui.shown /\ ui'.loading = ui.loading /\ ui'.error = ui.error
      /\ ui'.fetching = ui.fetching /\ ui'.action = "none"
  BY DEF ActionFails, ReportsInv, ReportsType, Screen
<1>3. ReportsType'
  BY <1>1, <1>2 DEF ActionFails, ReportsInv, ReportsType
<1>4. BoardInv' /\ ListInv' /\ FinalNumbers'
  BY <1>2 DEF ReportsInv, BoardInv, ListInv, FinalNumbers, Board, Parts, Badge, Boards, EventPages
<1>5. ActionInv' /\ RowInv'
  BY <1>1, <1>2, Cleared DEF ActionFails
<1> QED  BY <1>3, <1>4, <1>5 DEF ReportsInv

LEMMA Refuses == ASSUME ReportsInv, ReportsAssumption, Refused PROVE ReportsInv'
  BY ActionFailing DEF Refused, sale

LEMMA PollDone ==
  ASSUME ReportsInv, ReportsAssumption, NEW s \in Polls
  PROVE  Finished(s) \in [Slots -> Call] /\ \A t \in Reports \cup {"put"} : Finished(s)[t] = call[t]
<1>1. s \in Slots /\ s \notin Reports \cup {"put"}
  BY DEF Slots, ReportsAssumption
<1> QED  BY <1>1, FinishedType, Parted DEF ReportsInv

LEMMA ChartAnswers == ASSUME ReportsInv, ReportsAssumption, NEW s \in Polls, ChartAnswered(s) PROVE ReportsInv'
<1>1. call' \in [Slots -> Call] /\ \A t \in Reports \cup {"put"} : call'[t] = call[t]
  BY PollDone DEF ChartAnswered
<1>2. ReportsType' /\ UNCHANGED <<page, ui, row, crossed>>
  BY <1>1 DEF ChartAnswered, ReportsInv, ReportsType, sale
<1> QED  BY <1>1, <1>2, ScreenKept, SlotsKept DEF ReportsInv

LEMMA StatsAnswers == ASSUME ReportsInv, ReportsAssumption, NEW s \in Polls, StatsAnswered(s) PROVE ReportsInv'
<1>1. call' \in [Slots -> Call] /\ \A t \in Reports \cup {"put"} : call'[t] = call[t]
  BY PollDone DEF StatsAnswered
<1>2. call[s].seen \in Findings /\ call[s].seen # Unseen
  BY NoneIsNew DEF ReportsInv, ReportsType, Call, Slots
<1>3. ui' = [ui EXCEPT !.shown = [ui.shown EXCEPT !["stats"] = call[s].seen]] /\ UNCHANGED <<page, row, sold>>
  BY DEF StatsAnswered, ReportsInv, ReportsType, Screen, sale
<1>4. /\ ui' \in Screen /\ ui'.loading = ui.loading /\ ui'.error = ui.error
      /\ ui'.fetching = ui.fetching /\ ui'.action = ui.action
      /\ \A report \in Reports :
            ui'.shown[report] = ui.shown[report] \/ (report = "stats" /\ ui'.shown[report] # Unseen)
  BY <1>2, <1>3 DEF ReportsInv, ReportsType, Screen
<1>5. crossed' \in BOOLEAN /\ (crossed => crossed') /\ (crossed' \/ Polling)
  BY DEF StatsAnswered, ReportsInv, ReportsType, Polling
<1>6. ReportsType'
  BY <1>1, <1>3, <1>4, <1>5 DEF ReportsInv, ReportsType
<1>7. BoardInv'
  BY <1>3, <1>4, BoardIs DEF ReportsInv, BoardInv, Board, Parts, Boards, EventPages
<1>8. ListInv'
  <2>1. Parts(page) \in SUBSET Reports
    BY PartsAre DEF ReportsInv, ReportsType
  <2> QED  BY <1>3, <1>4, <2>1 DEF ReportsInv, ListInv, Parts, Boards, EventPages
<1>9. FinalNumbers'
  <2>1. ui'.shown["detail"] = ui.shown["detail"]
    BY <1>4, ReportsAre
  <2>2. Badge' = Badge
    BY <2>1 DEF Badge
  <2> QED  BY <1>5, <2>2 DEF FinalNumbers, Polling
<1>10. ActionInv' /\ RowInv'
  BY <1>1, <1>3, <1>4, <1>5, SlotsKept
<1> QED  BY <1>6, <1>7, <1>8, <1>9, <1>10 DEF ReportsInv

LEMMA BoardAnswers == ASSUME ReportsInv, ReportsAssumption, NEW s \in Polls, BoardAnswered(s) PROVE ReportsInv'
<1>1. call' \in [Slots -> Call] /\ \A t \in Reports \cup {"put"} : call'[t] = call[t]
  BY PollDone DEF BoardAnswered
<1>2. call[s].seen \in Findings /\ call[s].seen # Unseen
  BY NoneIsNew DEF ReportsInv, ReportsType, Call, Slots
<1>3. page \in Boards /\ Board \in Reports /\ page \notin EventPages
  BY BoardIs DEF BoardAnswered, Boards, EventPages
<1>4. ui' = [ui EXCEPT !.shown = [ui.shown EXCEPT ![Board] = call[s].seen],
                       !.fetching = FALSE, !.loading = FALSE]
  BY DEF BoardAnswered, ReportsInv, ReportsType, Screen
<1>5. ui' \in Screen /\ ui'.action = ui.action /\ ui'.shown[Board] # Unseen
  BY <1>2, <1>3, <1>4 DEF ReportsInv, ReportsType, Screen
<1>6. ReportsType' /\ UNCHANGED <<page, row, crossed>>
  BY <1>1, <1>5 DEF BoardAnswered, ReportsInv, ReportsType, sale
<1>7. Board' = Board
  BY <1>6 DEF Board, Parts, EventPages
<1>8. BoardInv' /\ ListInv' /\ FinalNumbers'
  BY <1>3, <1>5, <1>6, <1>7 DEF BoardInv, ListInv, FinalNumbers, Boards, EventPages
<1>9. ActionInv' /\ RowInv'
  BY <1>1, <1>3, <1>5, <1>6, SlotsKept
<1> QED  BY <1>6, <1>8, <1>9 DEF ReportsInv

LEMMA NowType ==
  ASSUME ReportsType, NEW seen \in Findings, NEW r \in Reads PROVE [seen EXCEPT ![r] = Now(r)] \in Findings
<1>1. CASE r = "row"
  BY <1>1 DEF Now, ReportsType, Findings
<1>2. CASE r = "sold"
  BY <1>2 DEF Now, ReportsType, Findings
<1>3. CASE r = "counted"
  BY <1>3 DEF Now, ReportsType, Findings
<1> QED  BY <1>1, <1>2, <1>3 DEF Reads

LEMMA ReadType ==
  ASSUME ReportsInv, NEW s \in Slots, NEW r \in Reads, Read(s, r)
  PROVE  \E todo \in SUBSET call[s].todo : LET c == [call[s] EXCEPT !.todo = todo, !.seen[r] = Now(r)] IN
            /\ c \in Call /\ call' = [call EXCEPT ![s] = c]
            /\ "row" \in call[s].todo /\ r # "row" => "row" \in todo
<1> DEFINE spared == IF r = "row" /\ row # "ACTIVE" /\ ActiveOnly(call[s].asks) THEN {"row", "sold"} ELSE {r}
           todo == call[s].todo \ spared
           c == [call[s] EXCEPT !.todo = todo, !.seen[r] = Now(r)]
<1>1. call \in [Slots -> Call] /\ call[s] \in Call
  BY DEF ReportsInv, ReportsType
<1>2. todo \in SUBSET call[s].todo /\ ("row" \in call[s].todo /\ r # "row" => "row" \in todo)
  OBVIOUS
<1>3. call' = [call EXCEPT ![s] = c]
  BY <1>1 DEF Read
<1>4. [call[s].seen EXCEPT ![r] = Now(r)] \in Findings
  BY <1>1, NowType DEF ReportsInv, Call
<1> HIDE DEF todo
<1>5. c \in Call
  BY <1>1, <1>2, <1>4 DEF Call, Todo
<1> QED  BY <1>2, <1>3, <1>5

LEMMA ReadsKeep == ASSUME ReportsInv, ReportsAssumption, NEW s \in Slots, NEW r \in Reads,
   Read(s, r) PROVE ReportsInv'
<1>1. PICK todo \in SUBSET call[s].todo : LET c == [call[s] EXCEPT !.todo = todo, !.seen[r] = Now(r)] IN
            /\ c \in Call /\ call' = [call EXCEPT ![s] = c]
            /\ "row" \in call[s].todo /\ r # "row" => "row" \in todo
  BY ReadType
<1> DEFINE c == [call[s] EXCEPT !.todo = todo, !.seen[r] = Now(r)]
<1>2. c \in Call /\ call' = [call EXCEPT ![s] = c] /\ ("row" \in call[s].todo /\ r # "row" => "row" \in todo)
  BY <1>1
<1>3. call \in [Slots -> Call] /\ call[s] \in Call
  BY DEF ReportsInv, ReportsType
<1>4. c.todo = todo /\ c.seen["row"] = (IF r = "row" THEN row ELSE call[s].seen["row"])
  BY <1>3 DEF Call, Findings, Now, Reads
<1>5. s # "put" /\ call[s] # NoCall
  BY DEF Read, NoCall
<1> HIDE DEF c
<1>6. call' \in [Slots -> Call] /\ call'["put"] = call["put"] /\ (Fetching' => Fetching)
  BY <1>2, <1>3, <1>5, Parted DEF Fetching
<1>7. ReportsType' /\ UNCHANGED <<page, ui, row, crossed>>
  BY <1>6 DEF Read, ReportsInv, ReportsType, sale
<1>8. BoardInv' /\ ListInv' /\ FinalNumbers'
  BY <1>7, ScreenKept
<1>9. ActionInv'
  BY <1>6, <1>7 DEF ReportsInv, ActionInv, EventPages, Boards
<1>10. RowInv'
  <2>1. SUFFICES ASSUME NEW t \in {"detail", "stats"} PROVE RowOf(call[t])'
    BY DEF RowInv
  <2>2. RowOf(call[t]) /\ t \in Slots
    BY ReportsAre, Parted DEF ReportsInv, RowInv
  <2>3. CASE t # s
    BY <1>2, <1>3, <1>7, <2>2, <2>3 DEF RowOf
  <2>4. CASE t = s
    <3>1. row \in EventStatuses /\ row # Unseen
      BY NoneIsNew DEF ReportsInv, ReportsType
    <3>2. call'[t] = c
      BY <1>2, <1>3, <2>4
    <3> QED  BY <1>2, <1>4, <1>5, <1>7, <2>2, <2>4, <3>1, <3>2 DEF RowOf
  <2> QED  BY <2>3, <2>4
<1> QED  BY <1>7, <1>8, <1>9, <1>10 DEF ReportsInv

LEMMA Completes ==
  ASSUME ReportsInv, ReportsAssumption, page \notin Boards, Complete(Parts(page)) PROVE ReportsInv'
<1> DEFINE parts == Parts(page)
           shown == [report \in Reports |->
                        IF report \in parts THEN call[report].seen ELSE ui.shown[report]]
<1>1. parts \in SUBSET Reports /\ call \in [Slots -> Call] /\ ui \in Screen
  BY PartsAre DEF ReportsInv, ReportsType
<1>2. \A report \in Reports : call[report].seen \in Findings /\ call[report].seen # Unseen
  BY <1>1, Parted, NoneIsNew DEF Call
<1>3. shown \in [Reports -> Findings \cup {Unseen}] /\ \A report \in parts : shown[report] # Unseen
  BY <1>1, <1>2 DEF Screen
<1>4. ui' = [ui EXCEPT !.shown = shown, !.loading = FALSE, !.action = "none"]
  BY <1>1 DEF Complete, Screen
<1> HIDE DEF shown
<1>5. ui' \in Screen /\ ui'.shown = shown /\ ui'.action = "none"
  BY <1>1, <1>3, <1>4 DEF Screen
<1>6. UNCHANGED <<page, row, sold, crossed>>
  BY DEF Complete, sale
<1>7. /\ NoParts \in [Slots -> Call] /\ FreePolls(NoParts) = FreePolls(call)
      /\ \A s \in Reports \cup {"put"} : NoParts[s] = NoCall
  BY NoPartsType DEF ReportsInv
<1>8. call' \in [Slots -> Call] /\ \A s \in Reports \cup {"put"} : call'[s] = NoCall
  <2>1. call' = NoParts \/ (call' = Polled(NoParts, "timeline") /\ FreePolls(NoParts) # {})
    BY <1>7 DEF Complete
  <2>2. "timeline" \in Reports
    BY ReportsAre
  <2> QED  BY <1>7, <2>1, <2>2, PolledType
<1>9. ReportsType'
  BY <1>5, <1>6, <1>8 DEF ReportsInv, ReportsType
<1>10. BoardInv' /\ ListInv'
  BY <1>3, <1>5, <1>6 DEF BoardInv, ListInv, Boards, Parts, EventPages
<1>11. ActionInv' /\ RowInv'
  BY <1>5, <1>6, <1>8, Cleared
<1>12. FinalNumbers'
  <2>1. SUFFICES ASSUME page \in EventPages, Badge' = "ENDED", ~crossed PROVE ui'.shown["stats"].row = "ENDED"
    BY <1>6 DEF FinalNumbers, EventPages
  <2>2. parts = {"detail", "stats"}
    BY <2>1, EventParts
  <2>3. \A s \in {"detail", "stats"} : shown[s] = call[s].seen
    BY <2>2, ReportsAre DEF shown
  <2>4. \A s \in {"detail", "stats"} : call[s].seen["row"] = row
    BY <2>1, <2>2 DEF Complete, Arrived, ReportsInv, RowInv, RowOf
  <2>5. Badge' = Unseen \/ Badge' = shown["detail"].row
    BY <1>5 DEF Badge
  <2>6. row = "ENDED"
    BY <2>1, <2>3, <2>4, <2>5, NoneIsNew DEF EventStatuses
  <2> QED  BY <1>5, <2>3, <2>4, <2>6
<1> QED  BY <1>9, <1>10, <1>11, <1>12 DEF ReportsInv

LEMMA CompleteAnswers == ASSUME ReportsInv, ReportsAssumption, LoadAnswered \/ ActionAnswered PROVE ReportsInv'
<1>1. CASE LoadAnswered
  BY <1>1, Completes DEF LoadAnswered
<1>2. CASE ActionAnswered
  <2>1. page \in EventPages /\ page \notin Boards
    BY <1>2 DEF ActionAnswered, ReportsInv, ActionInv, EventPages, Boards
  <2>2. Refetched = Parts(page)
    BY <2>1, EventParts DEF Refetched
  <2> QED  BY <1>2, <2>1, <2>2, Completes DEF ActionAnswered
<1> QED  BY <1>1, <1>2

LEMMA LoadFailing ==
  ASSUME ReportsInv, ReportsAssumption, ui' = LoadFailed, UNCHANGED <<page, row, sold, crossed>>, ui.action = "none",
         NEW calls \in [Slots -> Call], call' = calls,
         \A s \in Reports \cup {"put"} : calls[s] = NoCall
  PROVE  ReportsInv'
<1>1. ui' \in Screen /\ ui'.shown = ui.shown /\ ui'.error /\ ui'.action = "none"
  BY DEF LoadFailed, ReportsInv, ReportsType, Screen
<1>2. ReportsType'
  BY <1>1 DEF ReportsInv, ReportsType
<1>3. BoardInv' /\ ListInv' /\ FinalNumbers'
  BY <1>1 DEF ReportsInv, BoardInv, ListInv, FinalNumbers, Badge, EventPages
<1>4. ActionInv' /\ RowInv'
  BY <1>1, Cleared
<1> QED  BY <1>2, <1>3, <1>4 DEF ReportsInv

LEMMA CallFails == ASSUME ReportsInv, ReportsAssumption, NEW s \in Slots, Fail(s) PROVE ReportsInv'
<1>1. UNCHANGED <<page, row, sold, crossed>>
  BY DEF Fail, sale
<1>2. CASE s \notin Polls /\ ui.action = "none"
  <2>1. NoParts \in [Slots -> Call] /\ \A t \in Reports \cup {"put"} : NoParts[t] = NoCall
    BY NoPartsType DEF ReportsInv
  <2>2. ui' = LoadFailed /\ call' = NoParts
    BY <1>2 DEF Fail
  <2> QED  BY <1>1, <1>2, <2>1, <2>2, LoadFailing
<1>3. CASE s \notin Polls /\ ui.action # "none"
  BY <1>1, <1>3, ActionFailing DEF Fail
<1>4. CASE s \in Polls
  <2>1. call' = Finished(s)
    BY <1>4 DEF Fail
  <2>2. call' \in [Slots -> Call] /\ \A t \in Reports \cup {"put"} : call'[t] = call[t]
    BY <1>4, <2>1, PollDone
  <2>3. CASE ui' = ui
    BY <1>1, <2>2, <2>3, ScreenKept, SlotsKept DEF ReportsInv, ReportsType
  <2>4. CASE ui' = LoadFailed /\ page \in Boards
    <3>1. call["put"] = NoCall /\ ~Fetching /\ ui.action = "none"
      BY <2>4 DEF ReportsInv, ActionInv, Boards, EventPages
    <3>2. \A t \in Reports \cup {"put"} : call'[t] = NoCall
      BY <2>2, <3>1 DEF Fetching
    <3> QED  BY <1>1, <2>1, <2>2, <2>4, <3>1, <3>2, LoadFailing
  <2> QED  BY <1>4, <2>3, <2>4 DEF Fail
<1> QED  BY <1>2, <1>3, <1>4

LEMMA ReportsInvNext == ASSUME ReportsInv, ReportsAssumption, [ReportsNext]_reportVars PROVE ReportsInv'
<1>1. CASE UNCHANGED reportVars
  <2>1. ReportsType' /\ UNCHANGED <<page, ui, row, crossed, call>>
    BY <1>1 DEF reportVars, ReportsInv, ReportsType
  <2> QED  BY <2>1, ScreenKept, SlotsKept DEF ReportsInv
<1> QED  BY <1>1, Timers, Reloads, Clicks, PutChecks, PutWrites, Elsewhere, Sells, PutAnswers, Refuses,
            ChartAnswers, StatsAnswers, BoardAnswers, ReadsKeep, CompleteAnswers, CallFails DEF ReportsNext

LEMMA InvShows == ASSUME ReportsInv PROVE ShownTruly
<1>1. CASE page \in Boards
  BY <1>1 DEF ReportsInv, BoardInv, ShownTruly, NeverBlank, View, BoardView, LiveView, Boards, Board, Parts,
              EventPages
<1>2. CASE page \notin Boards
  BY <1>2 DEF ReportsInv, ListInv, ShownTruly, NeverBlank, View, LoadView, Boards
<1> QED  BY <1>1, <1>2

\* Whatever overtakes what, fails or changes elsewhere, no page of the dashboard is left blank, and an
\* event page whose badge says ENDED shows the statistics of the ended sale unless a load was crossed.
THEOREM PagesShowTruly == ReportsSpec => []ShownTruly
<1>1. ReportsSpec => []ReportsInv
  BY ReportsAssumption, ReportsInvInit, ReportsInvNext, PTL DEF ReportsSpec
<1> QED  BY <1>1, InvShows, PTL
=============================================================================
