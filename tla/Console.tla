------------------------------- MODULE Console -------------------------------
(***************************************************************************)
(* The dashboard (apps/saas-dashboard/src) and the accounts behind it.     *)
(* Tabs of a few browsers share one cookie per browser, flash_token; each  *)
(* keeps its own idea of who is signed in (lib/auth-context.tsx) and of    *)
(* the event it shows (app/{dashboard,admin}/events/[id]/page.tsx).  The   *)
(* gateway reads the account on every request (admin-auth.middleware.ts),  *)
(* and again the row the request is about, before it writes: between the   *)
(* two an administrator may suspend the account.                           *)
(*                                                                         *)
(* Every client has one event; what a transition does beyond its row in    *)
(* Postgres is the subject of EventLifecycle.                              *)
(***************************************************************************)
CONSTANTS
    Clients, Boss,  \* the accounts; Boss is the super admin
    None,           \* no account, no event
    Browsers, Tabs,
    Requests,       \* requests that may be under way at a time
    Urls, Forms,    \* the pages a user opens by address; the forms he fills in
    Buttons         \* the actions of the event pages that are taken

ASSUME ConsoleAssumption ==
    /\ Boss \notin Clients /\ None \notin Clients /\ None # Boss /\ None \notin Tabs
    /\ Urls \subseteq {"login", "suspended", "dashboard", "admin"} /\ Forms \subseteq {"login", "signup"}
    /\ Buttons \subseteq {"activate", "pause", "resume", "end"}

Accounts == Clients \cup {Boss}

VARIABLES
    registered, \* accounts that exist
    suspended,  \* accounts whose suspended flag is set
    status,     \* events: their rows in Postgres
    browser,    \* the browser of a tab
    cookie,     \* browsers: the account of the token in flash_token
    tab,        \* tabs: page, user, isLoading, the event opened and the status it shows
    req,        \* requests: from the click to the answer
    mixed,      \* history of tabs: the cookie is not as the tab left or found it, or was written under a `me`
    overtaken,  \* history of requests: admitted before the flag of the account was set
    missed      \* history of events: open on a suspended account, since they were opened by an
                \* overtaken request or by Boss, or left when a suspension failed half-way

vars == <<registered, suspended, status, browser, cookie, tab, req, mixed, overtaken, missed>>

Pages    == {"login", "suspended", "dashboard", "admin"}
Statuses == {"PENDING", "ACTIVE", "PAUSED", "ENDED"}
Ops      == {"activate", "pause", "resume", "end"}
Kinds    == {"me", "login", "signup", "view", "act", "suspend", "unsuspend"}
\* What a request is about.
Subjects(kind) == CASE kind = "me" -> {None} [] kind \in {"login", "signup"} -> Accounts [] OTHER -> Clients
Answers  == {"ok", "expired", "suspended", "refused"}

Idle == [kind |-> "me", tab |-> None, by |-> None, of |-> None, op |-> "end",
         at |-> "idle", answer |-> "refused", heard |-> "no", sees |-> "none"]

TypeOK ==
    /\ registered \subseteq Accounts /\ suspended \subseteq Clients
    /\ status \in [Clients -> Statuses]
    /\ browser \in [Tabs -> Browsers]
    /\ cookie \in [Browsers -> Accounts \cup {None}]
    /\ tab \in [Tabs -> [page : Pages, user : Accounts \cup {None}, loading : BOOLEAN,
                         event : Clients \cup {None}, shown : Statuses \cup {"none"}]]
    /\ req \in [Requests -> [kind : Kinds, tab : Tabs \cup {None}, by : Accounts \cup {None},
                             of : Accounts \cup {None}, op : Ops,
                             at : {"idle", "sent", "admitted", "checked", "flagged", "found", "answered"},
                             answer : Answers, heard : {"page", "tab", "no"}, sees : Statuses \cup {"none"}]]
    /\ \A r \in Requests : req[r].of \in Subjects(req[r].kind)
    /\ mixed \in [Tabs -> BOOLEAN]
    /\ overtaken \subseteq Requests /\ missed \subseteq Clients

Blank(page) == [page |-> page, user |-> None, loading |-> FALSE, event |-> None, shown |-> "none"]

Init ==
    /\ registered = {Boss} /\ suspended = {}
    /\ status = [c \in Clients |-> "PENDING"]
    /\ browser \in [Tabs -> Browsers]
    /\ cookie = [b \in Browsers |-> None]
    /\ tab = [t \in Tabs |-> Blank("login")]
    /\ req = [r \in Requests |-> Idle]
    /\ mixed = [t \in Tabs |-> FALSE]
    /\ overtaken = {} /\ missed = {}

UnchangedGateway == UNCHANGED <<registered, suspended, status, overtaken, missed>>

-----------------------------------------------------------------------------
(* Cookies and pages.                                                       *)

Cookie(t) == cookie[browser[t]]
Shared(t) == {s \in Tabs \ {t} : browser[s] = browser[t]}

\* The page the middleware lets a browser with this cookie see.
Middleware(c, page) ==
    CASE page \in {"dashboard", "admin"} /\ c = None -> "login"
      [] page = "login" /\ c # None -> "dashboard"
      [] OTHER -> page

\* The answer of a `me` of the tab may still come.
Asking(t) == \E r \in Requests : req[r].tab = t /\ req[r].kind = "me"

\* The tab t writes the cookie of its browser; what it knows of it from now on is mix.
SetCookie(t, c, mix) ==
    /\ cookie' = [cookie EXCEPT ![browser[t]] = c]
    /\ mixed' = [s \in Tabs |-> IF s = t THEN mix ELSE mixed[s] \/ (s \in Shared(t) /\ c # Cookie(t))]

\* An answer that leaves nothing but a message, or that the page is not there for.
Unnoticed(q, answer) ==
    \/ q.heard = "no"
    \/ answer = "refused" /\ q.kind # "me"
    \/ answer = "ok" /\ q.kind \in {"suspend", "unsuspend"}
    \/ answer = "ok" /\ q.kind = "view" /\ q.heard = "tab"

\* A request whose tab is gone: the gateway goes on with it, nobody hears the answer.
Abandoned(q) ==
    IF q.at = "answered" \/ q.kind \notin {"signup", "act", "suspend", "unsuspend"} THEN Idle
    ELSE [q EXCEPT !.heard = "no", !.tab = None]

\* The requests after t has left its page, or its document.
Unheard(q) == IF q.at = "answered" /\ Unnoticed([q EXCEPT !.heard = "tab"], q.answer) THEN Idle ELSE [q EXCEPT !.heard = "tab"]
LeftPage(t) == [r \in Requests |-> IF req[r].tab = t /\ req[r].heard = "page" THEN Unheard(req[r]) ELSE req[r]]
Unloaded(t) == [r \in Requests |-> IF req[r].tab = t /\ req[r].heard # "no" THEN Abandoned(req[r]) ELSE req[r]]

Sent(t, kind, of, op, heard) ==
    [kind |-> kind, tab |-> t, by |-> Cookie(t), of |-> of, op |-> op,
     at |-> "sent", answer |-> "refused", heard |-> heard, sees |-> "none"]

\* One more request, of a tab that stays where it is.
Send(t, r, kind, of, op, heard) ==
    /\ req[r] = Idle
    /\ req' = [req EXCEPT ![r] = Sent(t, kind, of, op, heard)]

-----------------------------------------------------------------------------
(* The document: AuthProvider and the shells.                               *)

\* The mount effect of AuthProvider with a cookie: isLoading until `me` has answered.
Mounted(t, r, page) ==
    /\ tab' = [tab EXCEPT ![t] = [Blank(Middleware(Cookie(t), page)) EXCEPT !.loading = TRUE]]
    /\ req' = [Unloaded(t) EXCEPT ![r] = Sent(t, "me", None, "end", "tab")]

\* A URL is opened, or the page loaded again.
Load(t, r, page) ==
    /\ mixed' = [mixed EXCEPT ![t] = FALSE]
    /\ \/ /\ Cookie(t) # None
          /\ Unloaded(t)[r] = Idle
          /\ Mounted(t, r, page)
       \/ /\ Cookie(t) = None
          /\ tab' = [tab EXCEPT ![t] = Blank(Middleware(None, page))]
          /\ req' = Unloaded(t)
    /\ UNCHANGED <<browser, cookie>> /\ UnchangedGateway

\* The tab moves within the document.
GoTo(t, page) ==
    /\ tab' = [tab EXCEPT ![t].page = page, ![t].event = None, ![t].shown = "none"]

Home(c) == IF c = Boss THEN "admin" ELSE "dashboard"

\* The effect of the shells: a page is for one role only.
Misplaced(t) ==
    /\ ~tab[t].loading
    /\ \/ tab[t].page \in {"dashboard", "admin"} /\ tab[t].user = None
       \/ tab[t].page = "dashboard" /\ tab[t].user = Boss
       \/ tab[t].page = "admin" /\ tab[t].user \in Clients

Shell(t) ==
    /\ Misplaced(t)
    /\ GoTo(t, Middleware(Cookie(t), IF tab[t].user = None THEN "login" ELSE Home(tab[t].user)))
    /\ req' = LeftPage(t)
    /\ UNCHANGED <<browser, cookie, mixed>> /\ UnchangedGateway

\* What the shells let the user see and press.
Ready(t) == tab[t].page \in {"dashboard", "admin"} /\ ~tab[t].loading /\ tab[t].user # None /\ ~Misplaced(t)

\* logout, of the sidebars and of the page of suspended accounts.
Logout(t) ==
    /\ Ready(t) \/ tab[t].page = "suspended"
    /\ SetCookie(t, None, Asking(t))
    /\ tab' = [tab EXCEPT ![t] = [Blank("login") EXCEPT !.loading = tab[t].loading]]
    /\ req' = LeftPage(t)
    /\ UNCHANGED browser /\ UnchangedGateway

\* handleSubmit of the two forms; the button waits for the answer.
Submit(t, r, kind, c) ==
    /\ tab[t].page = "login"
    /\ ~\E s \in Requests : req[s].tab = t /\ req[s].kind \in {"login", "signup"}
    /\ kind = "signup" => c \in Clients
    /\ Send(t, r, kind, c, "end", "tab")
    /\ UNCHANGED <<browser, cookie, tab, mixed>> /\ UnchangedGateway

-----------------------------------------------------------------------------
(* The event pages and the page of clients.                                 *)

\* load, of an event page that is opened: what it showed before is gone.
Open(t, r, c) ==
    /\ Ready(t) /\ c \in registered
    /\ req[r] = Idle
    /\ req' = [LeftPage(t) EXCEPT ![r] = Sent(t, "view", c, "end", "page")]
    /\ tab' = [tab EXCEPT ![t].event = c, ![t].shown = "none"]
    /\ UNCHANGED <<browser, cookie, mixed>> /\ UnchangedGateway

\* The buttons of the two pages.
OfferedToOwner(st) ==
    CASE st = "PENDING" -> {"activate"}
      [] st = "ACTIVE"  -> {"end"}
      [] OTHER -> {}
OfferedToAdmin(st) ==
    CASE st = "PENDING" -> {"activate", "end"}
      [] st = "ACTIVE"  -> {"pause"}
      [] st = "PAUSED"  -> {"resume", "end"}
      [] OTHER -> {}
Offered(t) == IF tab[t].page = "admin" THEN OfferedToAdmin(tab[t].shown) ELSE OfferedToOwner(tab[t].shown)

\* While it waits for an answer the page shows a spinner, or its buttons do nothing.
Waiting(t) == \E r \in Requests : req[r].tab = t /\ req[r].heard = "page"

\* handleActivate, handleEnd and runAction, up to their first await.
Act(t, r, op) ==
    /\ Ready(t) /\ tab[t].event # None /\ ~Waiting(t) /\ op \in Offered(t)
    /\ Send(t, r, "act", tab[t].event, op, "page")
    /\ UNCHANGED <<browser, cookie, tab, mixed>> /\ UnchangedGateway

\* confirmAction of the page of clients; the list it shows may be an old one, and a request
\* for an account nobody has is answered with 404.
Moderate(t, r, kind, c) ==
    /\ Ready(t) /\ tab[t].page = "admin" /\ tab[t].event = None
    /\ ~Waiting(t)
    /\ Send(t, r, kind, c, "end", "page")
    /\ UNCHANGED <<browser, cookie, tab, mixed>> /\ UnchangedGateway

\* Back to the list.
Close(t) ==
    /\ Ready(t) /\ tab[t].event # None
    /\ GoTo(t, tab[t].page)
    /\ req' = LeftPage(t)
    /\ UNCHANGED <<browser, cookie, mixed>> /\ UnchangedGateway

-----------------------------------------------------------------------------
(* The gateway.                                                             *)

UnchangedPages == UNCHANGED <<browser, cookie, tab, mixed>>

Answered(r, answer, view) ==
    req' = [req EXCEPT ![r] = IF Unnoticed(@, answer) THEN Idle ELSE [@ EXCEPT !.at = "answered", !.answer = answer, !.sees = view, !.op = "end"]]
Goes(r, at) == req' = [req EXCEPT ![r].at = at]

\* What a suspension that stops half-way leaves open.
LeftOpen(c) == missed' = IF c \in suspended' /\ status[c] = "ACTIVE" THEN missed \cup {c} ELSE missed

\* The request never arrives, or the next read or write of its handler rejects: 500, and what
\* the handler did before stays done.
Fails(r) ==
    /\ req[r].at \notin {"idle", "answered"}
    /\ Answered(r, "refused", "none")
    /\ overtaken' = overtaken \ {r}
    /\ UNCHANGED <<registered, suspended, status>> /\ UnchangedPages
    /\ IF req[r].at \in {"flagged", "found"} THEN LeftOpen(req[r].of) ELSE UNCHANGED missed

\* login: one read of the account, and the password may be wrong.
Login(r) ==
    /\ req[r].at = "sent" /\ req[r].kind = "login"
    /\ \/ Answered(r, "expired", "none")
       \/ req[r].of \in registered /\ Answered(r, IF req[r].of \in suspended THEN "suspended" ELSE "ok", "none")
    /\ UnchangedPages /\ UnchangedGateway

\* signup: the address is looked up, and its row is created after the hash is computed.
SignupChecks(r) ==
    /\ req[r].at = "sent" /\ req[r].kind = "signup"
    /\ IF req[r].of \in registered THEN Answered(r, "refused", "none") ELSE Goes(r, "checked")
    /\ UnchangedPages /\ UnchangedGateway
\* The address is unique in the table; the answer may be lost.
SignupCreates(r) ==
    /\ req[r].at = "checked" /\ req[r].kind = "signup"
    /\ \E answer \in IF req[r].of \in registered THEN {"refused"} ELSE {"ok", "refused"} : Answered(r, answer, "none")
    /\ registered' = registered \cup {req[r].of}
    /\ UNCHANGED <<suspended, status, overtaken, missed>> /\ UnchangedPages

\* getMe reads the account of the token.
GetMe(r) ==
    /\ req[r].at = "sent" /\ req[r].kind = "me"
    /\ Answered(r, IF req[r].by \in suspended THEN "expired" ELSE "ok", "none")
    /\ UnchangedPages /\ UnchangedGateway

Mine(r) == req[r].by \in {Boss, req[r].of}

\* getEvent and getEventStats answer with the row.
GetEvent(r) == IF Mine(r) THEN Answered(r, "ok", status[req[r].of]) ELSE Answered(r, "refused", "none")

\* requireAdminAuth reads the account of the token; requireRole looks at its role.
Shut(r)   == req[r].by \in {None} \cup suspended
Barred(r) == req[r].kind \in {"suspend", "unsuspend"} /\ req[r].by # Boss

RequireAdminAuth(r) ==
    /\ req[r].at = "sent" /\ req[r].kind \in {"view", "act", "suspend", "unsuspend"}
    /\ \/ Shut(r) /\ Answered(r, "expired", "none")
       \/ ~Shut(r) /\ Barred(r) /\ Answered(r, "refused", "none")
       \/ ~Shut(r) /\ req[r].kind = "view" /\ GetEvent(r)
       \/ ~Shut(r) /\ ~Barred(r) /\ req[r].kind # "view" /\ Goes(r, "admitted")
    /\ UnchangedPages /\ UnchangedGateway

\* The checks of activateEvent, pauseEvent, resumeEvent and endEvent.
Allowed(r) ==
    /\ Mine(r)
    /\ CASE req[r].op = "activate" -> status[req[r].of] = "PENDING"
         [] req[r].op = "pause"  -> req[r].by = Boss /\ status[req[r].of] = "ACTIVE"
         [] req[r].op = "resume" -> req[r].by = Boss /\ status[req[r].of] = "PAUSED"
         [] req[r].op = "end"    -> status[req[r].of] # "ENDED"

CheckEvent(r) ==
    /\ req[r].at = "admitted" /\ req[r].kind = "act"
    /\ IF Allowed(r) THEN /\ req' = [req EXCEPT ![r].at = "checked", ![r].by = IF @ = Boss THEN Boss ELSE None]
                          /\ UNCHANGED overtaken
                     ELSE /\ Answered(r, "refused", "none")
                          /\ overtaken' = overtaken \ {r}
    /\ UNCHANGED <<registered, suspended, status, missed>> /\ UnchangedPages

Result(op) == CASE op \in {"activate", "resume"} -> "ACTIVE" [] op = "pause" -> "PAUSED" [] op = "end" -> "ENDED"

\* The row becomes st; pass: by a request that the suspension of the account could not stop.
SetStatus(c, st, pass) ==
    /\ status' = [status EXCEPT ![c] = st]
    /\ missed' = IF st = "ACTIVE" /\ c \in suspended /\ pass THEN missed \cup {c} ELSE missed \ {c}

\* They write the row whatever it has become; the answer may be lost.
WriteEvent(r) ==
    /\ req[r].at = "checked" /\ req[r].kind = "act"
    /\ SetStatus(req[r].of, Result(req[r].op), r \in overtaken \/ req[r].by = Boss)
    /\ \E answer \in {"ok", "refused"} : Answered(r, answer, "none")
    /\ overtaken' = overtaken \ {r}
    /\ UNCHANGED <<registered, suspended>> /\ UnchangedPages

\* suspendClient sets the flag, looks for events to end, and ends each with endEventCore. The
\* answer to each of its writes may be lost.
Suspends(r, at) == req[r].kind = "suspend" /\ req[r].at = at /\ req[r].of \in registered

\* Requests on the event of c that requireAdminAuth has let through.
Admitted(c) == {r \in Requests : req[r].kind = "act" /\ req[r].of = c /\ req[r].at \in {"admitted", "checked"}}

SuspendClientBackwards(r) ==
    \/ /\ Suspends(r, "admitted")
       /\ Goes(r, IF status[req[r].of] = "ACTIVE" THEN "found" ELSE "flagged")
       /\ UnchangedPages /\ UnchangedGateway
    \/ /\ Suspends(r, "found")
       /\ SetStatus(req[r].of, "ENDED", FALSE)
       /\ Goes(r, "flagged")
       /\ UNCHANGED <<registered, suspended, overtaken>> /\ UnchangedPages
    \/ /\ Suspends(r, "flagged")
       /\ suspended' = suspended \cup {req[r].of}
       /\ overtaken' = overtaken \cup Admitted(req[r].of)
       /\ Answered(r, "ok", "none")
       /\ UNCHANGED <<registered, status, missed>> /\ UnchangedPages
SuspendClient(r) ==
    \/ /\ Suspends(r, "admitted")
       /\ suspended' = suspended \cup {req[r].of}
       /\ overtaken' = overtaken \cup Admitted(req[r].of)
       /\ \/ Goes(r, "flagged") /\ UNCHANGED missed
          \/ Answered(r, "refused", "none") /\ LeftOpen(req[r].of)
       /\ UNCHANGED <<registered, status>> /\ UnchangedPages
    \/ /\ Suspends(r, "flagged")
       /\ IF status[req[r].of] = "ACTIVE" THEN Goes(r, "found") ELSE Answered(r, "ok", "none")
       /\ UnchangedPages /\ UnchangedGateway
    \/ /\ Suspends(r, "found")
       /\ SetStatus(req[r].of, "ENDED", FALSE)
       /\ \E answer \in {"ok", "refused"} : Answered(r, answer, "none")
       /\ UNCHANGED <<registered, suspended, overtaken>> /\ UnchangedPages

\* unsuspendClient; an id without a row answers 404, and the answer may be lost.
ClearFlag(r) ==
    /\ req[r].at = "admitted" /\ req[r].kind = "unsuspend" /\ req[r].of \in registered
    /\ suspended' = suspended \ {req[r].of}
    /\ missed' = missed \ {req[r].of}
    /\ \E answer \in {"ok", "refused"} : Answered(r, answer, "none")
    /\ UNCHANGED <<registered, status, overtaken>> /\ UnchangedPages

NoSuchClient(r) ==
    /\ req[r].at = "admitted" /\ req[r].kind \in {"suspend", "unsuspend"} /\ req[r].of \notin registered
    /\ Answered(r, "refused", "none")
    /\ UnchangedPages /\ UnchangedGateway

-----------------------------------------------------------------------------
(* The answers, as api.ts and the code that waits for it take them.         *)

Hears(r, kinds, answers) ==
    /\ req[r].at = "answered" /\ req[r].kind \in kinds /\ req[r].answer \in answers

Done(r) == req' = [req EXCEPT ![r] = Idle]

\* 401: the cookie is removed and /login is loaded.
ExpiredInPlace(r) ==
    /\ Hears(r, Kinds, {"expired"})
    /\ SetCookie(req[r].tab, None, mixed[req[r].tab])
    /\ Done(r)
    /\ UNCHANGED <<browser, tab>> /\ UnchangedGateway
Expired(r) ==
    LET t == req[r].tab IN
    /\ Hears(r, Kinds, {"expired"})
    /\ SetCookie(t, None, FALSE)
    /\ tab' = [tab EXCEPT ![t] = Blank("login")]
    /\ req' = Unloaded(t)
    /\ UNCHANGED browser /\ UnchangedGateway

\* `me` answers: the user is the account the request was sent for.
SignedIn(r) ==
    /\ Hears(r, {"me"}, {"ok"})
    /\ tab' = [tab EXCEPT ![req[r].tab].user = req[r].by, ![req[r].tab].loading = FALSE]
    /\ Done(r)
    /\ UNCHANGED <<browser, cookie, mixed>> /\ UnchangedGateway

\* Its catch removes the cookie, whatever went wrong.
MeFailedKept(r) ==
    /\ Hears(r, {"me"}, {"refused"})
    /\ tab' = [tab EXCEPT ![req[r].tab].loading = FALSE]
    /\ Done(r)
    /\ UNCHANGED <<browser, cookie, mixed>> /\ UnchangedGateway
MeFailed(r) ==
    /\ Hears(r, {"me"}, {"refused"})
    /\ tab' = [tab EXCEPT ![req[r].tab].loading = FALSE]
    /\ SetCookie(req[r].tab, None, mixed[req[r].tab])
    /\ Done(r)
    /\ UNCHANGED browser /\ UnchangedGateway

\* persistAuth and redirectForRole.
PersistAuth(r) ==
    LET t == req[r].tab
        c == req[r].of IN
    /\ Hears(r, {"login", "signup"}, {"ok"})
    /\ SetCookie(t, c, Asking(t))
    /\ tab' = [tab EXCEPT ![t] = [Blank(Home(c)) EXCEPT !.user = c, !.loading = tab[t].loading]]
    /\ req' = [LeftPage(t) EXCEPT ![r] = Idle]
    /\ UNCHANGED browser /\ UnchangedGateway

\* 403 of a suspended account: its page is loaded, with whatever cookie is there.
ToSuspended(r) ==
    LET t == req[r].tab IN
    /\ Hears(r, {"login"}, {"suspended"})
    /\ mixed' = [mixed EXCEPT ![t] = FALSE]
    /\ IF Cookie(t) # None THEN Mounted(t, r, "suspended")
       ELSE /\ tab' = [tab EXCEPT ![t] = Blank("suspended")]
            /\ req' = Unloaded(t)
    /\ UNCHANGED <<browser, cookie>> /\ UnchangedGateway

\* The event is there.
Viewed(r) ==
    /\ Hears(r, {"view"}, {"ok"})
    /\ tab' = [tab EXCEPT ![req[r].tab].shown = req[r].sees]
    /\ Done(r)
    /\ UNCHANGED <<browser, cookie, mixed>> /\ UnchangedGateway

\* The action is done: the event is fetched again, with the cookie of now.  When that fails
\* the page keeps what it shows.
RefetchEvent(r) ==
    /\ Hears(r, {"act"}, {"ok"})
    /\ req' = [req EXCEPT ![r] = Sent(req[r].tab, "view", req[r].of, "end", req[r].heard)]
    /\ UNCHANGED <<browser, cookie, tab, mixed>> /\ UnchangedGateway

-----------------------------------------------------------------------------
UserStep(t) ==
    \/ Shell(t) \/ Logout(t) \/ Close(t)
    \/ \E r \in Requests :
        \/ \E page \in Urls : Load(t, r, page)
        \/ \E kind \in Forms, c \in Accounts : Submit(t, r, kind, c)
        \/ \E c \in Clients : Open(t, r, c)
        \/ \E op \in Buttons : Act(t, r, op)
        \/ \E kind \in {"suspend", "unsuspend"}, c \in Clients : Moderate(t, r, kind, c)

GatewayStep(r) ==
    \/ Fails(r) \/ Login(r) \/ SignupChecks(r) \/ SignupCreates(r) \/ GetMe(r)
    \/ RequireAdminAuth(r) \/ CheckEvent(r) \/ WriteEvent(r)
    \/ SuspendClient(r) \/ ClearFlag(r) \/ NoSuchClient(r)

AnswerStep(r) ==
    \/ Expired(r) \/ SignedIn(r) \/ MeFailed(r) \/ PersistAuth(r) \/ ToSuspended(r)
    \/ Viewed(r) \/ RefetchEvent(r)

Next ==
    \/ \E t \in Tabs : UserStep(t)
    \/ \E r \in Requests : GatewayStep(r) \/ AnswerStep(r)

Spec == Init /\ [][Next]_vars

-----------------------------------------------------------------------------
Suspending(c) == \E r \in Requests : req[r].of = c /\ req[r].at \in {"flagged", "found"}

\* An account that is suspended has no open event once the requests that suspend it are
\* through, but one that Boss opened, or a request that requireAdminAuth had admitted before
\* the flag was set, or that was left open when suspendClient failed after it had set the flag
\* (superadmin.controller.ts:86-96).
SuspendedStaysShut == \A c \in suspended : status[c] = "ACTIVE" => Suspending(c) \/ c \in missed

\* Whom a tab shows as signed in is who its requests speak for, as long as no other tab
\* changed the cookie (auth-context.tsx keeps the two together).
RightAccount == \A t \in Tabs : tab[t].user # None /\ ~mixed[t] => Cookie(t) = tab[t].user

\* A tab is not left blank: when a page of the dashboard has nobody to show itself to, the
\* middleware lets the shell's redirect through to /login (auth-context.tsx:56-58).
NeverStuck ==
    \A t \in Tabs :
        tab[t].page \in {"dashboard", "admin"} /\ ~tab[t].loading /\ tab[t].user = None /\ ~mixed[t] => Cookie(t) = None
=============================================================================
