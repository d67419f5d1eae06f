------------------------------ MODULE DemoShop ------------------------------
(***************************************************************************)
(* The demonstration shop for one customer of one event: the browser tabs  *)
(* (apps/demo/demo-client/src: App.tsx, its pages and lib/api.ts), the     *)
(* shop's server (apps/demo/demo-server/src/server.ts with the server SDK) *)
(* and what the gateway keeps of this customer.  How the gateway comes to  *)
(* its answers is the subject of SaleQueue.                                *)
(*                                                                         *)
(* A call is a promise somebody waits for: it outlives the page that made  *)
(* it, and several may be under way at a time.                             *)
(***************************************************************************)
EXTENDS Integers, FiniteSets

CONSTANTS
    Tabs,           \* browser tabs, which share localStorage
    Calls,          \* calls that may be under way at a time
    MaxFaults,      \* bound on reloads, lost requests and lost replies together
    NoTab           \* the tab of a call whose page was reloaded

ASSUME DemoShopAssumption ==
    /\ IsFiniteSet(Tabs) /\ IsFiniteSet(Calls)
    /\ MaxFaults \in Nat /\ NoTab \notin Tabs

VARIABLES
    tab,        \* the tabs: the screen, and what its page knows
    store,      \* localStorage flash_queue_state: its status
    keysFit,    \* the shop's server: its active keys are those of the event
    gate,       \* the gateway: the customer's result, whether the ticket lives, is used, is logged as released
    returned,   \* the units that came back for the ticket
    orders,     \* the orders the shop has confirmed
    call,       \* the calls: the tab, what is asked, how far it is, whether its page still shows
    faults,     \* counter of the bound
    burnt,      \* history: a fault has hit a purchase
    crowded     \* history: the ticket was on two checkout screens, or a call outlived its screen

vars == <<tab, store, keysFit, gate, returned, orders, call, faults, burnt, crowded>>

Screens == {"config", "product", "queue", "checkout", "confirmed", "soldout", "released"}
\* A product page is loading, offers the queue or does not; the countdown of a checkout page
\* runs or is over; the second try of a confirmed order was made or not.
Pages   == {"plain", "loading", "open", "shut", "time", "expired", "untried", "tried"}
Results == {"none", "queued", "won", "sold_out"}
Kinds   == {"join", "sdk_poll", "poll", "buy", "try", "fail"}
Answers == {"won", "lapsed", "sold_out", "queued", "already", "missing", "ordered", "used", "invalid", "released", "error"}
Working == {"sent", "paying", "returning", "logging"}

Idle == [tab |-> NoTab, kind |-> "poll", at |-> "idle", shown |-> FALSE]

TypeOK ==
    /\ tab \in [Tabs -> [screen : Screens, page : Pages]]
    /\ store \in {"none", "queued", "won_checkout"}
    /\ keysFit \in BOOLEAN
    /\ gate \in [result : Results, live : BOOLEAN, used : BOOLEAN, logged : BOOLEAN]
    /\ returned \in Nat /\ orders \in Nat
    /\ call \in [Calls -> [tab : Tabs \cup {NoTab}, kind : Kinds, at : Working \cup Answers \cup {"idle"}, shown : BOOLEAN]]
    /\ faults \in 0..MaxFaults
    /\ burnt \in BOOLEAN /\ crowded \in BOOLEAN

\* A tab opened without a public key in its address asks for the configuration.
Fresh == [screen |-> "product", page |-> "loading"]
Unset == [screen |-> "config", page |-> "plain"]

Init ==
    /\ tab \in [Tabs -> {Fresh, Unset}]
    /\ store = "none"
    /\ keysFit \in BOOLEAN
    /\ gate = [result |-> "none", live |-> FALSE, used |-> FALSE, logged |-> FALSE]
    /\ returned = 0 /\ orders = 0
    /\ call = [c \in Calls |-> Idle]
    /\ faults = 0
    /\ burnt = FALSE /\ crowded = FALSE

UnchangedServers == UNCHANGED <<keysFit, gate, returned, orders>>
UnchangedFaults  == UNCHANGED <<faults, burnt>>

-----------------------------------------------------------------------------
(* The screens.                                                             *)

CallsOf(t) == {c \in Calls : call[c].tab = t}
LoadingBuy(t) == \E c \in CallsOf(t) : call[c].shown /\ call[c].kind = "buy"
\* The buttons of a checkout or confirmed screen are disabled while a call of its own is
\* under way.
Loading(t) == \E c \in CallsOf(t) : call[c].shown /\ call[c].kind \in {"buy", "fail", "try"}
OnCheckout     == {t \in Tabs : tab[t].screen = "checkout"}
\* A checkout screen that opens for a ticket that someone is at work on, or has been.
Taken(t) == \/ OnCheckout \ {t} # {}
            \/ gate.used \/ returned > 0
            \/ \E c \in Calls : call[c].at \in Working /\ call[c].kind \in {"buy", "fail"}

\* The calls of t when its screen becomes s: a page that is gone shows no answer.
Hidden(t, s) == [c \in Calls |-> IF call[c].tab = t /\ tab[t].screen # s THEN [call[c] EXCEPT !.shown = FALSE] ELSE call[c]]

\* What a page knows when it is mounted.  CheckoutPage reads the time the ticket has left.
Mounted(s) == [screen |-> s,
               page   |-> CASE s = "product"   -> "loading"
                            [] s = "checkout"  -> IF gate.live THEN "time" ELSE "expired"
                            [] s = "confirmed" -> "untried"
                            [] OTHER           -> "plain"]

\* The tab t goes to screen s, and the calls of over, if any, are over.
GoTo(t, s, over) ==
    /\ tab' = IF tab[t].screen = s THEN tab ELSE [tab EXCEPT ![t] = Mounted(s)]
    /\ call' = [c \in Calls |-> IF c \in over THEN Idle ELSE Hidden(t, s)[c]]
    /\ crowded' = (\/ crowded
                   \/ s = "checkout" /\ tab[t].screen # s /\ Taken(t)
                   \/ tab[t].screen = "checkout" /\ s # "checkout"
                        /\ \E c \in CallsOf(t) \ over : call[c].shown)

Stay(over) ==
    /\ call' = [c \in Calls |-> IF c \in over THEN Idle ELSE call[c]]
    /\ UNCHANGED <<tab, crowded>>

\* A call of tab t; each starts with the request on its way.
Start(t, c, kind) ==
    /\ call[c] = Idle
    /\ call' = [call EXCEPT ![c] = [tab |-> t, kind |-> kind, at |-> "sent", shown |-> TRUE]]

\* localStorage flash_queue_state, as the tab saves or clears it.
Keep(status) == store' = status

\* ConfigForm: the customer enters the public key of the event.
SaveConfig(t) ==
    /\ tab[t] = Unset
    /\ tab' = [tab EXCEPT ![t] = Fresh]
    /\ UNCHANGED <<store, call, crowded>> /\ UnchangedServers /\ UnchangedFaults

\* The availability arrives: of a sale that runs with stock (or that could not be asked
\* for), of one that is over, not begun or without stock, or of a paused one, which the
\* page asks for again every ten seconds.
Availability(t) ==
    /\ tab[t] = Fresh
    /\ \E p \in {"open", "shut"} : tab' = [tab EXCEPT ![t].page = p]
    /\ UNCHANGED <<store, call, crowded>> /\ UnchangedServers /\ UnchangedFaults

\* The pages and their buttons.
JoinOffered(t)  == tab[t] = [screen |-> "product", page |-> "open"]
Waiting(t)      == tab[t].screen = "queue"
PayOffered(t)   == tab[t] = [screen |-> "checkout", page |-> "time"] /\ ~Loading(t)
TimeIsOver(t)   == tab[t] = [screen |-> "checkout", page |-> "expired"]
TryOffered(t)   == tab[t] = [screen |-> "confirmed", page |-> "untried"] /\ ~Loading(t)
NothingLeft(t)  == tab[t].screen = "soldout"
SpotReleased(t) == tab[t].screen = "released"

\* handleJoin, up to its await.  The button works while another join is under way.
Join(t, c) ==
    /\ JoinOffered(t)
    /\ Start(t, c, "join")
    /\ UNCHANGED <<tab, store, crowded>> /\ UnchangedServers /\ UnchangedFaults

\* QueuePage asks every two seconds, whether or not the last answer is there.
Poll(t, c) ==
    /\ Waiting(t)
    /\ Start(t, c, "poll")
    /\ UNCHANGED <<tab, store, crowded>> /\ UnchangedServers /\ UnchangedFaults

\* handleBuy and handleFail of CheckoutPage, up to their awaits.
Pay(t, c, kind) ==
    /\ PayOffered(t)
    /\ Start(t, c, kind)
    /\ UNCHANGED <<tab, store, crowded>> /\ UnchangedServers /\ UnchangedFaults

\* tryAgain of OrderConfirmed: the same token a second time.
TryAgain(t, c) ==
    /\ TryOffered(t)
    /\ Start(t, c, "try")
    /\ UNCHANGED <<tab, store, crowded>> /\ UnchangedServers /\ UnchangedFaults

\* The countdown runs on the customer's clock, which need not agree with the gateway's.
TimeUp(t) ==
    /\ tab[t].page = "time"
    /\ tab' = [tab EXCEPT ![t].page = "expired"]
    /\ UNCHANGED <<store, call, crowded>> /\ UnchangedServers /\ UnchangedFaults

\* handleExpired, called by the button of the expired screen.
Expired(t) ==
    /\ TimeIsOver(t)
    /\ GoTo(t, "product", {})
    /\ Keep("none")
    /\ UnchangedServers /\ UnchangedFaults

\* handleReset, of the last screens.
Reset(t) ==
    /\ tab[t].screen = "confirmed" \/ NothingLeft(t) \/ SpotReleased(t)
    /\ GoTo(t, "product", {})
    /\ Keep("none")
    /\ UnchangedServers /\ UnchangedFaults

\* POST /api/settings: the server works with these keys from now on.
SetKeys(fit) == keysFit' = fit

\* SettingsModal: anyone may give the server the keys of this event, or of another.
SaveKeys(t, fit) ==
    /\ tab[t].screen # "config"
    /\ SetKeys(fit)
    /\ UNCHANGED <<tab, store, gate, returned, orders, call, crowded>> /\ UnchangedFaults

\* The screen a tab resumes on, if it knows the public key.
Resumed == CASE store = "none"   -> Fresh
             [] store = "queued" -> Mounted("queue")
             [] OTHER            -> Mounted("checkout")

\* The page is loaded again and goes on from localStorage; the servers go on with its calls.
Reload(t) ==
    /\ tab[t].screen # "config"
    /\ faults < MaxFaults /\ faults' = faults + 1
    /\ tab' = [tab EXCEPT ![t] = Resumed]
    /\ call' = [c \in Calls |-> IF call[c].tab # t THEN call[c]
                               ELSE IF call[c].at \in Working THEN [call[c] EXCEPT !.tab = NoTab, !.shown = FALSE]
                               ELSE Idle]
    /\ crowded' = (\/ crowded
                   \/ \E c \in CallsOf(t) : call[c].kind \in {"buy", "fail"}
                   \/ store = "won_checkout" /\ Taken(t))
    /\ UNCHANGED <<store, burnt>> /\ UnchangedServers

-----------------------------------------------------------------------------
(* The gateway, as far as this customer sees it.                            *)

UnchangedTabs == UNCHANGED <<tab, store, crowded>>
Answer(c, a)  == call' = [call EXCEPT ![c].at = a]

\* resolveUserStatus: a winner's ticket is a key with an expiry.
StatusNow == CASE gate.result = "won"  -> IF gate.live THEN "won" ELSE "lapsed"
               [] gate.result = "none" -> "missing"
               [] OTHER                -> gate.result

\* joinQueue: a first join is queued or turned away, or finds a sale that does not run;
\* any later one is told how the customer stands.
JoinServed(c) ==
    /\ call[c].at = "sent" /\ call[c].kind = "join"
    /\ IF gate.result # "none"
       THEN Answer(c, IF gate.result = "queued" THEN "already" ELSE StatusNow) /\ UNCHANGED gate
       ELSE \E r \in Results \ {"won"} :
               /\ gate' = [gate EXCEPT !.result = r]
               /\ Answer(c, IF r = "none" THEN "error" ELSE r)
    /\ UNCHANGED <<keysFit, returned, orders>> /\ UnchangedTabs /\ UnchangedFaults

\* getQueueStatus, for the polls of the queue page and of the SDK.
StatusServed(c) ==
    /\ call[c].at = "sent" /\ call[c].kind \in {"poll", "sdk_poll"}
    /\ Answer(c, StatusNow)
    /\ UnchangedServers /\ UnchangedTabs /\ UnchangedFaults

\* The drain serves the customer.
Drain ==
    /\ gate.result = "queued"
    /\ \/ gate' = [gate EXCEPT !.result = "won", !.live = TRUE]
       \/ gate' = [gate EXCEPT !.result = "sold_out"]
    /\ UNCHANGED <<keysFit, returned, orders, call>> /\ UnchangedTabs /\ UnchangedFaults

\* The ticket key and the token expire.
Lapse ==
    /\ gate.live
    /\ gate' = [gate EXCEPT !.live = FALSE]
    /\ UNCHANGED <<keysFit, returned, orders, call>> /\ UnchangedTabs /\ UnchangedFaults

-----------------------------------------------------------------------------
(* The shop's server.                                                       *)

\* The gateway does not remember the tokens it has accepted.
VerifyUnchecked(c) ==
    /\ call[c].at = "sent" /\ call[c].kind \in {"buy", "try"}
    /\ IF gate.live THEN Answer(c, "paying") /\ gate' = [gate EXCEPT !.used = TRUE]
                    ELSE Answer(c, "invalid") /\ UNCHANGED gate
    /\ UNCHANGED <<keysFit, returned, orders>> /\ UnchangedTabs /\ UnchangedFaults

\* POST /api/checkout: the gateway verifies the token, whose jti it accepts once.  The
\* server asks with the event the token names, whatever its active keys are.
Verify(c) ==
    /\ call[c].at = "sent" /\ call[c].kind \in {"buy", "try"}
    /\ CASE ~gate.live -> Answer(c, "invalid") /\ UNCHANGED gate
         [] gate.live /\ gate.used -> Answer(c, "used") /\ UNCHANGED gate
         [] OTHER -> Answer(c, "paying") /\ gate' = [gate EXCEPT !.used = TRUE]
    /\ UNCHANGED <<keysFit, returned, orders>> /\ UnchangedTabs /\ UnchangedFaults

\* No order for a customer who is gone.
ConfirmIfWaited(c) ==
    /\ call[c].at = "paying"
    /\ orders' = IF call[c].tab = NoTab THEN orders ELSE orders + 1
    /\ Answer(c, IF call[c].tab = NoTab THEN "error" ELSE "ordered")
    /\ UNCHANGED <<keysFit, gate, returned>> /\ UnchangedTabs /\ UnchangedFaults

\* The payment is over and the order confirmed.
Confirm(c) ==
    /\ call[c].at = "paying"
    /\ orders' = orders + 1
    /\ Answer(c, "ordered")
    /\ UNCHANGED <<keysFit, gate, returned>> /\ UnchangedTabs /\ UnchangedFaults

\* POST /api/checkout/fail: releaseTicket with the shop's active keys, which are refused
\* unless they are those of the event, as it is when the sale does not run.  The gateway
\* looks for a release of the ticket, returns the unit and then logs the release.
Release(c) ==
    /\ call[c].at = "sent" /\ call[c].kind = "fail"
    /\ Answer(c, "error") \/ (keysFit /\ ~gate.logged /\ Answer(c, "returning"))
    /\ UnchangedServers /\ UnchangedTabs /\ UnchangedFaults

ReturnUnit(c) ==
    /\ call[c].at = "returning"
    /\ returned' = returned + 1
    /\ Answer(c, "logging")
    /\ UNCHANGED <<keysFit, gate, orders>> /\ UnchangedTabs /\ UnchangedFaults

LogRelease(c) ==
    /\ call[c].at = "logging"
    /\ gate' = [gate EXCEPT !.logged = TRUE]
    /\ Answer(c, "released")
    /\ UNCHANGED <<keysFit, returned, orders>> /\ UnchangedTabs /\ UnchangedFaults

-----------------------------------------------------------------------------
(* The answers, which the tab takes whatever screen it is on by then.        *)

UnchangedOutside == UnchangedServers /\ UnchangedFaults

Won(c) ==
    /\ GoTo(call[c].tab, "checkout", {c})
    /\ Keep("won_checkout")
    /\ UnchangedOutside

SoldOut(c) ==
    /\ GoTo(call[c].tab, "soldout", {c})
    /\ UNCHANGED store /\ UnchangedOutside

Ignored(c) == Stay({c}) /\ UNCHANGED store /\ UnchangedOutside

\* joinQueue of api.ts resolves with the SDK's first event: an error counts as sold out,
\* and ALREADY_JOINED is no event, so that the SDK's polls decide.
TakeJoin(c) ==
    /\ call[c].kind = "join" /\ call[c].tab # NoTab
    /\ \/ call[c].at = "won" /\ Won(c)
       \/ call[c].at \in {"sold_out", "error"} /\ SoldOut(c)
       \/ /\ call[c].at = "queued"
          /\ GoTo(call[c].tab, "queue", {c})
          /\ Keep("queued")
          /\ UnchangedOutside
       \/ /\ call[c].at = "already"
          /\ call' = [call EXCEPT ![c].kind = "sdk_poll", ![c].at = "sent"]
          /\ UNCHANGED <<tab, store, crowded>> /\ UnchangedOutside

\* The SDK emits "won" without a token, which handleJoin passes over.
TakeJoinLapsed(c) ==
    /\ call[c].kind = "join" /\ call[c].tab # NoTab /\ call[c].at = "lapsed"
    /\ Ignored(c)

\* A poll of the SDK whose join is still to be resolved: a lapsed ticket is an error.
TakeSdkPoll(c) ==
    /\ call[c].kind = "sdk_poll" /\ call[c].tab # NoTab
    /\ \/ call[c].at = "won" /\ Won(c)
       \/ call[c].at \in {"sold_out", "lapsed", "missing", "error"} /\ SoldOut(c)
       \/ /\ call[c].at = "queued"
          /\ Answer(c, "sent")
          /\ UNCHANGED <<tab, store, crowded>> /\ UnchangedOutside

\* poll of QueuePage.  A WON without a token is none of its cases.
TakePoll(c) ==
    /\ call[c].kind = "poll" /\ call[c].tab # NoTab
    /\ \/ call[c].at = "won" /\ Won(c)
       \/ call[c].at = "sold_out" /\ SoldOut(c)
       \/ call[c].at = "queued" /\ Keep("queued") /\ Stay({c}) /\ UnchangedOutside
       \/ call[c].at \in {"lapsed", "missing", "error"} /\ Ignored(c)

\* handleBuy after its await.
TakeBuy(c) ==
    /\ call[c].kind = "buy" /\ call[c].tab # NoTab
    /\ \/ /\ call[c].at = "ordered"
          /\ GoTo(call[c].tab, "confirmed", {c})
          /\ Keep("none") /\ UnchangedOutside
       \/ /\ call[c].at = "invalid"
          /\ GoTo(call[c].tab, "product", {c})
          /\ Keep("none") /\ UnchangedOutside
       \/ call[c].at \in {"used", "error"} /\ Ignored(c)

\* tryAgain after its await: the button is gone, whatever the answer was.
TakeTry(c) ==
    /\ call[c].kind = "try" /\ call[c].tab # NoTab
    /\ call[c].at \in Answers
    /\ tab' = IF call[c].shown THEN [tab EXCEPT ![call[c].tab].page = "tried"] ELSE tab
    /\ call' = [call EXCEPT ![c] = Idle]
    /\ UNCHANGED <<store, crowded>> /\ UnchangedOutside

\* handleFail after its await.
TakeFail(c) ==
    /\ call[c].kind = "fail" /\ call[c].tab # NoTab
    /\ \/ /\ call[c].at = "released"
          /\ GoTo(call[c].tab, "released", {c})
          /\ Keep("none") /\ UnchangedOutside
       \/ call[c].at = "error" /\ Ignored(c)

-----------------------------------------------------------------------------
(* Faults.                                                                  *)

Fault(c) ==
    /\ faults < MaxFaults
    /\ faults' = faults + 1
    /\ burnt' = (burnt \/ call[c].kind \in {"buy", "fail", "try"})
    /\ Answer(c, "error")
    /\ UNCHANGED <<keysFit, orders>> /\ UnchangedTabs

\* The request is lost, or the server dies over it.
RequestDies(c) ==
    /\ call[c].at \in Working
    /\ Fault(c) /\ UNCHANGED <<gate, returned>>

\* The reply is lost on its way to the tab.
ReplyLost(c) ==
    /\ call[c].at \in Answers \ {"error"} /\ call[c].tab # NoTab
    /\ Fault(c) /\ UNCHANGED <<gate, returned>>

\* The gateway accepts the token, and the shop's server gives up before it hears of it.
VerifyTimesOut(c) ==
    /\ call[c].at = "sent" /\ call[c].kind \in {"buy", "try"}
    /\ gate.live /\ ~gate.used
    /\ Fault(c)
    /\ gate' = [gate EXCEPT !.used = TRUE] /\ UNCHANGED returned

\* A call of a page that was reloaded ends with its answer.
Forgotten(c) ==
    /\ call[c].at \in Answers /\ call[c].tab = NoTab
    /\ Stay({c}) /\ UNCHANGED store /\ UnchangedOutside

-----------------------------------------------------------------------------
Served(c) == \/ JoinServed(c) \/ StatusServed(c) \/ Verify(c) \/ Confirm(c)
             \/ Release(c) \/ ReturnUnit(c) \/ LogRelease(c)
Answered(c) == \/ TakeJoin(c) \/ TakeJoinLapsed(c) \/ TakeSdkPoll(c) \/ TakePoll(c)
             \/ TakeBuy(c) \/ TakeTry(c) \/ TakeFail(c) \/ Forgotten(c)

Next ==
    \/ \E t \in Tabs :
          \/ SaveConfig(t) \/ Availability(t)
          \/ TimeUp(t) \/ Expired(t) \/ Reset(t) \/ Reload(t)
          \/ \E fit \in BOOLEAN : SaveKeys(t, fit)
          \/ \E c \in Calls : \/ Join(t, c) \/ Poll(t, c) \/ TryAgain(t, c)
                              \/ \E kind \in {"buy", "fail"} : Pay(t, c, kind)
    \/ \E c \in Calls : Served(c) \/ Answered(c) \/ RequestDies(c) \/ ReplyLost(c) \/ VerifyTimesOut(c)
    \/ Drain \/ Lapse

Spec == Init /\ [][Next]_vars

-----------------------------------------------------------------------------
(* Properties.                                                              *)

\* server.ts:153-160.  A ticket buys one order, however many tabs, retries after lost
\* replies and second tries there are.
OneOrder == orders <= 1

\* server.ts:149-189.  A ticket that is used has bought its order, or is just being paid
\* for, unless a request or a reply was lost: nothing else burns it.
BurntOnlyByFault ==
    gate.used => orders = 1 \/ burnt \/ \E c \in Calls : call[c].at = "paying"

\* CheckoutPage.tsx:82-122.  No unit is both sold and given back, as long as the ticket
\* was on one checkout screen only, no call of it outlived its screen and none was lost:
\* the disabled buttons are all that keeps a purchase and a release apart.
SoldOrReturned == (orders > 0 /\ returned > 0) => burnt \/ crowded
=============================================================================
