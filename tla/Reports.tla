------------------------------- MODULE Reports -------------------------------
(***************************************************************************)
(* What the pages of the dashboard (apps/saas-dashboard/src) show of a     *)
(* sale, and the handlers of the gateway that answer them.  A handler      *)
(* reads the event's row, the sale's hash in Redis and the attempts in     *)
(* Postgres one after the other or side by side, while the sale goes on;   *)
(* its answer is put together from reads of different moments.  A page     *)
(* asks on a timer without waiting for the answer before, so that answers  *)
(* overtake each other, and it asks for two reports at once and shows them *)
(* together.                                                               *)
(*                                                                         *)
(* One tab shows one page about one event.  Who may see which page is the  *)
(* subject of Console; what a transition does, of EventLifecycle.  No name *)
(* is one of Console's, so that Dashboard_proofs extends both.             *)
(***************************************************************************)
EXTENDS Naturals
CONSTANTS
    OpenPages,   \* the pages that may be open
    Polls,       \* requests of the page's timers that may be under way at a time
    Unseen,      \* nothing read, nothing shown
    MaxSold, MaxOps, MaxFailures

VARIABLES
    page,    \* the page that is open
    row,     \* the event's status in Postgres
    sold,    \* how far the sale has come: the counters in Redis and the attempts in Postgres, as one number
    call,    \* requests: from the page to its answer
    ui,      \* what the page shows: reports, spinner, banner; the action it runs
    chart,   \* the activity timeline on the owner's event page
    ops,     \* transitions made elsewhere so far
    failures,
    crossed  \* history: an answer came after its timer was stopped, or the status changed under a load

reportVars == <<page, row, sold, call, ui, chart, ops, failures, crossed>>
sale == <<row, sold, ops>>

Transitions == {"activate", "pause", "resume", "end"}
EventStatuses == {"PENDING", "ACTIVE", "PAUSED", "ENDED"}
EventPages == {"event", "adminEvent"}
Lists  == {"dashboard", "events", "clients"}
Boards == {"overview", "system", "live"}

-----------------------------------------------------------------------------
(* The handlers.                                                            *)

Reads == {"row", "sold", "counted"}
NotRead == [r \in Reads |-> Unseen]

\* What the answer of a handler is made of.  Queries that run side by side, on the same matter, are one
\* read; for the health report "sold" stands for Redis's own figures.
GetEventDetail    == {"row"}
GetEventStats     == {"row", "sold"}
GetEventTimeline  == {"sold"}
ListEvents        == {"row", "sold"}
GetClientOverview == {"row", "sold"}
ListClients       == {"row", "sold"}
GetPlatformOverview == {"counted", "row", "sold"}
GetLiveEvents     == {"row", "sold"}
GetSystemHealth   == {"sold"}

Needs == [detail |-> GetEventDetail, stats |-> GetEventStats, timeline |-> GetEventTimeline,
          list |-> ListEvents, account |-> GetClientOverview, clients |-> ListClients,
          platform |-> GetPlatformOverview, live |-> GetLiveEvents, health |-> GetSystemHealth]
Reports == DOMAIN Needs

\* What the reads of an answer may have found.
Findings == [row : EventStatuses \cup {Unseen}, sold : Nat \cup {Unseen}, counted : (EventStatuses \X Nat) \cup {Unseen}]

ASSUME ReportsAssumption ==
    /\ OpenPages \subseteq EventPages \cup Lists \cup Boards
    /\ Polls # {} /\ Polls \cap (Reports \cup {"put"}) = {}
    /\ Unseen \notin EventStatuses /\ Unseen \notin Nat /\ Unseen \notin Findings
    /\ MaxSold \in Nat /\ MaxOps \in Nat /\ MaxFailures \in Nat

\* Redis is asked about active events only.
ActiveOnly(report) == report \in {"list", "platform", "live"}

\* Reads that do not wait for the row: the queries of listClients run side by side, the counts of the
\* overview too; the timeline and the health report ask for no row.
AtOnce(report, r) ==
    \/ r = "row"
    \/ report \in {"clients", "health", "timeline"}
    \/ report = "platform" /\ r # "sold"

\* "counted": the counts of the overview, events and attempts in one statement.
Now(r) == CASE r = "row" -> row [] r = "sold" -> sold [] r = "counted" -> <<row, sold>>

\* A report that the sale has not moved on from.
Fresh(report, seen) ==
    /\ seen # Unseen
    /\ \A r \in Needs[report] : seen[r] = Now(r) \/ (r = "sold" /\ ActiveOnly(report) /\ row # "ACTIVE")

Target(op)  == CASE op \in {"activate", "resume"} -> "ACTIVE" [] op = "pause" -> "PAUSED" [] op = "end" -> "ENDED"
AllowedFrom(op) == CASE op = "activate" -> {"PENDING"} [] op = "pause" -> {"ACTIVE"}
                     [] op = "resume" -> {"PAUSED"}    [] op = "end" -> EventStatuses \ {"ENDED"}

-----------------------------------------------------------------------------
(* Requests of the page.                                                    *)

\* The parts of a Promise.all have a place each, and so has the transition a button asks for;
\* the timers share Polls, with the first request of the chart.
Slots == Reports \cup {"put"} \cup Polls

NoCall == [asks |-> "nothing", todo |-> {}, seen |-> NotRead]
Ask(report) == [asks |-> report, todo |-> Needs[report], seen |-> NotRead]
Put(op) == [asks |-> op, todo |-> {"check", "write"}, seen |-> NotRead]

Finished(s) == [call EXCEPT ![s] = NoCall]
\* The load and the actions: all of its parts are asked for at once, or forgotten at once.
Asked(calls, parts) == [s \in Slots |-> IF s \in parts THEN Ask(s) ELSE calls[s]]
NoParts == [s \in Slots |-> IF s \in Polls THEN call[s] ELSE NoCall]
Fetching == \E report \in Reports : call[report] # NoCall

FreePolls(calls) == {s \in Polls : calls[s] = NoCall}
Polled(calls, report) == [calls EXCEPT ![CHOOSE s \in FreePolls(calls) : TRUE] = Ask(report)]

Arrived(s) == call[s] # NoCall /\ call[s].todo = {}

-----------------------------------------------------------------------------
(* The pages.                                                               *)

\* The reports a load of the page asks for.
Parts(p) ==
    CASE p \in EventPages  -> {"detail", "stats"}
      [] p = "dashboard" -> {"account", "list"}
      [] p = "events"    -> {"list"}
      [] p = "clients"   -> {"clients"}
      [] p = "overview"  -> {"platform"}
      [] p = "system"    -> {"health"}
      [] p = "live"      -> {"live"}
Board == CHOOSE report \in Parts(page) : TRUE

\* A mistake of Refetched: the statistics are left to their timer.
RefetchedEventOnly == {"detail"}

\* What an event page fetches again when its action is done.
Refetched == {"detail", "stats"}

Badge == IF ui.shown["detail"] = Unseen THEN Unseen ELSE ui.shown["detail"].row

\* A mistake of Polling: the two sides of the test are swapped.
PollingInverted == Badge \notin {Unseen, "ACTIVE"}

\* The event pages poll the statistics while the badge says so.
Polling == Badge = "ACTIVE" \/ (page = "adminEvent" /\ Badge = "PAUSED")

\* A load starts: only the live page and the pages without a timer have `loading`, the boards `fetching`.
Loading(u) ==
    [u EXCEPT !.loading = page \notin {"overview", "system"}, !.fetching = page \in Boards, !.error = FALSE]
Loads(calls) == IF page \in Boards THEN Polled(calls, Board) ELSE Asked(calls, Parts(page))

ReportsInit ==
    /\ page \in OpenPages
    /\ row \in EventStatuses
    /\ sold = 0
    /\ ui = Loading([shown |-> [report \in Reports |-> Unseen], loading |-> FALSE, fetching |-> FALSE,
                     error |-> FALSE, action |-> "none"])
    /\ call = Loads([s \in Slots |-> NoCall])
    /\ chart = [data |-> Unseen, loading |-> TRUE, error |-> FALSE]
    /\ ops = 0 /\ failures = 0 /\ crossed = FALSE

\* What the user has before him: the overview and the health page,
BoardView ==
    LET data == ui.shown[Board] # Unseen IN
    IF data THEN "reports" ELSE IF ui.fetching THEN "spinner" ELSE IF ui.error THEN "banner" ELSE "nothing"

\* the live page, which keeps a small spinner by its title,
LiveView ==
    LET answered == ui.shown["live"] # Unseen
        listed   == answered /\ ui.shown["live"].row = "ACTIVE"
    IN
    IF ui.loading THEN "spinner" ELSE IF ~listed /\ ui.error THEN "banner"
    ELSE IF answered THEN "reports" ELSE IF ui.fetching THEN "spinner" ELSE "nothing"

\* the lists and the event pages.
LoadView ==
    IF ui.loading THEN "spinner" ELSE IF ui.error THEN "banner"
    ELSE IF \A report \in Parts(page) : ui.shown[report] # Unseen THEN "reports" ELSE "nothing"

View == IF page = "live" THEN LiveView ELSE IF page \in Boards THEN BoardView ELSE LoadView

\* The chart has no curve to draw before somebody has come.
ChartView ==
    IF chart.loading THEN "spinner" ELSE IF chart.error THEN "banner"
    ELSE IF chart.data = Unseen \/ chart.data.sold = 0 THEN "hint" ELSE "curve"

\* The retry button of the banner, beside old reports too; the refresh button of the health page;
\* the clients page loads again when a client has been suspended or reinstated.
Reload ==
    /\ \/ View = "banner"
       \/ page \in Boards /\ ui.error
       \/ page = "system" /\ ~ui.fetching
       \/ page = "clients" /\ View = "reports"
    /\ page \in Boards => FreePolls(call) # {}
    /\ ui' = Loading(ui) /\ call' = Loads(call)
    /\ UNCHANGED <<sale, page, chart, failures, crossed>>

\* The timer of a board: load, whatever is still under way.
BoardTick ==
    /\ page \in Boards /\ FreePolls(call) # {}
    /\ ui' = [ui EXCEPT !.fetching = TRUE, !.error = FALSE]
    /\ call' = Polled(call, Board)
    /\ UNCHANGED <<sale, page, chart, failures, crossed>>

\* The timer of an event page.
StatsTick ==
    /\ page \in EventPages /\ Polling /\ FreePolls(call) # {}
    /\ call' = Polled(call, "stats")
    /\ UNCHANGED <<sale, page, ui, chart, failures, crossed>>

\* The timer of the chart, which only the owner's page has.
ChartTick ==
    /\ page = "event" /\ Badge = "ACTIVE" /\ FreePolls(call) # {}
    /\ call' = Polled(call, "timeline")
    /\ UNCHANGED <<sale, page, ui, chart, failures, crossed>>

\* The buttons of the two event pages: only the owner ends a sale that is on.
OpsOffered == CASE Badge = "PENDING" -> IF page = "event" THEN {"activate"} ELSE {"activate", "end"}
               [] Badge = "ACTIVE"  -> IF page = "event" THEN {"end"} ELSE {"pause"}
               [] Badge = "PAUSED"  -> IF page = "event" THEN {} ELSE {"resume", "end"}
               [] OTHER -> {}

\* A button of an event page; the buttons wait for the action that runs.
Click(op) ==
    /\ page \in EventPages /\ View = "reports" /\ op \in OpsOffered
    /\ ui.action = "none"
    /\ ui' = [ui EXCEPT !.action = op]
    /\ call' = [call EXCEPT !["put"] = Put(op)]
    /\ UNCHANGED <<sale, page, chart, failures, crossed>>

-----------------------------------------------------------------------------
(* The gateway at work.                                                     *)

\* One query of a handler has its result.
Read(s, r) ==
    /\ s # "put" /\ r \in call[s].todo
    /\ AtOnce(call[s].asks, r) \/ "row" \notin call[s].todo
    /\ LET spared == IF r = "row" /\ row # "ACTIVE" /\ ActiveOnly(call[s].asks)
                     THEN {"row", "sold"} ELSE {r}
       IN  call' = [call EXCEPT ![s].todo = @ \ spared, ![s].seen[r] = Now(r)]
    /\ UNCHANGED <<sale, page, ui, chart, failures, crossed>>

\* The handler of a transition reads the row, and refuses or goes on.
Check ==
    /\ "check" \in call["put"].todo
    /\ call' = [call EXCEPT !["put"].seen["row"] = row,
                            !["put"].todo = IF row \in AllowedFrom(ui.action) THEN {"write"} ELSE {}]
    /\ UNCHANGED <<sale, page, ui, chart, failures, crossed>>

Write ==
    /\ call["put"].todo = {"write"}
    /\ row' = Target(ui.action)
    /\ call' = [call EXCEPT !["put"].todo = {}]
    /\ UNCHANGED <<sold, ops, page, ui, chart, failures, crossed>>

-----------------------------------------------------------------------------
(* Answers at the page.                                                     *)

\* The chart's effect on the status: it is mounted when the event is no longer pending, fetches when
\* the event is active or ended (once it finds room in Polls), and else has nothing to wait for.
ChartFetches(badge) == page = "event" /\ badge # Badge /\ badge \in {"ACTIVE", "ENDED"}
ChartRests(badge)   == page = "event" /\ badge # Badge /\ badge = "PAUSED"

\* The last answer of a load or of an action's reload is there: all are shown together.
Complete(parts) ==
    /\ \A report \in parts : Arrived(report)
    /\ ui' = [ui EXCEPT !.shown = [report \in Reports |->
                                       IF report \in parts THEN call[report].seen ELSE @[report]],
                        !.loading = FALSE, !.action = "none"]
    /\ IF page \in EventPages
       THEN LET badge == call["detail"].seen.row IN
            /\ ChartFetches(badge) => FreePolls(call) # {}
            /\ call' = IF ChartFetches(badge) THEN Polled(NoParts, "timeline") ELSE NoParts
            /\ chart' = IF ChartRests(badge) THEN [chart EXCEPT !.loading = FALSE] ELSE chart
       ELSE call' = NoParts /\ UNCHANGED chart
    /\ UNCHANGED <<sale, page, failures, crossed>>
LoadAnswered   == page \notin Boards /\ ui.loading /\ Complete(Parts(page))
ActionAnswered == ui.action # "none" /\ Complete(Refetched)

\* The transition is made: the page fetches the event and its statistics again.
PutAnswered ==
    /\ Arrived("put") /\ call["put"].seen["row"] \in AllowedFrom(ui.action)
    /\ call' = Asked(Finished("put"), Refetched)
    /\ UNCHANGED <<sale, page, ui, chart, failures, crossed>>

\* The answer to a timer of an event page, which may have been stopped since.
StatsAnswered(s) ==
    /\ Arrived(s) /\ call[s].asks = "stats"
    /\ ui' = [ui EXCEPT !.shown["stats"] = call[s].seen]
    /\ crossed' = (crossed \/ ~Polling)
    /\ call' = Finished(s)
    /\ UNCHANGED <<sale, page, chart, failures>>

ChartAnswered(s) ==
    /\ Arrived(s) /\ call[s].asks = "timeline"
    /\ chart' = [chart EXCEPT !.data = call[s].seen, !.loading = FALSE]
    /\ call' = Finished(s)
    /\ UNCHANGED <<sale, page, ui, failures, crossed>>

BoardAnswered(s) ==
    /\ Arrived(s) /\ page \in Boards
    /\ ui' = [ui EXCEPT !.shown[Board] = call[s].seen, !.fetching = FALSE, !.loading = FALSE]
    /\ call' = Finished(s)
    /\ UNCHANGED <<sale, page, chart, failures, crossed>>

\* The catch and the finally of a load.
LoadFailed == [ui EXCEPT !.error = TRUE, !.loading = FALSE, !.fetching = FALSE]

\* The answer of an action, or of a part of its reload, is an error.
ActionFails ==
    /\ ui' = [ui EXCEPT !.action = "none"]
    /\ call' = NoParts /\ UNCHANGED chart

\* An error answers the request, or nothing does; the other parts of a Promise.all are forgotten.
Fail(s) ==
    /\ call[s] # NoCall
    /\ failures < MaxFailures /\ failures' = failures + 1
    /\ \/ /\ s \notin Polls /\ ui.action = "none"
          /\ ui' = LoadFailed /\ call' = NoParts /\ UNCHANGED chart
       \/ /\ s \notin Polls /\ ui.action # "none" /\ ActionFails
       \/ /\ s \in Polls /\ call[s].asks # "timeline"
          /\ ui' = IF page \in Boards THEN LoadFailed ELSE ui
          /\ call' = Finished(s) /\ UNCHANGED chart
       \/ /\ s \in Polls /\ call[s].asks = "timeline"
          /\ chart' = [chart EXCEPT !.error = TRUE, !.loading = FALSE]
          /\ call' = Finished(s) /\ UNCHANGED ui
    /\ UNCHANGED <<sale, page, crossed>>

\* The gateway refuses a transition: 409.
Refused ==
    /\ Arrived("put") /\ call["put"].seen["row"] \notin AllowedFrom(ui.action)
    /\ ActionFails
    /\ UNCHANGED <<sale, page, failures, crossed>>

-----------------------------------------------------------------------------
(* The sale.                                                                *)

\* The drain parks a ticket, a tick that was under way after a pause or an end too; tickets are verified
\* and released after the end as well.
Sell ==
    /\ row # "PENDING" /\ sold < MaxSold
    /\ sold' = sold + 1
    /\ UNCHANGED <<row, ops, page, call, ui, chart, failures, crossed>>

\* Somebody else changes the status, or a transition of this page whose answer was lost does so late.
OpElsewhere(op) ==
    /\ ops < MaxOps /\ ops' = ops + 1
    /\ row \in AllowedFrom(op) /\ row' = Target(op)
    /\ crossed' = (crossed \/ Fetching)
    /\ UNCHANGED <<sold, page, call, ui, chart, failures>>

\* A request of a timer goes on: at the gateway, or back at the page.
Serve(s) == (\E r \in Reads : Read(s, r)) \/ StatsAnswered(s) \/ ChartAnswered(s) \/ BoardAnswered(s)

ReportsNext ==
    \/ Reload \/ BoardTick \/ StatsTick \/ ChartTick
    \/ \E op \in Transitions : Click(op) \/ OpElsewhere(op)
    \/ \E s \in Slots, r \in Reads : Read(s, r)
    \/ Check \/ Write
    \/ LoadAnswered \/ ActionAnswered \/ PutAnswered \/ Refused
    \/ \E s \in Polls : StatsAnswered(s) \/ ChartAnswered(s) \/ BoardAnswered(s)
    \/ \E s \in Slots : Fail(s)
    \/ Sell

ReportsSpec == ReportsInit /\ [][ReportsNext]_reportVars

\* Timers go on, and the gateway answers what they ask.  A timer that finds no room in Polls waits,
\* which the browser's do not: it gets its turn in the end.
FairReportsSpec ==
    /\ ReportsSpec
    /\ SF_reportVars(BoardTick \/ StatsTick) /\ SF_reportVars(ChartTick)
    /\ \A s \in Polls : WF_reportVars(Serve(s))

-----------------------------------------------------------------------------
\* A page has something to show: reports, a spinner or a banner.  Neither is due on a board after an
\* answer, so that it takes its data for granted (`data!`), though its loads overlap.
NeverBlank == View # "nothing"

\* An event page whose badge says ENDED shows the statistics of the ended sale, and nothing will fetch
\* them again; but for an answer to a stopped timer that came later, and for a status that changed
\* while the event and its statistics were fetched.
FinalNumbers ==
    page \in EventPages /\ Badge = "ENDED" /\ ~crossed => ui.shown["stats"].row = "ENDED"

\* What a page shows is there, and final when it says so.
ShownTruly == NeverBlank /\ FinalNumbers

\* Once the sale comes to rest, a page with a timer catches up with it, whatever overtakes what: a
\* board, and of an event shown as ACTIVE the statistics and, unless it has failed before, the chart.
CaughtUp ==
    /\ page \in Boards => Fresh(Board, ui.shown[Board]) /\ ~ui.error
    /\ page \in EventPages /\ Badge = "ACTIVE" => Fresh("stats", ui.shown["stats"])
    /\ page = "event" /\ Badge = "ACTIVE" =>
           ChartView = "banner" \/ (ChartView \in {"hint", "curve"} /\ Fresh("timeline", chart.data))

\* The timers of the pages bring them up to date in the end, although no answer waits for another.
CatchesUp == <>[][UNCHANGED <<row, sold>>]_reportVars => <>[]CaughtUp
=============================================================================
