----------------------------- MODULE Simulator ------------------------------
(***************************************************************************)
(* The dashboard's simulator (apps/saas-dashboard/src/app/demo/page.tsx):  *)
(* a page that lets many users join an event, polls for each of them and   *)
(* counts what becomes of them.  Its functions share mutable refs; what    *)
(* one of them waits for may come when the run it belonged to was stopped, *)
(* reset or followed by another.                                           *)
(*                                                                         *)
(* Runs are numbered by the Start that began them.  The users of all runs  *)
(* have the same ids and meet the same event.                              *)
(***************************************************************************)
EXTENDS Integers, FiniteSets

CONSTANTS
    Users,          \* the ids demo_user_001 ...
    Cap,            \* joins in flight at most: 10 in the code
    MaxRuns,        \* bound on runs
    MaxFaults       \* bound on requests that fail

ASSUME SimulatorAssumption ==
    /\ IsFiniteSet(Users)
    /\ Cap \in Nat \ {0} /\ MaxRuns \in Nat /\ MaxFaults \in Nat

Runs == 1..MaxRuns

VARIABLES
    running,        \* isRunningRef
    run,            \* the number of runs begun
    users,          \* userStatesRef
    stats,          \* statsRef
    joinInFlight,
    join,           \* joinUser, by user and run: where it is
    poll,           \* the poll loops, by user and the run of the join that began them
    pollTimer,      \* pollTimers: the run of the loop whose timer was set last, or 0
    entry,          \* the gateway: what it keeps of each user
    faults,         \* counter of the bound
    strays,         \* history: joins in flight when joinInFlight was last set to zero
    mixed           \* history: a run was begun or reset with something of an earlier one under way

vars == <<running, run, users, stats, joinInFlight, join, poll, pollTimer, entry, faults, strays, mixed>>

Statuses  == {"idle", "joining", "queued", "won", "sold_out", "error"}
Counters  == {"joining", "queued", "won", "drainRejected", "doorClosed", "errors"}
Zero      == [c \in Counters |-> 0]
JoinStates == {"none", "timer", "waiting", "sent", "won", "queued", "sold_out", "already", "odd"}
PollStates == {"none", "timer", "sent"}
Tasks     == Users \X Runs

\* Joins whose request is under way or whose answer has not been looked at.
Underway  == {k \in Tasks : join[k] \notin {"none", "timer", "waiting"}}
InStatus(s) == {u \in Users : users[u] = s}

TypeOK ==
    /\ running \in BOOLEAN /\ run \in 0..MaxRuns
    /\ users \in [Users -> Statuses]
    /\ stats \in [Counters -> Nat]
    /\ joinInFlight \in Int
    /\ join \in [Tasks -> JoinStates] /\ poll \in [Tasks -> PollStates]
    /\ pollTimer \in [Users -> 0..MaxRuns]
    /\ entry \in [Users -> {"none", "queued", "won", "sold_out"}]
    /\ faults \in 0..MaxFaults /\ strays \in Nat /\ mixed \in BOOLEAN

Init ==
    /\ running = FALSE /\ run = 0
    /\ users = [u \in Users |-> "idle"]
    /\ stats = Zero
    /\ joinInFlight = 0
    /\ join = [k \in Tasks |-> "none"] /\ poll = [k \in Tasks |-> "none"]
    /\ pollTimer = [u \in Users |-> 0]
    /\ entry = [u \in Users |-> "none"]
    /\ faults = 0 /\ strays = 0 /\ mixed = FALSE

UnchangedRun     == UNCHANGED <<running, run, strays, mixed>>
UnchangedOutside == UNCHANGED <<entry, faults>>

-----------------------------------------------------------------------------
(* Start, stop and reset.                                                   *)

\* Clearing the timers stops joins that have not begun and the poll loops whose timer is
\* the one on record; whatever waits for an answer or for its turn goes on.
JoinsCleared == [k \in Tasks |-> IF join[k] = "timer" THEN "none" ELSE join[k]]
PollsCleared == [k \in Tasks |-> IF poll[k] = "timer" /\ pollTimer[k[1]] = k[2] THEN "none" ELSE poll[k]]

\* The refs of a run are set to their first values.
ClearRefs ==
    /\ users' = [u \in Users |-> "idle"]
    /\ stats' = Zero
    /\ joinInFlight' = 0
    /\ strays' = Cardinality(Underway)
    /\ mixed' = (mixed \/ \E k \in Tasks : JoinsCleared[k] # "none" \/ PollsCleared[k] # "none")

\* start.  Its button is there while nothing runs, but what follows its request for the
\* event's info does not look whether another start has begun a run meanwhile: since any
\* number may have been asked for at first, one may come at any time.  A request that fails
\* or finds the event not active changes nothing.
Start ==
    /\ run < MaxRuns
    /\ run' = run + 1
    /\ running' = TRUE
    /\ ClearRefs
    /\ join' = [k \in Tasks |-> IF k[2] = run + 1 THEN "timer" ELSE JoinsCleared[k]]
    /\ poll' = PollsCleared
    /\ pollTimer' = [u \in Users |-> 0]
    /\ UnchangedOutside

\* stopSimulation.
StopSimulation ==
    /\ running
    /\ running' = FALSE
    /\ join' = JoinsCleared /\ poll' = PollsCleared
    /\ pollTimer' = [u \in Users |-> 0]
    /\ UNCHANGED <<run, users, stats, joinInFlight, strays, mixed>> /\ UnchangedOutside

\* reset, which stops first.
Reset ==
    /\ running' = FALSE
    /\ join' = JoinsCleared /\ poll' = PollsCleared
    /\ pollTimer' = [u \in Users |-> 0]
    /\ ClearRefs
    /\ UNCHANGED run /\ UnchangedOutside

-----------------------------------------------------------------------------
(* joinUser.                                                                *)

Floor0(n) == IF n < 0 THEN 0 ELSE n

\* The timer of a join fires when all places are taken; it sleeps until one is free.
JoinWaits(k) ==
    /\ join[k] = "timer" /\ joinInFlight >= Cap
    /\ join' = [join EXCEPT ![k] = "waiting"]
    /\ UNCHANGED <<users, stats, joinInFlight, poll, pollTimer>> /\ UnchangedRun /\ UnchangedOutside

\* One place too many.
JoinSentOver(k) ==
    /\ join[k] \in {"timer", "waiting"} /\ joinInFlight <= Cap
    /\ running
    /\ join' = [join EXCEPT ![k] = "sent"]
    /\ joinInFlight' = joinInFlight + 1
    /\ users' = [users EXCEPT ![k[1]] = "joining"]
    /\ stats' = [stats EXCEPT !["joining"] = @ + 1]
    /\ UNCHANGED <<poll, pollTimer>> /\ UnchangedRun /\ UnchangedOutside

\* There is a free place, at once or after a wait: a look at isRunningRef, and the request.
JoinSent(k) ==
    /\ join[k] \in {"timer", "waiting"} /\ joinInFlight < Cap
    /\ running
    /\ join' = [join EXCEPT ![k] = "sent"]
    /\ joinInFlight' = joinInFlight + 1
    /\ users' = [users EXCEPT ![k[1]] = "joining"]
    /\ stats' = [stats EXCEPT !["joining"] = @ + 1]
    /\ UNCHANGED <<poll, pollTimer>> /\ UnchangedRun /\ UnchangedOutside

JoinDropped(k) ==
    /\ join[k] = "waiting" /\ joinInFlight < Cap
    /\ ~running
    /\ join' = [join EXCEPT ![k] = "none"]
    /\ UNCHANGED <<users, stats, joinInFlight, poll, pollTimer>> /\ UnchangedRun /\ UnchangedOutside

\* The answer: the user's status, what the counters make of it, and whether to poll.
JoinTakes(k, status, counter, polls, joining) ==
    /\ users' = [users EXCEPT ![k[1]] = status]
    /\ stats' = [stats EXCEPT !["joining"] = Floor0(@ - joining), ![counter] = @ + 1]
    /\ joinInFlight' = joinInFlight - 1
    /\ join' = [join EXCEPT ![k] = "none"]
    /\ IF polls THEN /\ poll' = [poll EXCEPT ![k] = "timer"]
                     /\ pollTimer' = [pollTimer EXCEPT ![k[1]] = k[2]]
                ELSE UNCHANGED <<poll, pollTimer>>

\* An answer that is none of those expected is thrown as an error when joining was
\* decremented already, and the catch clause decrements it again.
JoinAnswered(k) ==
    /\ CASE join[k] = "won"                    -> JoinTakes(k, "won", "won", FALSE, 1)
         [] join[k] \in {"queued", "already"}  -> JoinTakes(k, "queued", "queued", TRUE, 1)
         [] join[k] = "sold_out"               -> JoinTakes(k, "sold_out", "doorClosed", FALSE, 1)
         [] join[k] = "odd"                    -> JoinTakes(k, "error", "errors", FALSE, 2)
         [] OTHER                              -> FALSE
    /\ UnchangedRun /\ UnchangedOutside

\* A request to join, or its reply, is lost.
JoinFails(k) ==
    /\ k \in Underway /\ faults < MaxFaults
    /\ faults' = faults + 1
    /\ JoinTakes(k, "error", "errors", FALSE, 1)
    /\ UNCHANGED entry /\ UnchangedRun

-----------------------------------------------------------------------------
(* startPolling.                                                            *)

\* The timer of a loop fires; a loop ends when its user is no longer queued.
PollFires(k) ==
    /\ poll[k] = "timer"
    /\ poll' = [poll EXCEPT ![k] = IF running /\ users[k[1]] = "queued" THEN "sent" ELSE "none"]
    /\ UNCHANGED <<users, stats, joinInFlight, join, pollTimer>> /\ UnchangedRun /\ UnchangedOutside

\* The queue is not counted down.
LeavesUncounted(k, status, counter) ==
    /\ users' = [users EXCEPT ![k[1]] = status]
    /\ stats' = [stats EXCEPT ![counter] = @ + 1]
    /\ poll' = [poll EXCEPT ![k] = "none"]
    /\ pollTimer' = [pollTimer EXCEPT ![k[1]] = 0]

\* The user left the queue: the loop ends and takes the user's timer off the record.
Leaves(k, status, counter) ==
    /\ users' = [users EXCEPT ![k[1]] = status]
    /\ stats' = [stats EXCEPT !["queued"] = Floor0(@ - 1), ![counter] = @ + 1]
    /\ poll' = [poll EXCEPT ![k] = "none"]
    /\ pollTimer' = [pollTimer EXCEPT ![k[1]] = 0]

PollGoesOn(k) ==
    /\ poll' = [poll EXCEPT ![k] = "timer"]
    /\ pollTimer' = [pollTimer EXCEPT ![k[1]] = k[2]]
    /\ UNCHANGED <<users, stats>>

\* The answer to a poll tells how the user stands with the gateway; the page looks at the
\* user again first.  An answer overtaken by the drain would only cost one more poll.
PollAnswered(k) ==
    /\ poll[k] = "sent"
    /\ IF users[k[1]] # "queued"
          THEN poll' = [poll EXCEPT ![k] = "none"] /\ UNCHANGED <<users, stats, pollTimer>>
          ELSE CASE entry[k[1]] = "won"      -> Leaves(k, "won", "won")
                 [] entry[k[1]] = "sold_out" -> Leaves(k, "sold_out", "drainRejected")
                 [] OTHER                    -> PollGoesOn(k)
    /\ UNCHANGED <<joinInFlight, join>> /\ UnchangedRun /\ UnchangedOutside

\* An error is passed over, without a look at the user.
PollFails(k) ==
    /\ poll[k] = "sent" /\ faults < MaxFaults
    /\ faults' = faults + 1
    /\ PollGoesOn(k)
    /\ UNCHANGED <<joinInFlight, join, entry>> /\ UnchangedRun

-----------------------------------------------------------------------------
(* The gateway.                                                             *)

UnchangedPage == UNCHANGED <<users, stats, joinInFlight, pollTimer>>

\* POST /api/queue/join: whoever comes is told when the sale does not run; a new user is
\* queued, or turned away at the door without a trace; one whom the gateway knows is told
\* how it stands.
JoinServed(k) ==
    /\ join[k] = "sent"
    /\ \E a \in {"queued", "sold_out", "odd", "already", "won"} :
          /\ join' = [join EXCEPT ![k] = a]
          /\ \/ a = "odd"
             \/ entry[k[1]] = "none" /\ a \in {"queued", "sold_out"}
             \/ entry[k[1]] = "queued" /\ a = "already"
             \/ entry[k[1]] \notin {"none", "queued"} /\ a = entry[k[1]]
          /\ entry' = [entry EXCEPT ![k[1]] = IF a = "queued" THEN a ELSE @]
    /\ UNCHANGED <<poll, faults>> /\ UnchangedPage /\ UnchangedRun

\* The drain serves a queued user.
Drain(u) ==
    /\ entry[u] = "queued"
    /\ \E r \in {"won", "sold_out"} : entry' = [entry EXCEPT ![u] = r]
    /\ UNCHANGED <<join, poll, faults>> /\ UnchangedPage /\ UnchangedRun

\* The event ends, or its five minutes as a test are over: nobody is known any more.
Forget ==
    /\ entry' = [u \in Users |-> "none"]
    /\ UNCHANGED <<join, poll, faults>> /\ UnchangedPage /\ UnchangedRun

-----------------------------------------------------------------------------
JoinStep(k) == JoinWaits(k) \/ JoinSent(k) \/ JoinDropped(k) \/ JoinServed(k) \/ JoinAnswered(k)
PollStep(k) == PollFires(k) \/ PollAnswered(k)

Next ==
    \/ Start \/ StopSimulation \/ Reset \/ Forget
    \/ \E k \in Tasks : JoinStep(k) \/ PollStep(k) \/ JoinFails(k) \/ PollFails(k)
    \/ \E u \in Users : Drain(u)

Spec == Init /\ [][Next]_vars

-----------------------------------------------------------------------------
(* Properties.                                                              *)

\* page.tsx:307-427.  While nothing of one run reaches another, the numbers shown are the
\* users in each state; only Joining may show less, because of answers that are thrown.
CountersAgree ==
    ~mixed =>
        /\ stats["queued"] = Cardinality(InStatus("queued"))
        /\ stats["won"] = Cardinality(InStatus("won"))
        /\ stats["drainRejected"] + stats["doorClosed"] = Cardinality(InStatus("sold_out"))
        /\ stats["errors"] = Cardinality(InStatus("error"))
        /\ stats["joining"] <= Cardinality(InStatus("joining"))

\* page.tsx:366-369.  No more joins are in flight than the cap allows, and those that a
\* start or a reset has forgotten by setting their number to zero.
CapKept == Cardinality(Underway) <= Cap + strays
=============================================================================
