------------------------------ MODULE FlashQueue ------------------------------
(***************************************************************************)
(* The browser SDK (packages/browser-sdk) of one user: the FlashQueue      *)
(* object, its poll timer and visibility listener, and the transport,      *)
(* whose requests overlap and share one abort controller. The gateway is   *)
(* what its queue controller answers about this user.                      *)
(*                                                                         *)
(* One action is one turn of the browser's event loop: a callback with the *)
(* promise reactions it sets off.                                          *)
(***************************************************************************)
EXTENDS Integers, FiniteSets

CONSTANTS
  Polls,           \* requests of poll(); enough for all that may overlap
  MaxPollRetries,  \* options.maxPollRetries
  MaxRetries,      \* MAX_RETRIES of the transport
  MaxHides         \* bound: how often the user switches away from the tab

Requests == Polls \cup {"info", "join"}

ASSUME QueueAssumption ==
  /\ Polls \cap {"info", "join"} = {}
  /\ MaxPollRetries \in Nat /\ MaxRetries \in Nat /\ MaxHides \in Nat
  /\ IsFiniteSet(Polls) /\ Cardinality(Polls) > MaxHides

VARIABLES
  state,        \* FlashQueue.state
  timer,        \* how many poll timers are armed
  listening,    \* the visibility listener is installed
  pollCount,
  req,          \* the requests of the transport
  controller,   \* Transport.controller: the request that set it last, or "none"
  hidden,       \* document.visibilityState
  server,       \* what the gateway has for this user
  shows,        \* history: how often the tab came back
  flaky         \* history: the network has failed a request of join()

vars == <<state, timer, listening, pollCount, req, controller, hidden, server, shows, flaky>>

States == {"idle", "joining", "queued", "won", "sold_out", "error", "destroyed"}
Replies == {"none", "QUEUED", "ALREADY_JOINED", "WON", "EXPIRED", "SOLD_OUT", "http"}
Idle == [pc |-> "idle", attempt |-> 0, reply |-> "none"]

Init ==
  /\ state = "idle" /\ timer = 0 /\ listening = FALSE /\ pollCount = 0
  /\ req = [r \in Requests |-> Idle]
  /\ controller = "none"
  /\ hidden \in {FALSE, MaxHides > 0}                         \* it may open in the background
  /\ server \in {"out", "queued", "won", "expired", "sold_out"}   \* the page may have been reloaded
  /\ shows = 0 /\ flaky = FALSE

-----------------------------------------------------------------------------
(* The gateway.                                                            *)

\* What the gateway tells a user in state s who asks for the status. Between the
\* two reads of resolveUserStatus, or in the hands of the drain, a queued user is
\* not found.
StatusReplies(s) ==
  CASE s = "queued" -> {"QUEUED", "http"}
    [] s = "won" -> {"WON"}
    [] s = "expired" -> {"EXPIRED"}
    [] s = "sold_out" -> {"SOLD_OUT"}
    [] OTHER -> {"http"}

\* A join of one who is known is answered with the status. Others may be told to
\* wait, that the door is closed, or an error: unknown, paused, not active.
JoinReplies(s) ==
  CASE s = "out" -> {"QUEUED", "SOLD_OUT", "http"}
    [] s = "queued" -> {"ALREADY_JOINED"}
    [] OTHER -> StatusReplies(s)

Answer(r) ==
  /\ req[r].pc = "fetch"
  /\ \E reply \in IF r = "join" THEN JoinReplies(server) ELSE IF r = "info" THEN {"QUEUED"} ELSE StatusReplies(server) :
       /\ req' = [req EXCEPT ![r].pc = "reply", ![r].reply = reply]
       /\ server' = IF r = "join" /\ reply = "QUEUED" THEN "queued" ELSE server
  /\ UNCHANGED <<state, timer, listening, pollCount, controller, hidden, shows, flaky>>

\* The drain serves the user, a ticket lapses, the event ends.
ServerMoves ==
  /\ \/ server = "queued" /\ server' \in {"won", "sold_out", "closed"}
     \/ server = "won" /\ server' \in {"expired", "closed"}
  /\ UNCHANGED <<state, timer, listening, pollCount, req, controller, hidden, shows, flaky>>

-----------------------------------------------------------------------------
(* Transport.                                                              *)

\* A request, or a retry of it, goes out with a controller of its own.
Sent(rs, r, n) == [rs EXCEPT ![r] = [pc |-> "fetch", attempt |-> n, reply |-> "none"]]

MayRetry(r) == req[r].attempt < MaxRetries

\* The network fails (a TypeError): wait and try again. The answer, if there was
\* one, is lost.
Fails(r) ==
  /\ req[r].pc \in {"fetch", "reply"} /\ MayRetry(r)
  /\ req' = [req EXCEPT ![r] = [Idle EXCEPT !.pc = "sleep", !.attempt = req[r].attempt]]
  /\ flaky' = (flaky \/ r \in {"info", "join"})
  /\ UNCHANGED <<state, timer, listening, pollCount, controller, hidden, server, shows>>

Retry(r) ==
  /\ req[r].pc = "sleep"
  /\ req' = Sent(req, r, req[r].attempt + 1)
  /\ controller' = r
  /\ UNCHANGED <<state, timer, listening, pollCount, hidden, server, shows, flaky>>

-----------------------------------------------------------------------------
(* FlashQueue.                                                             *)

\* A poll timer that is armed is replaced.
SchedulePoll == timer' = 1

StartPolling == listening' = TRUE /\ SchedulePoll

\* join(), with the info request before its own.
Join ==
  /\ state = "idle"
  /\ state' = "joining"
  /\ req' = Sent(Sent(req, "info", 0), "join", 0)
  /\ controller' = "join"
  /\ UNCHANGED <<timer, listening, pollCount, hidden, server, shows, flaky>>

\* The transport gives the caller its reply, ...
Taken(r) ==
  /\ req' = [req EXCEPT ![r] = Idle]
  /\ UNCHANGED <<controller, hidden, server, shows, flaky, pollCount>>
Replied(r, replies) == req[r].pc = "reply" /\ req[r].reply \in replies /\ Taken(r)

\* ... or rejects: an HTTP error, ten seconds without the whole answer (which is
\* not retried), or no retry left.
Rejects(r) == req[r].pc \in {"fetch", "reply"} /\ Taken(r)

InfoEnds ==
  /\ Replied("info", Replies) \/ Rejects("info")
  /\ UNCHANGED <<state, timer, listening>>

\* join goes on after its await, whatever has become of the object.
JoinWon == Replied("join", {"WON", "EXPIRED"}) /\ state' = "won" /\ UNCHANGED <<timer, listening>>
JoinSoldOut == Replied("join", {"SOLD_OUT"}) /\ state' = "sold_out" /\ UNCHANGED <<timer, listening>>
JoinQueued == Replied("join", {"QUEUED", "ALREADY_JOINED"}) /\ state' = "queued" /\ StartPolling
JoinFails ==
  /\ Rejects("join")
  /\ state' = IF state = "destroyed" THEN state ELSE "error"
  /\ UNCHANGED <<timer, listening>>

JoinEnds == JoinWon \/ JoinSoldOut \/ JoinQueued \/ JoinFails

\* setTimeout fires once.
DisarmedNever == timer
Disarmed == timer - 1

CountedNever == pollCount
Counted == IF pollCount < MaxPollRetries THEN pollCount + 1 ELSE pollCount

\* The poll timer fires. After the last poll the count goes on, to no effect.
Fire(p) ==
  /\ timer > 0 /\ req[p] = Idle
  /\ timer' = Disarmed
  /\ IF state = "destroyed" \/ hidden THEN UNCHANGED <<state, pollCount, req, controller>>
     ELSE /\ pollCount' = Counted
          /\ IF pollCount' = MaxPollRetries
             THEN state' = "error" /\ UNCHANGED <<req, controller>>
             ELSE req' = Sent(req, p, 0) /\ controller' = p /\ UNCHANGED state
  /\ UNCHANGED <<listening, hidden, server, shows, flaky>>

\* poll goes on after its await.
PollDoneGoesOn(p, replies, next) ==
  /\ Replied(p, replies)
  /\ state' = IF state = "destroyed" THEN state ELSE next
  /\ SchedulePoll
  /\ UNCHANGED listening
PollDone(p, replies, next) ==
  /\ Replied(p, replies)
  /\ state' = IF state = "destroyed" THEN state ELSE next
  /\ UNCHANGED <<timer, listening>>

PollAgain(p) ==
  /\ Replied(p, {"QUEUED"}) \/ Rejects(p)
  /\ IF state = "destroyed" THEN UNCHANGED timer ELSE SchedulePoll
  /\ UNCHANGED <<state, listening>>

PollEnds(p) ==
  \/ PollDone(p, {"WON"}, "won")
  \/ PollDone(p, {"EXPIRED"}, "error")
  \/ PollDone(p, {"SOLD_OUT"}, "sold_out")
  \/ PollAgain(p)

\* The request whose controller is the current one ends with an AbortError and
\* its caller returns, for the object is destroyed.
NotAborted == req
Aborted == [r \in Requests |-> IF r = controller /\ req[r].pc \in {"fetch", "reply"} THEN Idle ELSE req[r]]

Destroy ==
  /\ state # "destroyed"
  /\ state' = "destroyed" /\ timer' = 0 /\ listening' = FALSE
  /\ req' = Aborted /\ controller' = "none"
  /\ UNCHANGED <<pollCount, hidden, server, shows, flaky>>

\* visibilitychange.
Hide ==
  /\ ~hidden /\ shows < MaxHides
  /\ hidden' = TRUE
  /\ timer' = IF listening THEN 0 ELSE timer
  /\ UNCHANGED <<state, listening, pollCount, req, controller, server, shows, flaky>>

Resumed == IF listening THEN SchedulePoll ELSE UNCHANGED timer

Show ==
  /\ hidden
  /\ hidden' = FALSE /\ shows' = shows + 1
  /\ Resumed
  /\ UNCHANGED <<state, listening, pollCount, req, controller, server, flaky>>

-----------------------------------------------------------------------------

Transport(r) == Answer(r) \/ Fails(r) \/ Retry(r)

Next ==
  \/ Join \/ Destroy \/ Hide \/ Show \/ ServerMoves
  \/ \E r \in Requests : Transport(r)
  \/ InfoEnds \/ JoinEnds
  \/ \E p \in Polls : Fire(p) \/ PollEnds(p)

Spec == Init /\ [][Next]_vars

\* Timers fire, a request ends within ten seconds, and the user comes back to the
\* tab. Nothing is assumed of the gateway: it need not answer, or serve anyone.
Fairness ==
  /\ WF_vars(\E p \in Polls : Fire(p))
  /\ \A p \in Polls : WF_vars(Retry(p) \/ PollEnds(p) \/ Fails(p))
  /\ WF_vars(Show)

FairSpec == Spec /\ Fairness

-----------------------------------------------------------------------------

\* Every variable has its type.
TypeOK ==
  /\ state \in States
  /\ timer \in 0..1 /\ pollCount \in 0..MaxPollRetries /\ shows \in 0..MaxHides
  /\ listening \in BOOLEAN /\ hidden \in BOOLEAN /\ flaky \in BOOLEAN
  /\ req \in [Requests -> [pc : {"idle", "fetch", "reply", "sleep"}, attempt : 0..MaxRetries, reply : Replies]]
  /\ controller \in Requests \cup {"none"}
  /\ server \in {"out", "queued", "won", "expired", "sold_out", "closed"}

InAir == {p \in Polls : req[p] # Idle}

\* Answers that are late do not multiply the polls: there is one at a time, and
\* one more for every time the tab came back.
PollsBounded == timer + Cardinality(InAir) <= 1 + shows

\* An answer is final as long as the tab stays in front: no late or repeated poll
\* takes a ticket back, or turns a sold-out user around.
Final == [][(state = "won" \/ state = "sold_out") /\ shows = 0 => state' = state \/ state' = "destroyed"]_vars

\* destroy() is the end of the object: no timer or listener is left to wake it, it sends
\* nothing but the repetition of a request that failed before, and its state is final, also
\* in the middle of a join, as long as no request of the join had to be repeated.
DestroyedForGood == [][state = "destroyed" =>
  /\ ~flaky => state' = "destroyed"
  /\ state' = "destroyed" => timer' = 0 /\ ~listening'
  /\ \A r \in Requests : req'[r].pc = "fetch" => req[r].pc \in {"fetch", "sleep"}]_vars

\* Whoever waits is told an outcome in the end, at the latest that the polls are
\* used up.
Answered == state = "queued" ~> state \in {"won", "sold_out", "error", "destroyed"}
=============================================================================
