------------------------- MODULE FlashQueue_proofs --------------------------
(***************************************************************************)
(* Theorems about FlashQueue: for any number of requests, retries, polls   *)
(* and times the tab is hidden.                                            *)
(***************************************************************************)
EXTENDS FlashQueue, FiniteSetTheorems, TLAPS

-----------------------------------------------------------------------------
(* Type correctness.  TypeOK is not inductive: a request sleeps only when it *)
(* has a retry left, and the tab is hidden only as often as the bound says.  *)

Rows == [pc : {"idle", "fetch", "reply", "sleep"}, attempt : 0..MaxRetries, reply : Replies]

TypeInv ==
  /\ TypeOK
  /\ \A r \in Requests : req[r].pc = "sleep" => req[r].attempt < MaxRetries
  /\ hidden => shows < MaxHides

LEMMA IdleIsRow == Idle \in Rows /\ Idle.pc = "idle"
  BY QueueAssumption DEF Idle, Rows, Replies

LEMMA RequestsKnown == /\ "join" \in Requests /\ "info" \in Requests /\ Polls \subseteq Requests
                       /\ "join" \notin Polls /\ "info" \notin Polls
  BY QueueAssumption DEF Requests

LEMMA TypeInit == Init => TypeInv
<1> SUFFICES ASSUME Init PROVE TypeInv
  OBVIOUS
<1>1. req \in [Requests -> Rows] /\ \A r \in Requests : req[r].pc # "sleep"
  BY IdleIsRow DEF Init
<1>2. hidden \in BOOLEAN /\ (hidden => shows < MaxHides)
  <2>1. (MaxHides > 0) \in BOOLEAN /\ (MaxHides > 0 => 0 < MaxHides)
    BY QueueAssumption
  <2>2. shows = 0 /\ (hidden = FALSE \/ hidden = (MaxHides > 0))
    BY DEF Init
  <2>3. CASE hidden = FALSE
    BY <2>3
  <2>4. CASE hidden = (MaxHides > 0)
    <3>1. hidden \in BOOLEAN /\ (hidden => 0 < MaxHides)
      BY <2>1, <2>4, Zenon
    <3> QED
      BY <2>2, <3>1
  <2> QED
    BY <2>2, <2>3, <2>4
<1>3. /\ state \in States /\ timer \in 0..1 /\ pollCount \in 0..MaxPollRetries /\ shows \in 0..MaxHides
      /\ listening \in BOOLEAN /\ flaky \in BOOLEAN /\ controller \in Requests \cup {"none"}
      /\ server \in {"out", "queued", "won", "expired", "sold_out", "closed"}
  <2>1. /\ state = "idle" /\ timer = 0 /\ listening = FALSE /\ pollCount = 0 /\ shows = 0 /\ flaky = FALSE
        /\ controller = "none" /\ server \in {"out", "queued", "won", "expired", "sold_out"}
    BY Zenon DEF Init
  <2>2. listening \in BOOLEAN /\ flaky \in BOOLEAN
    BY <2>1, Zenon
  <2>3. state \in States /\ controller \in Requests \cup {"none"}
    BY <2>1 DEF States
  <2>4. timer \in 0..1 /\ pollCount \in 0..MaxPollRetries /\ shows \in 0..MaxHides
    BY <2>1, QueueAssumption
  <2>5. server \in {"out", "queued", "won", "expired", "sold_out", "closed"}
    BY <2>1
  <2> QED
    BY <2>2, <2>3, <2>4, <2>5
<1> QED
  BY <1>1, <1>2, <1>3 DEF TypeInv, TypeOK, Rows

\* What a step that leaves the rest alone has to keep.
LEMMA RowsKept ==
  ASSUME TypeInv, NEW r \in Requests, NEW row \in Rows, row.pc = "sleep" => row.attempt < MaxRetries,
         req' = [req EXCEPT ![r] = row]
  PROVE  /\ req' \in [Requests -> Rows]
         /\ \A q \in Requests : req'[q].pc = "sleep" => req'[q].attempt < MaxRetries
  BY DEF TypeInv, TypeOK, Rows

\* The request goes out with a row of the right type.
LEMMA SentType ==
  ASSUME NEW rs \in [Requests -> Rows], NEW r \in Requests, NEW n \in 0..MaxRetries
  PROVE  /\ Sent(rs, r, n) \in [Requests -> Rows]
         /\ Sent(rs, r, n) = [rs EXCEPT ![r] = [pc |-> "fetch", attempt |-> n, reply |-> "none"]]
         /\ [pc |-> "fetch", attempt |-> n, reply |-> "none"] \in Rows
<1>1. [pc |-> "fetch", attempt |-> n, reply |-> "none"] \in Rows
  BY DEF Rows, Replies
<1> QED
  BY <1>1 DEF Sent

LEMMA ReplyTypes ==
  ASSUME NEW s
  PROVE  StatusReplies(s) \subseteq Replies /\ JoinReplies(s) \subseteq Replies
<1>1. StatusReplies(s) \subseteq Replies
  BY DEF StatusReplies, Replies
<1>2. JoinReplies(s) \subseteq Replies
  BY <1>1 DEF JoinReplies, Replies
<1> QED
  BY <1>1, <1>2

LEMMA TypeAnswer == ASSUME TypeInv, NEW r \in Requests, Answer(r) PROVE TypeInv'
<1>1. PICK reply \in Replies : /\ req' = [req EXCEPT ![r].pc = "reply", ![r].reply = reply]
                               /\ server' = IF r = "join" /\ reply = "QUEUED" THEN "queued" ELSE server
  BY ReplyTypes DEF Answer, Replies
<1>2. /\ req' \in [Requests -> Rows]
      /\ \A q \in Requests : req'[q].pc = "sleep" => req'[q].attempt < MaxRetries
  BY <1>1 DEF TypeInv, TypeOK, Rows
<1>3. server' \in {"out", "queued", "won", "expired", "sold_out", "closed"}
  BY <1>1 DEF TypeInv, TypeOK
<1> QED
  BY <1>2, <1>3 DEF Answer, TypeInv, TypeOK, Rows

LEMMA TypeTransport == ASSUME TypeInv, NEW r \in Requests, Fails(r) \/ Retry(r) PROVE TypeInv'
<1>1. CASE Fails(r)
  <2> DEFINE row == [Idle EXCEPT !.pc = "sleep", !.attempt = req[r].attempt]
  <2>1. row \in Rows /\ row.attempt < MaxRetries
    BY <1>1, QueueAssumption DEF Fails, MayRetry, TypeInv, TypeOK, Idle, Rows, Replies
  <2>2. req' = [req EXCEPT ![r] = row]
    BY <1>1 DEF Fails
  <2> HIDE DEF row
  <2>3. /\ req' \in [Requests -> Rows]
        /\ \A q \in Requests : req'[q].pc = "sleep" => req'[q].attempt < MaxRetries
    BY <2>1, <2>2, RowsKept
  <2> QED
    BY <1>1, <2>3 DEF Fails, TypeInv, TypeOK, Rows
<1>2. CASE Retry(r)
  <2> DEFINE row == [pc |-> "fetch", attempt |-> req[r].attempt + 1, reply |-> "none"]
  <2>1. req[r].attempt + 1 \in 0..MaxRetries /\ req \in [Requests -> Rows]
    BY <1>2, QueueAssumption DEF Retry, TypeInv, TypeOK, Rows
  <2>2. req' = [req EXCEPT ![r] = row] /\ row \in Rows /\ row.pc = "fetch"
    BY <1>2, <2>1, SentType DEF Retry
  <2> HIDE DEF row
  <2>3. /\ req' \in [Requests -> Rows]
        /\ \A q \in Requests : req'[q].pc = "sleep" => req'[q].attempt < MaxRetries
    BY <2>2, RowsKept
  <2> QED
    BY <1>2, <2>3 DEF Retry, TypeInv, TypeOK, Rows
<1> QED
  BY <1>1, <1>2

LEMMA TypeJoin == ASSUME TypeInv, Join PROVE TypeInv'
<1> DEFINE row == [pc |-> "fetch", attempt |-> 0, reply |-> "none"]
<1>1. /\ req' = [[req EXCEPT !["info"] = row] EXCEPT !["join"] = row]
      /\ row \in Rows /\ row.pc = "fetch"
  BY QueueAssumption DEF Join, Sent, Rows, Replies
<1>2. req \in [Requests -> Rows] /\ \A r \in Requests : req[r].pc = "sleep" => req[r].attempt < MaxRetries
  BY DEF TypeInv, TypeOK, Rows
<1> HIDE DEF row
<1>3. /\ req' \in [Requests -> Rows]
      /\ \A q \in Requests : req'[q].pc = "sleep" => req'[q].attempt < MaxRetries
  BY <1>1, <1>2, RequestsKnown
<1> QED
  BY <1>3, RequestsKnown DEF Join, TypeInv, TypeOK, States, Rows

\* A caller has its answer.
LEMMA TypeTaken ==
  ASSUME TypeInv, NEW r \in Requests, Taken(r)
  PROVE  /\ req' \in [Requests -> Rows]
         /\ \A q \in Requests : req'[q].pc = "sleep" => req'[q].attempt < MaxRetries
         /\ UNCHANGED <<controller, hidden, server, shows, flaky, pollCount>>
  BY IdleIsRow, RowsKept DEF Taken

LEMMA TypeEnds ==
  ASSUME TypeInv, InfoEnds \/ JoinEnds \/ \E p \in Polls : PollEnds(p)
  PROVE  TypeInv'
<1>1. PICK r \in Requests : Taken(r)
  BY RequestsKnown DEF InfoEnds, JoinEnds, JoinWon, JoinSoldOut, JoinQueued, JoinFails, PollEnds, PollDone, PollAgain, Replied, Rejects
<1>2. state' \in States /\ timer' \in 0..1 /\ listening' \in BOOLEAN
  <2>1. state \in States /\ timer \in 0..1 /\ listening \in BOOLEAN
    BY DEF TypeInv, TypeOK
  <2>2. CASE InfoEnds
    BY <2>1, <2>2 DEF InfoEnds
  <2>3. CASE JoinEnds
    <3>1. CASE JoinWon \/ JoinSoldOut \/ JoinQueued
      <4>1. listening' \in BOOLEAN
        BY <2>1, <3>1, Zenon DEF JoinWon, JoinSoldOut, JoinQueued, StartPolling
      <4>2. state' \in {"won", "sold_out", "queued"} /\ timer' \in {timer, 1}
        BY <3>1 DEF JoinWon, JoinSoldOut, JoinQueued, StartPolling, SchedulePoll
      <4> QED
        BY <2>1, <4>1, <4>2 DEF States
    <3>2. CASE JoinFails
      BY <2>1, <3>2 DEF JoinFails, States
    <3> QED
      BY <2>3, <3>1, <3>2 DEF JoinEnds
  <2>4. CASE \E p \in Polls : PollEnds(p)
    BY <2>1, <2>4 DEF PollEnds, PollDone, PollAgain, SchedulePoll, States
  <2> QED
    BY <2>2, <2>3, <2>4
<1> QED
  BY <1>1, <1>2, TypeTaken DEF TypeInv, TypeOK, Rows

LEMMA TypeFire == ASSUME TypeInv, NEW p \in Polls, Fire(p) PROVE TypeInv'
<1>1. timer' \in 0..1 /\ UNCHANGED <<listening, hidden, server, shows, flaky>>
  BY DEF Fire, Disarmed, TypeInv, TypeOK
<1>2. state' \in States /\ pollCount' \in 0..MaxPollRetries
  BY QueueAssumption DEF Fire, Counted, TypeInv, TypeOK, States
<1>3. /\ req' \in [Requests -> Rows] /\ controller' \in Requests \cup {"none"}
      /\ \A q \in Requests : req'[q].pc = "sleep" => req'[q].attempt < MaxRetries
  <2>1. req \in [Requests -> Rows] /\ 0 \in 0..MaxRetries /\ p \in Requests
    BY QueueAssumption, RequestsKnown DEF TypeInv, TypeOK, Rows
  <2>2. CASE UNCHANGED <<req, controller>>
    BY <2>1, <2>2 DEF TypeInv, TypeOK
  <2>3. CASE req' = Sent(req, p, 0) /\ controller' = p
    <3> DEFINE row == [pc |-> "fetch", attempt |-> 0, reply |-> "none"]
    <3>1. req' = [req EXCEPT ![p] = row] /\ row \in Rows /\ row.pc = "fetch"
      BY <2>1, <2>3, SentType
    <3> HIDE DEF row
    <3> QED
      BY <2>1, <2>3, <3>1, RowsKept
  <2> QED
    BY <2>2, <2>3 DEF Fire
<1> QED
  BY <1>1, <1>2, <1>3 DEF TypeInv, TypeOK, Rows

LEMMA TypeOthers == ASSUME TypeInv, Destroy \/ Hide \/ Show \/ ServerMoves \/ UNCHANGED vars PROVE TypeInv'
<1>1. CASE Destroy
  <2>1. /\ req' \in [Requests -> Rows]
        /\ \A q \in Requests : req'[q].pc = "sleep" => req'[q].attempt < MaxRetries
    BY <1>1, IdleIsRow DEF Destroy, Aborted, TypeInv, TypeOK, Rows
  <2>2. /\ state' = "destroyed" /\ timer' = 0 /\ listening' = FALSE /\ controller' = "none"
        /\ UNCHANGED <<pollCount, hidden, server, shows, flaky>>
    BY <1>1 DEF Destroy
  <2>3. listening' \in BOOLEAN
    BY <2>2, Zenon
  <2>4. state' \in States /\ timer' \in 0..1 /\ controller' \in Requests \cup {"none"}
    BY <2>2 DEF States
  <2>5. UNCHANGED <<pollCount, hidden, server, shows, flaky>>
    BY <2>2
  <2> QED
    BY <2>1, <2>3, <2>4, <2>5 DEF TypeInv, TypeOK, Rows
<1>2. CASE Hide
  BY <1>2 DEF Hide, TypeInv, TypeOK
<1>3. CASE Show
  <2>1. timer' \in 0..1
    <3>1. timer' = 1 \/ timer' = timer
      BY <1>3, Zenon DEF Show, Resumed, SchedulePoll
    <3> QED
      BY <3>1 DEF TypeInv, TypeOK
  <2>2. hidden' = FALSE /\ shows' = shows + 1 /\ UNCHANGED <<state, listening, pollCount, req, controller, server, flaky>>
    BY <1>3 DEF Show
  <2>3. shows' \in 0..MaxHides
    BY <1>3, <2>2, QueueAssumption DEF Show, TypeInv, TypeOK
  <2> QED
    BY <2>1, <2>2, <2>3 DEF TypeInv, TypeOK
<1>4. CASE ServerMoves
  BY <1>4 DEF ServerMoves, TypeInv, TypeOK
<1>5. CASE UNCHANGED vars
  BY <1>5 DEF vars, TypeInv, TypeOK
<1> QED
  BY <1>1, <1>2, <1>3, <1>4, <1>5

LEMMA TypeNext == ASSUME TypeInv, [Next]_vars PROVE TypeInv'
  BY TypeAnswer, TypeTransport, TypeJoin, TypeEnds, TypeFire, TypeOthers DEF Next, Transport

\* Every variable has its type, however requests overlap and are repeated
\* (transport.ts:104-121: a request sleeps only when a retry is left).
THEOREM QueueTypes == Spec => []TypeOK
<1>1. TypeInv => TypeOK
  BY DEF TypeInv
<1> QED
  BY <1>1, TypeInit, TypeNext, PTL DEF Spec

-----------------------------------------------------------------------------
(* The polls.  PollsBounded, Final and DestroyedForGood need to know what a  *)
(* join under way excludes: no timer, no listener and no poll, so that its   *)
(* end starts the first poll; and, unless a request of the join had to be    *)
(* repeated, that the controller is still the one of the join.               *)

Quiet == timer = 0 /\ listening = FALSE /\ InAir = {}

JoinInv ==
  /\ state = "idle" => req["join"] = Idle /\ Quiet
  /\ req["join"] # Idle => state \in {"joining", "destroyed"} /\ Quiet

OverInv == shows = 0 /\ state \in {"won", "sold_out"} => timer = 0 /\ InAir = {}

AbortInv == flaky = FALSE =>
  /\ req["info"].pc # "sleep" /\ req["join"].pc # "sleep"
  /\ req["join"] # Idle => controller = "join" /\ state = "joining"

IdleInv == \A r \in Requests : req[r].pc = "idle" => req[r] = Idle

DestroyedInv == state = "destroyed" => timer = 0 /\ listening = FALSE

PollInv == TypeInv /\ IdleInv /\ JoinInv /\ OverInv /\ AbortInv /\ DestroyedInv /\ PollsBounded

LEMMA AirFinite == IsFiniteSet(InAir) /\ Cardinality(InAir) \in Nat
<1>1. InAir \subseteq Polls /\ IsFiniteSet(Polls)
  BY QueueAssumption DEF InAir
<1> QED
  BY <1>1, FS_Subset, FS_CardinalityType

LEMMA AirFiniteNext == IsFiniteSet(InAir') /\ Cardinality(InAir') \in Nat
<1>1. InAir' \subseteq Polls /\ IsFiniteSet(Polls)
  BY QueueAssumption DEF InAir
<1> QED
  BY <1>1, FS_Subset, FS_CardinalityType

LEMMA PollInit == Init => PollInv
<1> SUFFICES ASSUME Init PROVE PollInv
  OBVIOUS
<1>1. state = "idle" /\ timer = 0 /\ listening = FALSE /\ shows = 0 /\ req = [r \in Requests |-> Idle]
  BY Zenon DEF Init
<1>2. InAir = {} /\ req["join"] = Idle
  BY <1>1, RequestsKnown DEF InAir
<1> QED
  BY <1>1, <1>2, TypeInit, FS_EmptySet, IdleIsRow, RequestsKnown DEF PollInv, IdleInv, JoinInv, OverInv, AbortInv, DestroyedInv, Quiet, PollsBounded

\* A row that changes adds its poll to those in the air, or takes it away.
LEMMA AirMoves ==
  ASSUME TypeInv, NEW r \in Requests, NEW row, req' = [req EXCEPT ![r] = row]
  PROVE  /\ r \notin Polls => InAir' = InAir
         /\ r \in Polls /\ row = Idle => InAir' = InAir \ {r}
         /\ r \in Polls /\ row # Idle => InAir' = InAir \cup {r}
         /\ r # "join" => req'["join"] = req["join"]
         /\ r = "join" => req'["join"] = row
  BY RequestsKnown DEF TypeInv, TypeOK, InAir

\* Nothing but the rows of busy requests changes, and they stay busy.
LEMMA PollBusy ==
  ASSUME PollInv, TypeInv', NEW r \in Requests, NEW row, req' = [req EXCEPT ![r] = row],
         req[r] # Idle, row.pc # "idle", UNCHANGED <<state, timer, listening, shows>>,
         flaky' = FALSE => flaky = FALSE /\ controller' = controller /\ (row.pc # "sleep" \/ r \in Polls)
  PROVE  PollInv'
<1>1. InAir' = InAir /\ (req'["join"] = Idle <=> req["join"] = Idle)
  BY AirMoves, IdleIsRow DEF PollInv, InAir
<1>2. JoinInv' /\ OverInv' /\ DestroyedInv' /\ PollsBounded'
  BY <1>1 DEF PollInv, JoinInv, OverInv, DestroyedInv, PollsBounded, Quiet
<1>3. AbortInv'
  <2>1. \A q \in Requests : req'[q].pc = "sleep" => req[q].pc = "sleep" \/ (q = r /\ row.pc = "sleep")
    BY DEF PollInv, TypeInv, TypeOK
  <2> QED
    BY <1>1, <2>1, RequestsKnown DEF PollInv, AbortInv
<1>4. IdleInv'
  BY DEF PollInv, TypeInv, TypeOK, IdleInv
<1> QED
  BY <1>2, <1>3, <1>4 DEF PollInv

LEMMA PollTransport == ASSUME PollInv, TypeInv', NEW r \in Requests, Transport(r) PROVE PollInv'
<1>0. req[r] \in Rows /\ flaky \in BOOLEAN /\ (flaky' = TRUE \/ flaky' = flaky)
  BY DEF PollInv, TypeInv, TypeOK, Rows, Transport, Answer, Fails, Retry
<1>1. CASE Answer(r)
  <2>1. PICK reply : req' = [req EXCEPT ![r].pc = "reply", ![r].reply = reply]
    BY <1>1 DEF Answer
  <2> DEFINE row == [req[r] EXCEPT !.pc = "reply", !.reply = reply]
  <2>2. req' = [req EXCEPT ![r] = row] /\ row.pc = "reply" /\ req[r].pc = "fetch"
    BY <1>0, <1>1, <2>1 DEF Rows, Answer, PollInv, TypeInv, TypeOK
  <2>3. UNCHANGED <<state, timer, listening, shows, flaky, controller>>
    BY <1>1 DEF Answer
  <2> HIDE DEF row
  <2> QED
    BY <2>2, <2>3, IdleIsRow, PollBusy
<1>2. CASE Fails(r)
  <2> DEFINE row == [Idle EXCEPT !.pc = "sleep", !.attempt = req[r].attempt]
  <2>1. req' = [req EXCEPT ![r] = row] /\ row.pc = "sleep" /\ req[r].pc \in {"fetch", "reply"}
    BY <1>2 DEF Fails, Idle
  <2>2. UNCHANGED <<state, timer, listening, shows, controller>> /\ flaky' = (flaky \/ r \in {"info", "join"})
    BY <1>2 DEF Fails
  <2>3. flaky' = FALSE => flaky = FALSE /\ r \in Polls
    BY <1>0, <2>2, Zenon DEF Requests
  <2> HIDE DEF row
  <2> QED
    BY <2>1, <2>2, <2>3, IdleIsRow, PollBusy
<1>3. CASE Retry(r)
  <2> DEFINE row == [pc |-> "fetch", attempt |-> req[r].attempt + 1, reply |-> "none"]
  <2>1. req' = [req EXCEPT ![r] = row] /\ row.pc = "fetch" /\ req[r].pc = "sleep"
    BY <1>3 DEF Retry, Sent
  <2>2. UNCHANGED <<state, timer, listening, shows, flaky>>
    BY <1>3 DEF Retry
  <2> HIDE DEF row
  <2>3. InAir' = InAir /\ (req'["join"] = Idle <=> req["join"] = Idle)
    BY <2>1, IdleIsRow, AirMoves DEF PollInv, InAir
  <2>4. JoinInv' /\ OverInv' /\ DestroyedInv' /\ PollsBounded'
    BY <2>2, <2>3 DEF PollInv, JoinInv, OverInv, DestroyedInv, PollsBounded, Quiet
  <2>5. AbortInv'
    <3>1. flaky = FALSE => r \in Polls
      BY <2>1 DEF PollInv, AbortInv, Requests
    <3>2. r \in Polls => req["join"] = Idle
      BY <2>1, IdleIsRow DEF PollInv, JoinInv, Quiet, InAir
    <3>3. \A q \in Requests : req'[q].pc = "sleep" => req[q].pc = "sleep"
      BY <2>1 DEF PollInv, TypeInv, TypeOK
    <3> QED
      BY <2>2, <2>3, <3>1, <3>2, <3>3, RequestsKnown DEF PollInv, AbortInv
  <2>6. IdleInv'
    BY <2>1 DEF PollInv, TypeInv, TypeOK, IdleInv
  <2> QED
    BY <2>4, <2>5, <2>6 DEF PollInv
<1> QED
  BY <1>1, <1>2, <1>3 DEF Transport

LEMMA OneTimer == ASSUME NEW t \in 0..1, NEW c, c = 0, NEW n \in Nat PROVE t + c <= 1 + n
  OBVIOUS

\* A step that adds no poll and no timer without a reason.
LEMMA PollLess ==
  ASSUME PollInv, TypeInv', UNCHANGED shows,
         \/ InAir' \subseteq InAir /\ timer' \in {0, timer}
         \/ timer' \in {0, 1} /\ \E p \in InAir : InAir' \subseteq InAir \ {p}
         \/ timer' \in {0, 1} /\ InAir' = {}
         \/ timer > 0 /\ timer' = timer - 1 /\ \E p \in Polls : InAir' \subseteq InAir \cup {p}
  PROVE  PollsBounded'
<1>1. timer \in 0..1 /\ timer' \in 0..1 /\ shows \in Nat /\ timer + Cardinality(InAir) <= 1 + shows
  BY QueueAssumption DEF PollInv, TypeInv, TypeOK, PollsBounded
<1>2. IsFiniteSet(InAir) /\ Cardinality(InAir) \in Nat /\ Cardinality(InAir') \in Nat
  BY AirFinite, AirFiniteNext
<1>3. timer' + Cardinality(InAir') <= 1 + shows
  <2>1. CASE InAir' \subseteq InAir /\ timer' \in {0, timer}
    <3>1. Cardinality(InAir') <= Cardinality(InAir)
      BY <1>2, <2>1, FS_Subset
    <3> QED
      BY <1>1, <1>2, <2>1, <3>1
  <2>2. CASE \E p \in InAir : InAir' \subseteq InAir \ {p}
    <3>1. PICK p \in InAir : InAir' \subseteq InAir \ {p}
      BY <2>2
    <3>2. IsFiniteSet(InAir \ {p}) /\ Cardinality(InAir \ {p}) = Cardinality(InAir) - 1
      BY <1>2, FS_RemoveElement
    <3>3. Cardinality(InAir') <= Cardinality(InAir) - 1
      BY <3>1, <3>2, FS_Subset
    <3> QED
      BY <1>1, <1>2, <3>3
  <2>3. CASE InAir' = {}
    <3>1. Cardinality(InAir') = 0
      BY <2>3, FS_EmptySet, Zenon
    <3> QED
      BY <1>1, <3>1, OneTimer
  <2>4. CASE timer > 0 /\ timer' = timer - 1 /\ \E p \in Polls : InAir' \subseteq InAir \cup {p}
    <3>1. PICK p \in Polls : InAir' \subseteq InAir \cup {p}
      BY <2>4
    <3>2. IsFiniteSet(InAir \cup {p}) /\ Cardinality(InAir \cup {p}) <= Cardinality(InAir) + 1
      <4>1. IsFiniteSet(InAir \cup {p})
        BY <1>2, FS_AddElement
      <4>2. Cardinality(InAir \cup {p}) = IF p \in InAir THEN Cardinality(InAir) ELSE Cardinality(InAir) + 1
        BY <1>2, FS_AddElement, Zenon
      <4> QED
        BY <1>2, <4>1, <4>2
    <3>3. Cardinality(InAir') <= Cardinality(InAir) + 1
      <4>1. Cardinality(InAir') <= Cardinality(InAir \cup {p})
        BY <3>1, <3>2, FS_Subset
      <4>2. Cardinality(InAir \cup {p}) \in Nat
        BY <3>2, FS_CardinalityType
      <4> QED
        BY <1>2, <3>2, <4>1, <4>2
    <3> QED
      BY <1>1, <1>2, <2>4, <3>3
  <2> QED
    BY <2>1, <2>2, <2>3, <2>4
<1> QED
  BY <1>3 DEF PollsBounded

\* A caller has its answer.
LEMMA PollTaken ==
  ASSUME PollInv, NEW r \in Requests, Taken(r)
  PROVE  /\ IdleInv'
         /\ \A q \in Requests : req'[q].pc = "sleep" => req[q].pc = "sleep"
         /\ r \notin Polls => InAir' = InAir
         /\ r \in Polls => InAir' = InAir \ {r} /\ req'["join"] = req["join"]
         /\ r = "join" => req'["join"] = Idle
         /\ r = "info" => req'["join"] = req["join"]
         /\ UNCHANGED <<shows, flaky, controller>>
<1>1. req' = [req EXCEPT ![r] = Idle]
  BY DEF Taken
<1>2. IdleInv' /\ \A q \in Requests : req'[q].pc = "sleep" => req[q].pc = "sleep"
  BY <1>1, IdleIsRow DEF PollInv, TypeInv, TypeOK, IdleInv
<1> QED
  BY <1>1, <1>2, AirMoves, RequestsKnown DEF PollInv, Taken

LEMMA PollJoin == ASSUME PollInv, TypeInv', Join PROVE PollInv'
<1> DEFINE row == [pc |-> "fetch", attempt |-> 0, reply |-> "none"]
<1>1. /\ req' = [[req EXCEPT !["info"] = row] EXCEPT !["join"] = row] /\ row.pc = "fetch"
      /\ UNCHANGED <<timer, listening, shows, flaky>> /\ state' = "joining" /\ controller' = "join"
  BY DEF Join, Sent
<1>2. Quiet /\ state = "idle"
  BY DEF Join, PollInv, JoinInv
<1> HIDE DEF row
<1>3. InAir' = InAir /\ IdleInv' /\ \A q \in Requests : req'[q].pc = "sleep" => req[q].pc = "sleep"
  BY <1>1, RequestsKnown DEF PollInv, TypeInv, TypeOK, IdleInv, InAir
<1>4. JoinInv' /\ OverInv' /\ DestroyedInv' /\ AbortInv' /\ PollsBounded'
  BY <1>1, <1>2, <1>3, RequestsKnown DEF PollInv, JoinInv, OverInv, AbortInv, DestroyedInv, PollsBounded, Quiet
<1> QED
  BY <1>3, <1>4 DEF PollInv

LEMMA PollInfoEnds == ASSUME PollInv, TypeInv', InfoEnds PROVE PollInv'
<1>1. Taken("info") /\ UNCHANGED <<state, timer, listening>>
  BY DEF InfoEnds, Replied, Rejects
<1>2. /\ IdleInv' /\ InAir' = InAir /\ req'["join"] = req["join"] /\ UNCHANGED <<shows, flaky, controller>>
      /\ \A q \in Requests : req'[q].pc = "sleep" => req[q].pc = "sleep"
  BY <1>1, PollTaken, RequestsKnown
<1> QED
  BY <1>1, <1>2, RequestsKnown DEF PollInv, JoinInv, OverInv, AbortInv, DestroyedInv, PollsBounded, Quiet

LEMMA PollJoinEnds == ASSUME PollInv, TypeInv', JoinEnds PROVE PollInv'
<1>1. Taken("join") /\ req["join"] # Idle
  BY IdleIsRow DEF JoinEnds, JoinWon, JoinSoldOut, JoinQueued, JoinFails, Replied, Rejects
<1>2. Quiet /\ state \in {"joining", "destroyed"}
  BY <1>1 DEF PollInv, JoinInv
<1>3. /\ IdleInv' /\ InAir' = {} /\ req'["join"] = Idle /\ UNCHANGED <<shows, flaky, controller>>
      /\ \A q \in Requests : req'[q].pc = "sleep" => req[q].pc = "sleep"
  BY <1>1, <1>2, PollTaken, RequestsKnown DEF Quiet
<1>4. /\ timer' \in {0, 1} /\ state' \in {"won", "sold_out", "queued", "error", "destroyed"}
      /\ state' \in {"won", "sold_out"} => timer' = 0
      /\ state' = "destroyed" => timer' = 0 /\ listening' = FALSE
  BY <1>2 DEF Quiet, JoinEnds, JoinWon, JoinSoldOut, JoinQueued, JoinFails, StartPolling, SchedulePoll
<1>5. PollsBounded'
  BY <1>3, <1>4, PollLess
<1>6. JoinInv' /\ OverInv' /\ DestroyedInv' /\ AbortInv'
  BY <1>3, <1>4, RequestsKnown DEF PollInv, JoinInv, OverInv, AbortInv, DestroyedInv
<1> QED
  BY <1>3, <1>5, <1>6 DEF PollInv

LEMMA PollFire == ASSUME PollInv, TypeInv', NEW p \in Polls, Fire(p) PROVE PollInv'
<1>1. /\ timer > 0 /\ timer' = timer - 1 /\ UNCHANGED <<shows, flaky, listening>>
      /\ timer \in 0..1 /\ req["join"] = Idle /\ state # "idle"
  BY DEF Fire, Disarmed, PollInv, TypeInv, TypeOK, JoinInv, Quiet
<1>2. \/ UNCHANGED req
      \/ req' = Sent(req, p, 0)
  BY DEF Fire
<1>3. /\ IdleInv' /\ InAir' \subseteq InAir \cup {p} /\ req'["join"] = Idle
      /\ \A q \in Requests : req'[q].pc = "sleep" => req[q].pc = "sleep"
  BY <1>1, <1>2, RequestsKnown DEF Sent, PollInv, TypeInv, TypeOK, IdleInv, InAir
<1>4. state' = state \/ state' = "error"
  BY DEF Fire
<1>5. PollsBounded'
  BY <1>1, <1>3, PollLess
<1>6. OverInv'
  BY <1>1, <1>4 DEF PollInv, OverInv
<1>7. JoinInv' /\ AbortInv' /\ DestroyedInv'
  BY <1>1, <1>3, <1>4, RequestsKnown DEF PollInv, JoinInv, AbortInv, DestroyedInv
<1> QED
  BY <1>3, <1>5, <1>6, <1>7 DEF PollInv

\* The only poll there is, as long as the tab has not come back.
LEMMA PollAlone ==
  ASSUME PollInv, shows = 0, NEW p \in InAir
  PROVE  timer = 0 /\ InAir = {p}
<1>1. timer \in 0..1 /\ timer + Cardinality(InAir) <= 1
  BY DEF PollInv, PollsBounded, TypeInv, TypeOK
<1>2. IsFiniteSet(InAir) /\ Cardinality(InAir) \in Nat /\ Cardinality(InAir) # 0
  BY AirFinite, FS_EmptySet
<1>3. timer = 0 /\ Cardinality(InAir) = 1
  BY <1>1, <1>2
<1>4. \E x : InAir = {x}
  BY <1>2, <1>3, FS_Singleton
<1> QED
  BY <1>3, <1>4

LEMMA PollPollEnds == ASSUME PollInv, TypeInv', NEW p \in Polls, PollEnds(p) PROVE PollInv'
<1>1. Taken(p) /\ p \in InAir /\ p \in Requests
  BY IdleIsRow, RequestsKnown DEF PollEnds, PollDone, PollAgain, Replied, Rejects, InAir
<1>2. req["join"] = Idle /\ state # "idle"
  BY <1>1 DEF PollInv, JoinInv, Quiet
<1>3. /\ IdleInv' /\ InAir' = InAir \ {p} /\ req'["join"] = Idle /\ UNCHANGED <<shows, flaky, controller>>
      /\ \A q \in Requests : req'[q].pc = "sleep" => req[q].pc = "sleep"
  BY <1>1, <1>2, PollTaken
<1>4. \/ UNCHANGED timer /\ state' \in {"won", "sold_out", "error", "destroyed"}
      \/ timer' \in {timer, 1} /\ state' = state
  BY DEF PollEnds, PollDone, PollAgain, SchedulePoll
<1>5. PollsBounded'
  <2>1. timer \in {0, 1}
    BY DEF PollInv, TypeInv, TypeOK
  <2> QED
    BY <1>1, <1>3, <1>4, <2>1, PollLess
<1>6. OverInv'
  <2> SUFFICES ASSUME shows = 0, state' \in {"won", "sold_out"} PROVE timer' = 0 /\ InAir' = {}
    BY <1>3 DEF OverInv
  <2>1. timer = 0 /\ InAir = {p}
    BY <1>1, PollAlone
  <2>2. state \notin {"won", "sold_out"}
    BY <1>1 DEF PollInv, OverInv
  <2> QED
    BY <1>3, <1>4, <2>1, <2>2
<1>8. state' = "destroyed" => state = "destroyed" /\ timer' = timer /\ listening' = listening
  BY DEF PollEnds, PollDone, PollAgain
<1>7. JoinInv' /\ AbortInv' /\ DestroyedInv'
  BY <1>2, <1>3, <1>4, <1>8, RequestsKnown DEF PollInv, JoinInv, AbortInv, DestroyedInv
<1> QED
  BY <1>3, <1>5, <1>6, <1>7 DEF PollInv

LEMMA PollDestroy == ASSUME PollInv, TypeInv', Destroy PROVE PollInv'
<1>1. /\ state' = "destroyed" /\ timer' = 0 /\ listening' = FALSE /\ req' = Aborted /\ UNCHANGED <<shows, flaky>>
  BY DEF Destroy
<1>2. \A r \in Requests : req'[r] \in {Idle, req[r]}
  BY <1>1 DEF Aborted
<1>3. IdleInv' /\ InAir' \subseteq InAir /\ \A q \in Requests : req'[q].pc = "sleep" => req[q].pc = "sleep"
  BY <1>2, IdleIsRow, RequestsKnown DEF PollInv, IdleInv, InAir
<1>4. JoinInv'
  BY <1>1, <1>2, <1>3, RequestsKnown DEF PollInv, JoinInv, Quiet
<1>5. AbortInv'
  <2>1. ASSUME flaky = FALSE, req["join"] # Idle PROVE req'["join"] = Idle
    <3>1. controller = "join" /\ req["join"].pc \in {"fetch", "reply"}
      <4>1. req["join"].pc \in {"idle", "fetch", "reply", "sleep"}
        BY RequestsKnown DEF PollInv, TypeInv, TypeOK
      <4> QED
        BY <2>1, <4>1, RequestsKnown DEF PollInv, AbortInv, IdleInv
    <3> QED
      BY <1>1, <3>1, RequestsKnown DEF Aborted
  <2> QED
    BY <1>1, <1>2, <1>3, <2>1, RequestsKnown DEF PollInv, AbortInv
<1>6. PollsBounded' /\ OverInv' /\ DestroyedInv'
  BY <1>1, <1>3, PollLess DEF OverInv, DestroyedInv
<1> QED
  BY <1>3, <1>4, <1>5, <1>6 DEF PollInv

LEMMA PollShow == ASSUME PollInv, TypeInv', Hide \/ Show PROVE PollInv'
<1>1. UNCHANGED <<state, listening, req, controller, flaky>> /\ InAir' = InAir
  BY DEF Hide, Show, InAir
<1>2. \/ shows' = shows /\ timer' \in {0, timer}
      \/ shows' = shows + 1 /\ timer' \in {1, timer} /\ (listening = FALSE => timer' = timer)
  <2>1. CASE Hide
    BY <2>1, Zenon DEF Hide
  <2>2. CASE Show
    BY <2>2, Zenon DEF Show, Resumed, SchedulePoll
  <2> QED
    BY <2>1, <2>2
<1>3. shows \in Nat /\ timer \in 0..1
  BY QueueAssumption DEF PollInv, TypeInv, TypeOK
<1>4. PollsBounded'
  <2>1. CASE shows' = shows
    BY <1>1, <1>2, <1>3, <2>1, PollLess
  <2>2. CASE shows' = shows + 1
    BY <1>1, <1>2, <1>3, <2>2, AirFinite DEF PollInv, PollsBounded
  <2> QED
    BY <1>2, <2>1, <2>2
<1>5. IdleInv' /\ AbortInv' /\ DestroyedInv' /\ JoinInv' /\ OverInv' /\ DestroyedInv'
  <2>1. Quiet => Quiet'
    BY <1>1, <1>2 DEF Quiet
  <2> QED
    BY <1>1, <1>2, <1>3, <2>1 DEF PollInv, IdleInv, AbortInv, DestroyedInv, JoinInv, OverInv
<1> QED
  BY <1>4, <1>5 DEF PollInv

LEMMA PollOthers == ASSUME PollInv, TypeInv', ServerMoves \/ UNCHANGED vars PROVE PollInv'
<1>1. UNCHANGED <<state, timer, listening, req, controller, shows, flaky>> /\ InAir' = InAir
  BY DEF ServerMoves, vars, InAir
<1> QED
  BY <1>1 DEF PollInv, IdleInv, AbortInv, DestroyedInv, JoinInv, OverInv, Quiet, PollsBounded

LEMMA PollNext == ASSUME PollInv, [Next]_vars PROVE PollInv'
<1>1. TypeInv'
  BY TypeNext DEF PollInv
<1> QED
  BY <1>1, PollTransport, PollJoin, PollInfoEnds, PollJoinEnds, PollFire, PollPollEnds, PollDestroy,
     PollShow, PollOthers DEF Next

\* Late answers do not multiply the polls: there is one at a time, and one more for every
\* time the tab came back (flash-queue.ts:144-167).
THEOREM PollsStayBounded == Spec => []PollsBounded
<1>1. PollInv => PollsBounded
  BY DEF PollInv
<1> QED
  BY <1>1, PollInit, PollNext, PTL DEF Spec

-----------------------------------------------------------------------------
(* What a step may never do.                                               *)

StaysWon == state \in {"won", "sold_out"} /\ shows = 0 => state' = state \/ state' = "destroyed"

LEMMA WonStays == ASSUME PollInv, [Next]_vars PROVE StaysWon
<1> SUFFICES ASSUME state \in {"won", "sold_out"}, shows = 0 PROVE state' = state \/ state' = "destroyed"
  BY DEF StaysWon
<1>1. timer = 0 /\ InAir = {} /\ req["join"] = Idle
  BY DEF PollInv, OverInv, JoinInv
<1>2. ~Join /\ ~JoinEnds
  BY <1>1, IdleIsRow DEF Join, JoinEnds, JoinWon, JoinSoldOut, JoinQueued, JoinFails, Replied, Rejects
<1>3. ASSUME NEW p \in Polls PROVE ~Fire(p) /\ ~PollEnds(p)
  BY <1>1, IdleIsRow DEF Fire, PollEnds, PollDone, PollAgain, Replied, Rejects, InAir
<1>4. ASSUME NEW r \in Requests, Transport(r) PROVE state' = state
  BY <1>4 DEF Transport, Answer, Fails, Retry
<1> QED
  BY <1>2, <1>3, <1>4 DEF Next, Destroy, Hide, Show, ServerMoves, InfoEnds, vars

StaysDestroyed == state = "destroyed" =>
  /\ flaky = FALSE => state' = "destroyed"
  /\ state' = "destroyed" => timer' = 0 /\ listening' = FALSE
  /\ \A r \in Requests : req'[r].pc = "fetch" => req[r].pc \in {"fetch", "sleep"}

LEMMA DestroyedStays == ASSUME PollInv, [Next]_vars PROVE StaysDestroyed
<1> SUFFICES ASSUME state = "destroyed" PROVE StaysDestroyed
  BY DEF StaysDestroyed
<1>1. ASSUME flaky = FALSE PROVE state' = "destroyed"
  <2>1. req["join"] = Idle
    BY <1>1 DEF PollInv, AbortInv
  <2>2. ~Join /\ ~JoinEnds
    BY <2>1, IdleIsRow DEF Join, JoinEnds, JoinWon, JoinSoldOut, JoinQueued, JoinFails, Replied, Rejects
  <2>3. ASSUME NEW p \in Polls, Fire(p) \/ PollEnds(p) PROVE state' = "destroyed"
    BY <2>3 DEF Fire, PollEnds, PollDone, PollAgain
  <2>4. ASSUME NEW r \in Requests, Transport(r) PROVE state' = state
    BY <2>4 DEF Transport, Answer, Fails, Retry
  <2> QED
    BY <2>2, <2>3, <2>4 DEF Next, Destroy, Hide, Show, ServerMoves, InfoEnds, vars
<1>2. state' = "destroyed" => timer' = 0 /\ listening' = FALSE
  BY PollNext DEF PollInv, DestroyedInv
<1>3. ASSUME NEW q \in Requests, req'[q].pc = "fetch" PROVE req[q].pc \in {"fetch", "sleep"}
  <2>1. req \in [Requests -> Rows]
    BY DEF PollInv, TypeInv, TypeOK, Rows
  <2>2. ASSUME NEW r \in Requests, Transport(r) PROVE req[q].pc \in {"fetch", "sleep"}
    BY <1>3, <2>1, <2>2 DEF Transport, Answer, Fails, Retry, Rows, Sent, Idle
  <2>3. ASSUME NEW r \in Requests, Taken(r) PROVE req[q].pc \in {"fetch", "sleep"}
    BY <1>3, <2>1, <2>3 DEF Taken, Idle
  <2>4. CASE InfoEnds \/ JoinEnds \/ \E p \in Polls : PollEnds(p)
    <3>1. PICK r \in Requests : Taken(r)
      BY <2>4, RequestsKnown DEF InfoEnds, JoinEnds, JoinWon, JoinSoldOut, JoinQueued, JoinFails, PollEnds, PollDone,
                                 PollAgain, Replied, Rejects
    <3> QED
      BY <2>3, <3>1
  <2>5. CASE Destroy \/ Hide \/ Show \/ ServerMoves \/ UNCHANGED vars
    BY <1>3, <2>5 DEF Destroy, Hide, Show, ServerMoves, vars
  <2>6. ASSUME NEW p \in Polls, Fire(p) PROVE req[q].pc \in {"fetch", "sleep"}
    BY <1>3, <2>6 DEF Fire
  <2> QED
    BY <2>2, <2>4, <2>5, <2>6 DEF Next, Join
<1> QED
  BY <1>1, <1>2, <1>3 DEF StaysDestroyed

\* An answer is final as long as the tab stays in front (flash-queue.ts:184-208).
THEOREM AnswersAreFinal == Spec => Final
<1>1. ASSUME PollInv, [Next]_vars
      PROVE  (state = "won" \/ state = "sold_out") /\ shows = 0 => state' = state \/ state' = "destroyed"
  BY <1>1, WonStays DEF StaysWon
<1> QED
  BY <1>1, PollInit, PollNext, PTL DEF Spec, Final

\* A destroyed object has no timer and no listener left, sends nothing but the repetition of
\* a request that failed before, and stays as it is, also in the middle of a join, as long as
\* no request of the join had to be repeated (flash-queue.ts:126-136, transport.ts:46-51).
THEOREM DestroyIsForGood == Spec => DestroyedForGood
<1>1. ASSUME PollInv, [Next]_vars
      PROVE  state = "destroyed" =>
               /\ ~flaky => state' = "destroyed"
               /\ state' = "destroyed" => timer' = 0 /\ ~listening'
               /\ \A r \in Requests : req'[r].pc = "fetch" => req[r].pc \in {"fetch", "sleep"}
  <2>1. flaky \in BOOLEAN
    BY <1>1 DEF PollInv, TypeInv, TypeOK
  <2>2. ~flaky => flaky = FALSE
    BY <2>1, Zenon
  <2>3. listening' = FALSE => ~listening'
    OBVIOUS
  <2> QED
    BY <1>1, <2>2, <2>3, DestroyedStays DEF StaysDestroyed
<1> QED
  BY <1>1, PollInit, PollNext, PTL DEF Spec, DestroyedForGood
=============================================================================
