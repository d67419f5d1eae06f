-------------------------- MODULE Simulator_proofs --------------------------
(***************************************************************************)
(* Theorems about Simulator: for any number of users, places, runs and     *)
(* failures.                                                               *)
(***************************************************************************)
EXTENDS Simulator, FiniteSetTheorems, TLAPS

-----------------------------------------------------------------------------
(* Type correctness.                                                       *)

LEMMA TypeInit == Init => TypeOK
<1> SUFFICES ASSUME Init PROVE TypeOK
  OBVIOUS
<1>1. run \in 0..MaxRuns /\ faults \in 0..MaxFaults /\ pollTimer \in [Users -> 0..MaxRuns]
  BY SimulatorAssumption DEF Init
<1>2. users \in [Users -> Statuses] /\ stats \in [Counters -> Nat] /\ joinInFlight \in Int /\ strays \in Nat
  BY DEF Init, Zero, Statuses
<1>3. join \in [Tasks -> JoinStates] /\ poll \in [Tasks -> PollStates]
  BY DEF Init, JoinStates, PollStates
<1>4. running \in BOOLEAN /\ mixed \in BOOLEAN /\ entry \in [Users -> {"none", "queued", "won", "sold_out"}]
  BY Zenon DEF Init
<1> QED
  BY <1>1, <1>2, <1>3, <1>4 DEF TypeOK

LEMMA Floor0Type == ASSUME NEW n \in Int PROVE Floor0(n) \in Nat
  BY DEF Floor0

\* Clearing timers keeps joins and polls well-typed.
LEMMA ClearedTypes ==
  ASSUME TypeOK
  PROVE  JoinsCleared \in [Tasks -> JoinStates] /\ PollsCleared \in [Tasks -> PollStates]
  BY DEF TypeOK, JoinsCleared, PollsCleared, JoinStates, PollStates

LEMMA TasksFinite == IsFiniteSet(Tasks)
<1>1. IsFiniteSet(Runs)
  BY SimulatorAssumption, FS_Interval DEF Runs
<1> QED
  BY <1>1, SimulatorAssumption, FS_Product DEF Tasks

\* Joins under way are counted.
LEMMA UnderwayFinite == IsFiniteSet(Underway) /\ Cardinality(Underway) \in Nat
<1>1. Underway \subseteq Tasks
  BY DEF Underway
<1> QED
  BY <1>1, TasksFinite, FS_Subset, FS_CardinalityType

LEMMA ClearRefsTypes ==
  ASSUME ClearRefs
  PROVE  /\ users' \in [Users -> Statuses] /\ stats' \in [Counters -> Nat]
         /\ joinInFlight' \in Int /\ strays' \in Nat
<1>1. users' \in [Users -> Statuses] /\ stats' \in [Counters -> Nat] /\ joinInFlight' \in Int
  BY DEF ClearRefs, Statuses, Zero
<1>2. strays' \in Nat
  BY UnderwayFinite DEF ClearRefs
<1> QED
  BY <1>1, <1>2

LEMMA MixedType ==
  ASSUME TypeOK, ClearRefs
  PROVE  mixed' \in BOOLEAN
  BY Zenon DEF TypeOK, ClearRefs

LEMMA TypeStart == ASSUME TypeOK, Start PROVE TypeOK'
<1>1. run' \in 0..MaxRuns /\ running' \in BOOLEAN /\ pollTimer' \in [Users -> 0..MaxRuns]
  BY SimulatorAssumption DEF TypeOK, Start
<1>2. join' \in [Tasks -> JoinStates] /\ poll' \in [Tasks -> PollStates]
  BY ClearedTypes DEF Start, JoinStates
<1>3. ClearRefs /\ UNCHANGED <<entry, faults>>
  BY DEF Start, UnchangedOutside
<1> QED
  BY <1>1, <1>2, <1>3, ClearRefsTypes, MixedType DEF TypeOK

LEMMA TypeStopReset == ASSUME TypeOK, StopSimulation \/ Reset PROVE TypeOK'
<1>1. /\ running' \in BOOLEAN /\ run' \in 0..MaxRuns /\ pollTimer' \in [Users -> 0..MaxRuns]
      /\ join' = JoinsCleared /\ poll' = PollsCleared
      /\ UNCHANGED <<entry, faults>>
  <2>1. run' = run /\ pollTimer' = [u \in Users |-> 0]
    BY DEF StopSimulation, Reset
  <2>2. running' = FALSE /\ join' = JoinsCleared /\ poll' = PollsCleared /\ UNCHANGED <<entry, faults>>
    BY DEF StopSimulation, Reset, UnchangedOutside
  <2>3. pollTimer' \in [Users -> 0..MaxRuns]
    BY <2>1, SimulatorAssumption
  <2>4. run' \in 0..MaxRuns
    BY <2>1 DEF TypeOK
  <2> QED
    BY <2>2, <2>3, <2>4
<1>2. CASE StopSimulation
  BY <1>1, <1>2, ClearedTypes DEF TypeOK, StopSimulation
<1>3. CASE Reset
  <2>1. ClearRefs
    BY <1>3 DEF Reset
  <2> QED
    BY <1>1, <2>1, ClearedTypes, ClearRefsTypes, MixedType DEF TypeOK
<1> QED
  BY <1>2, <1>3

\* The answer to a join keeps the types of what the page knows.
LEMMA TypeJoinTakes ==
  ASSUME TypeOK, NEW k \in Tasks, NEW s \in Statuses, NEW c \in Counters, NEW p \in BOOLEAN, NEW n \in Nat,
         JoinTakes(k, s, c, p, n)
  PROVE  /\ users' \in [Users -> Statuses] /\ stats' \in [Counters -> Nat] /\ joinInFlight' \in Int
         /\ join' \in [Tasks -> JoinStates] /\ poll' \in [Tasks -> PollStates]
         /\ pollTimer' \in [Users -> 0..MaxRuns]
<1> k[1] \in Users /\ k[2] \in 0..MaxRuns
  BY SimulatorAssumption DEF Tasks, Runs
<1>1. users' \in [Users -> Statuses] /\ joinInFlight' \in Int /\ join' \in [Tasks -> JoinStates]
  BY DEF TypeOK, JoinTakes, JoinStates
<1>2. stats' \in [Counters -> Nat]
  <2>1. "joining" \in Counters /\ stats["joining"] - n \in Int
    BY DEF TypeOK, Counters
  <2>2. Floor0(stats["joining"] - n) \in Nat
    BY <2>1, Floor0Type
  <2>3. stats' = [stats EXCEPT !["joining"] = Floor0(@ - n), ![c] = @ + 1]
    BY DEF JoinTakes
  <2> QED
    BY <2>1, <2>2, <2>3 DEF TypeOK
<1>3. poll' \in [Tasks -> PollStates] /\ pollTimer' \in [Users -> 0..MaxRuns]
  BY DEF TypeOK, JoinTakes, PollStates
<1> QED
  BY <1>1, <1>2, <1>3

\* Which JoinTakes the answers stand for.
LEMMA AnswerTakes ==
  ASSUME NEW k \in Tasks, JoinAnswered(k)
  PROVE  /\ k \in Underway
         /\ \E s \in Statuses, c \in Counters, p \in BOOLEAN, n \in Nat : JoinTakes(k, s, c, p, n)
<1>1. \/ join[k] = "won" /\ JoinTakes(k, "won", "won", FALSE, 1)
      \/ join[k] \in {"queued", "already"} /\ JoinTakes(k, "queued", "queued", TRUE, 1)
      \/ join[k] = "sold_out" /\ JoinTakes(k, "sold_out", "doorClosed", FALSE, 1)
      \/ join[k] = "odd" /\ JoinTakes(k, "error", "errors", FALSE, 2)
  BY Zenon DEF JoinAnswered
<1>2. k \in Underway
  BY <1>1 DEF Underway
<1>3. \E s \in Statuses, c \in Counters, p \in BOOLEAN, n \in Nat : JoinTakes(k, s, c, p, n)
  BY <1>1 DEF Statuses, Counters
<1> QED
  BY <1>2, <1>3

LEMMA TypeJoin ==
  ASSUME TypeOK, NEW k \in Tasks,
         JoinWaits(k) \/ JoinSent(k) \/ JoinDropped(k) \/ JoinServed(k) \/ JoinAnswered(k) \/ JoinFails(k)
  PROVE  TypeOK'
<1> k[1] \in Users
  BY DEF Tasks
<1>1. CASE JoinWaits(k)
  BY <1>1 DEF TypeOK, JoinWaits, JoinStates, UnchangedRun, UnchangedOutside
<1>2. CASE JoinSent(k)
  BY <1>2 DEF TypeOK, JoinSent, JoinStates, Statuses, Counters, UnchangedRun, UnchangedOutside
<1>3. CASE JoinDropped(k)
  BY <1>3 DEF TypeOK, JoinDropped, JoinStates, UnchangedRun, UnchangedOutside
<1>4. CASE JoinServed(k)
  <2>1. PICK a \in {"queued", "sold_out", "odd", "already", "won"} :
          /\ join' = [join EXCEPT ![k] = a]
          /\ entry' = [entry EXCEPT ![k[1]] = IF a = "queued" THEN a ELSE @]
    BY <1>4 DEF JoinServed
  <2>2. join' \in [Tasks -> JoinStates] /\ entry' \in [Users -> {"none", "queued", "won", "sold_out"}]
    BY <2>1 DEF TypeOK, JoinStates
  <2> QED
    BY <1>4, <2>2 DEF TypeOK, JoinServed, UnchangedPage, UnchangedRun
<1>5. CASE JoinAnswered(k)
  <2>1. PICK s \in Statuses, c \in Counters, p \in BOOLEAN, n \in Nat : JoinTakes(k, s, c, p, n)
    BY <1>5, AnswerTakes
  <2>2. UNCHANGED <<running, run, strays, mixed, entry, faults>>
    BY <1>5 DEF JoinAnswered, UnchangedRun, UnchangedOutside
  <2> QED
    BY <2>1, <2>2, TypeJoinTakes DEF TypeOK
<1>6. CASE JoinFails(k)
  <2>1. faults < MaxFaults /\ faults' = faults + 1
    BY <1>6 DEF JoinFails
  <2>2. faults' \in 0..MaxFaults
    BY <2>1, SimulatorAssumption DEF TypeOK
  <2>3. JoinTakes(k, "error", "errors", FALSE, 1) /\ UNCHANGED <<running, run, strays, mixed, entry>>
    BY <1>6 DEF JoinFails, UnchangedRun
  <2>4. "error" \in Statuses /\ "errors" \in Counters
    BY DEF Statuses, Counters
  <2> QED
    BY <2>2, <2>3, <2>4, TypeJoinTakes DEF TypeOK
<1> QED
  BY <1>1, <1>2, <1>3, <1>4, <1>5, <1>6

LEMMA TypeLeaves ==
  ASSUME TypeOK, NEW k \in Tasks, NEW s \in Statuses, NEW c \in Counters, Leaves(k, s, c)
  PROVE  /\ users' \in [Users -> Statuses] /\ stats' \in [Counters -> Nat]
         /\ poll' \in [Tasks -> PollStates] /\ pollTimer' \in [Users -> 0..MaxRuns]
<1>1. "queued" \in Counters /\ stats["queued"] - 1 \in Int
  BY DEF TypeOK, Counters
<1>2. Floor0(stats["queued"] - 1) \in Nat
  BY <1>1, Floor0Type
<1>3. stats' \in [Counters -> Nat]
  BY <1>1, <1>2 DEF TypeOK, Leaves
<1>4. users' \in [Users -> Statuses] /\ poll' \in [Tasks -> PollStates]
  BY DEF TypeOK, Leaves, PollStates
<1>5. 0 \in 0..MaxRuns /\ pollTimer' = [pollTimer EXCEPT ![k[1]] = 0]
  BY SimulatorAssumption DEF Leaves
<1>6. pollTimer' \in [Users -> 0..MaxRuns]
  BY <1>5 DEF TypeOK
<1> QED
  BY <1>3, <1>4, <1>6

LEMMA TypePoll ==
  ASSUME TypeOK, NEW k \in Tasks, PollFires(k) \/ PollAnswered(k) \/ PollFails(k)
  PROVE  TypeOK'
<1> k[1] \in Users /\ k[2] \in 0..MaxRuns
  BY SimulatorAssumption DEF Tasks, Runs
<1>1. CASE PollFires(k)
  BY <1>1 DEF TypeOK, PollFires, PollStates, UnchangedRun, UnchangedOutside
<1>2. ASSUME PollGoesOn(k)
      PROVE  /\ poll' \in [Tasks -> PollStates] /\ pollTimer' \in [Users -> 0..MaxRuns]
             /\ users' \in [Users -> Statuses] /\ stats' \in [Counters -> Nat]
  BY <1>2 DEF TypeOK, PollGoesOn, PollStates
<1>3. CASE PollAnswered(k)
  <2>1. \/ poll' = [poll EXCEPT ![k] = "none"] /\ UNCHANGED <<users, stats, pollTimer>>
        \/ Leaves(k, "won", "won") \/ Leaves(k, "sold_out", "drainRejected")
        \/ PollGoesOn(k)
    BY <1>3, Zenon DEF PollAnswered
  <2>2. /\ poll' \in [Tasks -> PollStates] /\ pollTimer' \in [Users -> 0..MaxRuns]
        /\ users' \in [Users -> Statuses] /\ stats' \in [Counters -> Nat]
    <3>1. CASE poll' = [poll EXCEPT ![k] = "none"] /\ UNCHANGED <<users, stats, pollTimer>>
      BY <3>1 DEF TypeOK, PollStates
    <3>2. CASE Leaves(k, "won", "won") \/ Leaves(k, "sold_out", "drainRejected")
      BY <3>2, TypeLeaves DEF Statuses, Counters
    <3> QED
      BY <1>2, <2>1, <3>1, <3>2
  <2> QED
    BY <1>3, <2>2 DEF TypeOK, PollAnswered, UnchangedRun, UnchangedOutside
<1>4. CASE PollFails(k)
  <2>1. faults' \in 0..MaxFaults
    BY <1>4, SimulatorAssumption DEF TypeOK, PollFails
  <2> QED
    BY <1>2, <1>4, <2>1 DEF TypeOK, PollFails, UnchangedRun
<1> QED
  BY <1>1, <1>3, <1>4

LEMMA TypeDrain == ASSUME TypeOK, NEW u \in Users, Drain(u) PROVE TypeOK'
  BY DEF TypeOK, Drain, UnchangedPage, UnchangedRun

LEMMA TypeForget == ASSUME TypeOK, Forget PROVE TypeOK'
  BY DEF TypeOK, Forget, UnchangedPage, UnchangedRun

LEMMA TypeStutter == ASSUME TypeOK, UNCHANGED vars PROVE TypeOK'
  BY DEF TypeOK, vars

\* Every variable keeps its type, whatever waits, fails or is left over from earlier runs
\* (page.tsx:191-202): in particular no counter shown falls below zero.
THEOREM SimulatorTypes == Spec => []TypeOK
<1>1. ASSUME TypeOK, [Next]_vars PROVE TypeOK'
  BY <1>1, TypeStart, TypeStopReset, TypeJoin, TypePoll, TypeDrain, TypeForget, TypeStutter DEF Next, JoinStep, PollStep
<1> QED
  BY <1>1, TypeInit, PTL DEF Spec

-----------------------------------------------------------------------------
(* The cap.  CapKept alone is not inductive: what a join adds is bounded by *)
(* joinInFlight, which has to be tied to the joins that are under way.       *)

\* Joins of runs to come have not begun.
Unborn == \A k \in Tasks : k[2] > run => join[k] = "none"

\* joinInFlight counts the joins under way but for the strays.
Counted == joinInFlight = Cardinality(Underway) - strays

CapInv == TypeOK /\ Unborn /\ Counted /\ CapKept

LEMMA CapInit == Init => CapInv
<1> SUFFICES ASSUME Init PROVE CapInv
  OBVIOUS
<1>1. Underway = {}
  BY DEF Init, Underway
<1>2. Cardinality(Underway) = 0
  BY <1>1, FS_EmptySet
<1>3. Counted /\ CapKept
  BY <1>2, SimulatorAssumption DEF Init, Counted, CapKept
<1>4. Unborn
  BY DEF Init, Unborn
<1> QED
  BY <1>3, <1>4, TypeInit DEF CapInv

\* While joins neither become nor cease to be under way, the cap is as it was.
LEMMA UnderwayKept ==
  ASSUME CapInv, Underway' = Underway, UNCHANGED <<joinInFlight, strays>>
  PROVE  Counted' /\ CapKept'
  BY DEF CapInv, Counted, CapKept

\* A start or a reset forgets the joins under way.
LEMMA UnderwayForgotten ==
  ASSUME CapInv, Underway' = Underway, ClearRefs
  PROVE  Counted' /\ CapKept'
<1>1. Cardinality(Underway) \in Nat /\ strays' = Cardinality(Underway) /\ joinInFlight' = 0
  BY UnderwayFinite DEF ClearRefs
<1> QED
  BY <1>1, SimulatorAssumption DEF Counted, CapKept

\* Clearing timers does not end a join that is under way.
LEMMA UnderwayCleared ==
  ASSUME join' = JoinsCleared
  PROVE  Underway' = Underway
  BY DEF JoinsCleared, Underway

LEMMA CapStart == ASSUME CapInv, Start PROVE Unborn' /\ Counted' /\ CapKept'
<1>1. /\ run' = run + 1 /\ run \in Nat
      /\ join' = [k \in Tasks |-> IF k[2] = run + 1 THEN "timer" ELSE JoinsCleared[k]]
  BY SimulatorAssumption DEF CapInv, TypeOK, Start
<1>2. ASSUME NEW k \in Tasks
      PROVE  k[2] \in Int /\ (k[2] > run => join[k] = "none")
  BY SimulatorAssumption DEF CapInv, Unborn, Tasks, Runs
<1>3. ASSUME NEW k \in Tasks
      PROVE  /\ join'[k] \notin {"none", "timer", "waiting"} <=> join[k] \notin {"none", "timer", "waiting"}
             /\ k[2] > run' => join'[k] = "none"
  BY <1>1, <1>2 DEF JoinsCleared
<1>4. Underway' = Underway
  BY <1>3 DEF Underway
<1>5. Unborn'
  BY <1>3 DEF Unborn
<1>6. ClearRefs
  BY DEF Start
<1> QED
  BY <1>4, <1>5, <1>6, UnderwayForgotten

LEMMA CapStopReset == ASSUME CapInv, StopSimulation \/ Reset PROVE Unborn' /\ Counted' /\ CapKept'
<1>1. join' = JoinsCleared /\ run' = run
  BY DEF StopSimulation, Reset
<1>2. Unborn'
  BY <1>1 DEF CapInv, Unborn, JoinsCleared
<1>3. Underway' = Underway
  BY <1>1, UnderwayCleared
<1>4. CASE StopSimulation
  BY <1>2, <1>3, <1>4, UnderwayKept DEF StopSimulation
<1>5. CASE Reset
  BY <1>2, <1>3, <1>5, UnderwayForgotten DEF Reset
<1> QED
  BY <1>4, <1>5

\* A join that is begun is one of a run that was begun.
LEMMA UnbornKept ==
  ASSUME CapInv, NEW k \in Tasks, join[k] # "none", NEW s, join' = [join EXCEPT ![k] = s], run' = run
  PROVE  Unborn'
  BY DEF CapInv, TypeOK, Unborn

\* The first request of a join puts it under way, and its answer ends that.
LEMMA CapSent ==
  ASSUME CapInv, NEW k \in Tasks, JoinSent(k)
  PROVE  Unborn' /\ Counted' /\ CapKept'
<1>1. /\ join[k] \in {"timer", "waiting"} /\ joinInFlight < Cap
      /\ join' = [join EXCEPT ![k] = "sent"] /\ joinInFlight' = joinInFlight + 1
      /\ UNCHANGED <<run, strays>>
  BY DEF JoinSent, UnchangedRun
<1>2. Underway' = Underway \cup {k} /\ k \notin Underway
  BY <1>1 DEF CapInv, TypeOK, Underway
<1>3. Cardinality(Underway') = Cardinality(Underway) + 1
  BY <1>2, UnderwayFinite, FS_AddElement
<1>4. Counted' /\ CapKept'
  BY <1>1, <1>3, UnderwayFinite, SimulatorAssumption DEF CapInv, TypeOK, Counted, CapKept
<1> QED
  BY <1>1, <1>4, UnbornKept

LEMMA CapTaken ==
  ASSUME CapInv, NEW k \in Underway, join' = [join EXCEPT ![k] = "none"],
         joinInFlight' = joinInFlight - 1, UNCHANGED <<run, strays>>
  PROVE  Unborn' /\ Counted' /\ CapKept'
<1>1. k \in Tasks /\ join[k] # "none"
  BY DEF Underway
<1>2. Underway' = Underway \ {k}
  BY <1>1 DEF CapInv, TypeOK, Underway
<1>3. Cardinality(Underway') = Cardinality(Underway) - 1
  BY <1>2, UnderwayFinite, FS_RemoveElement
<1>4. Counted' /\ CapKept'
  BY <1>3, UnderwayFinite, SimulatorAssumption DEF CapInv, TypeOK, Counted, CapKept
<1> QED
  BY <1>1, <1>4, UnbornKept

LEMMA CapJoin ==
  ASSUME CapInv, NEW k \in Tasks,
         JoinWaits(k) \/ JoinSent(k) \/ JoinDropped(k) \/ JoinServed(k) \/ JoinAnswered(k) \/ JoinFails(k)
  PROVE  Unborn' /\ Counted' /\ CapKept'
<1>1. CASE JoinWaits(k) \/ JoinDropped(k) \/ JoinServed(k)
  <2>1. PICK s \in JoinStates :
          /\ join[k] # "none" /\ join' = [join EXCEPT ![k] = s]
          /\ s \in {"none", "waiting"} <=> k \notin Underway
    <3>1. CASE JoinWaits(k)
      BY <3>1 DEF JoinWaits, JoinStates, Underway
    <3>2. CASE JoinDropped(k)
      BY <3>2 DEF JoinDropped, JoinStates, Underway
    <3>3. CASE JoinServed(k)
      BY <3>3 DEF JoinServed, JoinStates, Underway
    <3> QED
      BY <1>1, <3>1, <3>2, <3>3
  <2>2. UNCHANGED <<run, joinInFlight, strays>>
    BY <1>1 DEF JoinWaits, JoinDropped, JoinServed, UnchangedRun, UnchangedPage
  <2>3. s # "timer"
    BY <1>1, <2>1 DEF JoinWaits, JoinDropped, JoinServed, CapInv, TypeOK
  <2>4. Underway' = Underway
    BY <2>1, <2>3 DEF CapInv, TypeOK, Underway
  <2> QED
    BY <2>1, <2>2, <2>4, UnbornKept, UnderwayKept
<1>2. CASE JoinSent(k)
  BY <1>2, CapSent
<1>3. CASE JoinAnswered(k) \/ JoinFails(k)
  <2>1. k \in Underway
    BY <1>3, AnswerTakes DEF JoinFails
  <2>2. /\ join' = [join EXCEPT ![k] = "none"] /\ joinInFlight' = joinInFlight - 1
        /\ UNCHANGED <<run, strays>>
    BY <1>3, AnswerTakes DEF JoinAnswered, JoinFails, JoinTakes, UnchangedRun
  <2> QED
    BY <2>1, <2>2, CapTaken
<1> QED
  BY <1>1, <1>2, <1>3

LEMMA CapOthers ==
  ASSUME CapInv, UNCHANGED <<join, run, joinInFlight, strays>>
  PROVE  Unborn' /\ Counted' /\ CapKept'
  BY DEF CapInv, Unborn, Counted, CapKept, Underway

\* No more joins are in flight than the cap allows, and those that a start or a reset has
\* forgotten by setting their number to zero (page.tsx:366-369, 291, 477).
THEOREM SimulatorKeepsCap == Spec => []CapKept
<1>1. ASSUME CapInv, [Next]_vars PROVE CapInv'
  <2>1. TypeOK'
    BY <1>1, TypeStart, TypeStopReset, TypeJoin, TypePoll, TypeDrain, TypeForget, TypeStutter
       DEF CapInv, Next, JoinStep, PollStep
  <2>2. ASSUME \E k \in Tasks : PollStep(k) \/ PollFails(k)
        PROVE  UNCHANGED <<join, run, joinInFlight, strays>>
    BY <2>2 DEF PollStep, PollFires, PollAnswered, PollFails, UnchangedRun
  <2>3. ASSUME Forget \/ \E u \in Users : Drain(u)
        PROVE  UNCHANGED <<join, run, joinInFlight, strays>>
    BY <2>3 DEF Drain, Forget, UnchangedPage, UnchangedRun
  <2>4. ASSUME UNCHANGED vars
        PROVE  UNCHANGED <<join, run, joinInFlight, strays>>
    BY <2>4 DEF vars
  <2>5. Unborn' /\ Counted' /\ CapKept'
    BY <1>1, <2>2, <2>3, <2>4, CapStart, CapStopReset, CapJoin, CapOthers DEF Next, JoinStep
  <2> QED
    BY <2>1, <2>5 DEF CapInv
<1>2. CapInv => CapKept
  BY DEF CapInv
<1> QED
  BY <1>1, <1>2, CapInit, PTL DEF Spec

-----------------------------------------------------------------------------
(* The counters.  They agree with the users' states because each join and   *)
(* each poll finds its user in the state it left it in; that is so as long  *)
(* as all of them belong to one run.                                        *)

\* As long as nothing of a run reaches another, every join is one of the latest run.
OneRun == ~mixed => \A k \in Tasks : join[k] # "none" => k[2] = run

\* A join that has not sent its request belongs to an idle user, and one under way to a
\* joining one.
JoinUsers == ~mixed =>
  \A k \in Tasks : /\ join[k] \in {"timer", "waiting"} => users[k[1]] = "idle"
                   /\ k \in Underway => users[k[1]] = "joining"

AgreeInv == TypeOK /\ OneRun /\ JoinUsers /\ CountersAgree

\* The users of a status, and the counters that agree with them.
With(f, s) == {u \in Users : f[u] = s}

Agree(f, g) ==
  /\ g["queued"] = Cardinality(With(f, "queued"))
  /\ g["won"] = Cardinality(With(f, "won"))
  /\ g["drainRejected"] + g["doorClosed"] = Cardinality(With(f, "sold_out"))
  /\ g["errors"] = Cardinality(With(f, "error"))
  /\ g["joining"] <= Cardinality(With(f, "joining"))

LEMMA AgreeMeans ==
  /\ CountersAgree <=> (~mixed => Agree(users, stats))
  /\ CountersAgree' <=> (~mixed' => Agree(users', stats'))
<1>1. CountersAgree <=> (~mixed => Agree(users, stats))
  BY Zenon DEF CountersAgree, Agree, InStatus, With
<1>2. CountersAgree' <=> (~mixed' => Agree(users', stats'))
  BY Zenon DEF CountersAgree, Agree, InStatus, With
<1> QED
  BY <1>1, <1>2

LEMMA WithFinite == ASSUME NEW f, NEW s PROVE IsFiniteSet(With(f, s)) /\ Cardinality(With(f, s)) \in Nat
<1>1. With(f, s) \subseteq Users
  BY DEF With
<1> QED
  BY <1>1, SimulatorAssumption, FS_Subset, FS_CardinalityType

\* Nobody is counted when all are idle.
LEMMA AllIdle == Agree([u \in Users |-> "idle"], Zero)
<1> DEFINE f == [u \in Users |-> "idle"]
<1>1. ASSUME NEW s, s # "idle"
      PROVE  Cardinality(With(f, s)) = 0
  <2>1. With(f, s) = {}
    BY <1>1 DEF With
  <2> QED
    BY <2>1, FS_EmptySet
<1>2. \A c \in Counters : Zero[c] = 0
  BY DEF Zero
<1> HIDE DEF f
<1>3. /\ Cardinality(With(f, "queued")) = 0 /\ Cardinality(With(f, "won")) = 0
      /\ Cardinality(With(f, "sold_out")) = 0 /\ Cardinality(With(f, "error")) = 0
      /\ Cardinality(With(f, "joining")) = 0
  BY <1>1
<1>4. Agree(f, Zero)
  BY <1>2, <1>3 DEF Agree, Counters
<1> QED
  BY <1>4 DEF f

\* A user goes from one status to another.
LEMMA MovesCount ==
  ASSUME NEW f \in [Users -> Statuses], NEW u \in Users, NEW a, NEW b, f[u] = a, a # b,
         NEW h, h[u] = b, \A v \in Users \ {u} : h[v] = f[v]
  PROVE  /\ Cardinality(With(h, a)) = Cardinality(With(f, a)) - 1
         /\ Cardinality(With(h, b)) = Cardinality(With(f, b)) + 1
         /\ Cardinality(With(f, a)) > 0
         /\ \A s : s # a /\ s # b => With(h, s) = With(f, s)
<1>2. With(h, a) = With(f, a) \ {u} /\ u \in With(f, a)
  BY DEF With
<1>3. With(h, b) = With(f, b) \cup {u} /\ u \notin With(f, b)
  BY DEF With
<1>4. \A s : s # a /\ s # b => With(h, s) = With(f, s)
  BY DEF With
<1>5. Cardinality(With(f, a) \ {u}) = Cardinality(With(f, a)) - 1
  BY <1>2, WithFinite, FS_RemoveElement
<1>6. Cardinality(With(f, b) \cup {u}) = Cardinality(With(f, b)) + 1
  BY <1>3, WithFinite, FS_AddElement
<1>7. Cardinality(With(h, a)) \in Nat /\ Cardinality(With(f, a)) \in Nat
  BY WithFinite
<1>8. Cardinality(With(h, a)) = Cardinality(With(f, a)) - 1
  BY <1>2, <1>5
<1>9. Cardinality(With(f, a)) > 0
  BY <1>7, <1>8
<1>10. Cardinality(With(h, b)) = Cardinality(With(f, b)) + 1
  BY <1>3, <1>6
<1> QED
  BY <1>4, <1>8, <1>9, <1>10

LEMMA AgreeInit == Init => AgreeInv
<1> SUFFICES ASSUME Init PROVE AgreeInv
  OBVIOUS
<1>1. CountersAgree
  BY AllIdle, AgreeMeans DEF Init
<1>2. OneRun /\ JoinUsers
  BY DEF Init, OneRun, JoinUsers, Underway
<1> QED
  BY <1>1, <1>2, TypeInit DEF AgreeInv

\* A start or a reset that leaves nothing of an earlier run under way.
LEMMA AgreeStart == ASSUME AgreeInv, Start \/ Reset PROVE OneRun' /\ JoinUsers' /\ CountersAgree'
<1>1. ClearRefs
  BY DEF Start, Reset
<1>2. CountersAgree'
  BY <1>1, AllIdle, AgreeMeans DEF ClearRefs
<1>3. ASSUME ~mixed', NEW k \in Tasks PROVE JoinsCleared[k] = "none"
  BY <1>1, <1>3 DEF ClearRefs
<1>4. ASSUME ~mixed', NEW k \in Tasks
      PROVE  /\ join'[k] # "none" => k[2] = run' /\ join'[k] = "timer"
             /\ users'[k[1]] = "idle"
  <2>1. users'[k[1]] = "idle"
    BY <1>1 DEF ClearRefs, Tasks
  <2>2. CASE Start
    BY <1>3, <1>4, <2>1, <2>2 DEF Start
  <2>3. CASE Reset
    BY <1>3, <1>4, <2>1, <2>3 DEF Reset
  <2> QED
    BY <2>2, <2>3
<1>5. OneRun' /\ JoinUsers'
  BY <1>4 DEF OneRun, JoinUsers, Underway
<1> QED
  BY <1>2, <1>5

\* Joins that go on or end without an answer, for the users and counters there were.
LEMMA AgreeKept ==
  ASSUME AgreeInv, UNCHANGED <<users, stats, run, mixed>>,
         \A k \in Tasks : \/ join'[k] = join[k] \/ join'[k] = "none"
                          \/ join[k] = "timer" /\ join'[k] = "waiting"
                          \/ k \in Underway /\ join'[k] \notin {"timer", "waiting"}
  PROVE  OneRun' /\ JoinUsers' /\ CountersAgree'
<1>1. CountersAgree'
  BY AgreeMeans DEF AgreeInv
<1>2. OneRun'
  BY DEF AgreeInv, OneRun, Underway
<1>3. JoinUsers'
  BY DEF AgreeInv, JoinUsers, Underway
<1> QED
  BY <1>1, <1>2, <1>3

LEMMA AgreeStop == ASSUME AgreeInv, StopSimulation PROVE OneRun' /\ JoinUsers' /\ CountersAgree'
<1>1. \A k \in Tasks : join'[k] = join[k] \/ join'[k] = "none"
  BY DEF StopSimulation, JoinsCleared
<1> QED
  BY <1>1, AgreeKept DEF StopSimulation

LEMMA AgreeWaits ==
  ASSUME AgreeInv, NEW k \in Tasks, JoinWaits(k) \/ JoinDropped(k) \/ JoinServed(k)
  PROVE  OneRun' /\ JoinUsers' /\ CountersAgree'
<1>1. UNCHANGED <<users, stats, run, mixed>>
  BY DEF JoinWaits, JoinDropped, JoinServed, UnchangedRun, UnchangedPage
<1>2. \A d \in Tasks \ {k} : join'[d] = join[d]
  BY DEF AgreeInv, TypeOK, JoinWaits, JoinDropped, JoinServed
<1>3. \/ join'[k] = "none"
      \/ join[k] = "timer" /\ join'[k] = "waiting"
      \/ k \in Underway /\ join'[k] \notin {"timer", "waiting"}
  <2>1. CASE JoinWaits(k)
    BY <2>1 DEF AgreeInv, TypeOK, JoinWaits
  <2>2. CASE JoinDropped(k)
    BY <2>2 DEF AgreeInv, TypeOK, JoinDropped
  <2>3. CASE JoinServed(k)
    BY <2>3 DEF AgreeInv, TypeOK, JoinServed, Underway
  <2> QED
    BY <2>1, <2>2, <2>3
<1> QED
  BY <1>1, <1>2, <1>3, AgreeKept

\* Of two joins that are not over, each has a user of its own.
LEMMA OwnUser ==
  ASSUME AgreeInv, ~mixed, NEW k \in Tasks, NEW d \in Tasks, d # k, join[k] # "none", join[d] # "none"
  PROVE  d[1] # k[1]
<1>1. d[2] = run /\ k[2] = run
  BY DEF AgreeInv, OneRun
<1>2. d = <<d[1], d[2]>> /\ k = <<k[1], k[2]>>
  BY DEF Tasks
<1> QED
  BY <1>1, <1>2

LEMMA AgreeSent ==
  ASSUME AgreeInv, NEW k \in Tasks, JoinSent(k)
  PROVE  OneRun' /\ JoinUsers' /\ CountersAgree'
<1>1. /\ join[k] \in {"timer", "waiting"} /\ join' = [join EXCEPT ![k] = "sent"]
      /\ users' = [users EXCEPT ![k[1]] = "joining"]
      /\ stats' = [stats EXCEPT !["joining"] = @ + 1]
      /\ UNCHANGED <<run, mixed>>
  BY DEF JoinSent, UnchangedRun
<1>2. k[1] \in Users
  BY DEF Tasks
<1> SUFFICES ASSUME ~mixed PROVE OneRun' /\ JoinUsers' /\ CountersAgree'
  BY <1>1 DEF OneRun, JoinUsers, CountersAgree
<1>3. users[k[1]] = "idle"
  BY <1>1 DEF AgreeInv, JoinUsers
<1>4. OneRun'
  BY <1>1 DEF AgreeInv, TypeOK, OneRun
<1>5. JoinUsers'
  <2>1. ASSUME NEW d \in Tasks, d # k, join[d] # "none" PROVE join'[d] = join[d] /\ users'[d[1]] = users[d[1]]
    BY <1>1, <2>1, OwnUser DEF AgreeInv, TypeOK, Tasks
  <2>2. join'[k] = "sent" /\ users'[k[1]] = "joining"
    BY <1>1, <1>2 DEF AgreeInv, TypeOK
  <2>3. \A d \in Tasks \ {k} : join'[d] = join[d]
    BY <1>1 DEF AgreeInv, TypeOK
  <2> QED
    BY <2>1, <2>2, <2>3 DEF AgreeInv, JoinUsers, Underway
<1>6. Agree(users', stats')
  <2>1. /\ Cardinality(With(users', "joining")) = Cardinality(With(users, "joining")) + 1
        /\ \A s : s # "idle" /\ s # "joining" => With(users', s) = With(users, s)
    <3>1. users \in [Users -> Statuses]
      BY DEF AgreeInv, TypeOK
    <3>2. users[k[1]] = "idle" /\ users'[k[1]] = "joining" /\ \A v \in Users \ {k[1]} : users'[v] = users[v]
      BY <1>1, <1>2, <1>3, <3>1
    <3> QED
      BY <1>2, <3>1, <3>2, MovesCount
  <2>2. stats'["joining"] = stats["joining"] + 1 /\ stats["joining"] \in Nat
        /\ \A c \in Counters \ {"joining"} : stats'[c] = stats[c]
    BY <1>1 DEF AgreeInv, TypeOK, Counters
  <2>3. Cardinality(With(users, "joining")) \in Nat
    BY WithFinite
  <2>4. Agree(users, stats)
    BY AgreeMeans DEF AgreeInv
  <2> QED
    BY <2>1, <2>2, <2>3, <2>4 DEF Agree, Counters
<1> QED
  BY <1>4, <1>5, <1>6, AgreeMeans

\* The counter of a status.
Counts(c, s) ==
  \/ (c = "won" /\ s = "won")
  \/ (c = "queued" /\ s = "queued")
  \/ (c \in {"doorClosed", "drainRejected"} /\ s = "sold_out")
  \/ (c = "errors" /\ s = "error")

LEMMA AgreeTakes ==
  ASSUME AgreeInv, NEW k \in Underway, NEW s, NEW c, NEW p \in BOOLEAN, NEW n \in {1, 2},
         Counts(c, s), JoinTakes(k, s, c, p, n), UNCHANGED <<run, mixed>>
  PROVE  OneRun' /\ JoinUsers' /\ CountersAgree'
<1>1. /\ k \in Tasks /\ join[k] # "none" /\ join' = [join EXCEPT ![k] = "none"]
      /\ users' = [users EXCEPT ![k[1]] = s]
      /\ stats' = [stats EXCEPT !["joining"] = Floor0(@ - n), ![c] = @ + 1]
  BY DEF JoinTakes, Underway
<1>2. k[1] \in Users /\ "joining" # s /\ c \in Counters \ {"joining"}
  BY <1>1 DEF Tasks, Counts, Counters
<1> SUFFICES ASSUME ~mixed PROVE OneRun' /\ JoinUsers' /\ CountersAgree'
  BY DEF OneRun, JoinUsers, CountersAgree
<1>3. users[k[1]] = "joining"
  BY <1>1 DEF AgreeInv, JoinUsers
<1>4. OneRun'
  BY <1>1 DEF AgreeInv, TypeOK, OneRun
<1>5. JoinUsers'
  <2>1. ASSUME NEW d \in Tasks, d # k, join[d] # "none" PROVE join'[d] = join[d] /\ users'[d[1]] = users[d[1]]
    BY <1>1, <2>1, OwnUser DEF AgreeInv, TypeOK, Tasks
  <2>2. join'[k] = "none" /\ \A d \in Tasks \ {k} : join'[d] = join[d]
    BY <1>1 DEF AgreeInv, TypeOK
  <2> QED
    BY <2>1, <2>2 DEF AgreeInv, JoinUsers, Underway
<1>6. Agree(users', stats')
  <2>1. /\ Cardinality(With(users', "joining")) = Cardinality(With(users, "joining")) - 1
        /\ Cardinality(With(users', s)) = Cardinality(With(users, s)) + 1
        /\ Cardinality(With(users, "joining")) > 0
        /\ \A r : r # "joining" /\ r # s => With(users', r) = With(users, r)
    <3>1. users \in [Users -> Statuses]
      BY DEF AgreeInv, TypeOK
    <3>2. users[k[1]] = "joining" /\ users'[k[1]] = s /\ \A v \in Users \ {k[1]} : users'[v] = users[v]
      BY <1>1, <1>2, <1>3, <3>1
    <3> QED
      BY <1>2, <3>1, <3>2, MovesCount
  <2>2. /\ stats'["joining"] = Floor0(stats["joining"] - n) /\ stats["joining"] \in Nat
        /\ stats'[c] = stats[c] + 1 /\ stats[c] \in Nat
        /\ \A d \in Counters \ {"joining", c} : stats'[d] = stats[d] /\ stats[d] \in Nat
    BY <1>1, <1>2 DEF AgreeInv, TypeOK, Counters
  <2>3. Cardinality(With(users, "joining")) \in Nat /\ Cardinality(With(users, s)) \in Nat
    BY WithFinite
  <2>4. Agree(users, stats)
    BY AgreeMeans DEF AgreeInv
  <2>5. stats'["joining"] <= Cardinality(With(users', "joining"))
    BY <2>1, <2>2, <2>3, <2>4 DEF Agree, Floor0
  <2> QED
    BY <2>1, <2>2, <2>3, <2>4, <2>5 DEF Agree, Counts, Counters
<1> QED
  BY <1>4, <1>5, <1>6, AgreeMeans

LEMMA AgreeAnswered ==
  ASSUME AgreeInv, NEW k \in Tasks, JoinAnswered(k) \/ JoinFails(k)
  PROVE  OneRun' /\ JoinUsers' /\ CountersAgree'
<1>1. k \in Underway /\ UNCHANGED <<run, mixed>>
  BY AnswerTakes DEF JoinAnswered, JoinFails, UnchangedRun
<1>2. \E s, c : \E p \in BOOLEAN, n \in {1, 2} : Counts(c, s) /\ JoinTakes(k, s, c, p, n)
  <2>1. \/ JoinTakes(k, "won", "won", FALSE, 1)
        \/ JoinTakes(k, "queued", "queued", TRUE, 1)
        \/ JoinTakes(k, "sold_out", "doorClosed", FALSE, 1)
        \/ JoinTakes(k, "error", "errors", FALSE, 2)
        \/ JoinTakes(k, "error", "errors", FALSE, 1)
    BY Zenon DEF JoinAnswered, JoinFails
  <2>2. /\ Counts("won", "won") /\ Counts("queued", "queued")
        /\ Counts("doorClosed", "sold_out") /\ Counts("errors", "error")
    BY DEF Counts
  <2>3. FALSE \in BOOLEAN /\ 1 \in {1, 2} /\ 2 \in {1, 2}
    OBVIOUS
  <2> QED
    BY <2>1, <2>2, <2>3, Zenon
<1> QED
  BY <1>1, <1>2, AgreeTakes

\* A loop that leaves takes its user from queued to the status it was told.
LEMMA AgreeLeaves ==
  ASSUME AgreeInv, NEW k \in Tasks, users[k[1]] = "queued",
         NEW s, NEW c, Counts(c, s), s # "queued", Leaves(k, s, c), UNCHANGED <<join, run, mixed>>
  PROVE  OneRun' /\ JoinUsers' /\ CountersAgree'
<1>1. /\ users' = [users EXCEPT ![k[1]] = s]
      /\ stats' = [stats EXCEPT !["queued"] = Floor0(@ - 1), ![c] = @ + 1]
  BY DEF Leaves
<1>2. k[1] \in Users /\ "queued" # s /\ s # "joining" /\ c \in Counters \ {"joining", "queued"}
  BY DEF Tasks, Counts, Counters
<1> SUFFICES ASSUME ~mixed PROVE OneRun' /\ JoinUsers' /\ CountersAgree'
  BY DEF OneRun, JoinUsers, CountersAgree
<1>3. OneRun' /\ JoinUsers'
  <2>1. ASSUME NEW d \in Tasks, join[d] # "none" PROVE users'[d[1]] = users[d[1]]
    <3>1. users[d[1]] # "queued" /\ d[1] \in Users
      BY <2>1 DEF AgreeInv, JoinUsers, Underway, Tasks
    <3> QED
      BY <1>1, <3>1 DEF AgreeInv, TypeOK
  <2> QED
    BY <2>1 DEF AgreeInv, OneRun, JoinUsers, Underway
<1>4. Agree(users', stats')
  <2>1. /\ Cardinality(With(users', "queued")) = Cardinality(With(users, "queued")) - 1
        /\ Cardinality(With(users', s)) = Cardinality(With(users, s)) + 1
        /\ Cardinality(With(users, "queued")) > 0
        /\ \A r : r # "queued" /\ r # s => With(users', r) = With(users, r)
    <3>1. users \in [Users -> Statuses]
      BY DEF AgreeInv, TypeOK
    <3>2. users[k[1]] = "queued" /\ users'[k[1]] = s /\ \A v \in Users \ {k[1]} : users'[v] = users[v]
      BY <1>1, <1>2, <3>1
    <3> QED
      BY <1>2, <3>1, <3>2, MovesCount
  <2>2. /\ stats'["queued"] = Floor0(stats["queued"] - 1) /\ stats["queued"] \in Nat
        /\ stats'[c] = stats[c] + 1 /\ stats[c] \in Nat
        /\ \A d \in Counters \ {"queued", c} : stats'[d] = stats[d] /\ stats[d] \in Nat
    BY <1>1, <1>2 DEF AgreeInv, TypeOK, Counters
  <2>3. Cardinality(With(users, "queued")) \in Nat /\ Cardinality(With(users, s)) \in Nat
    BY WithFinite
  <2>4. Agree(users, stats)
    BY AgreeMeans DEF AgreeInv
  <2>5. stats'["queued"] = Cardinality(With(users', "queued"))
    BY <2>1, <2>2, <2>3, <2>4 DEF Agree, Floor0
  <2> QED
    BY <1>2, <2>1, <2>2, <2>3, <2>4, <2>5 DEF Agree, Counts, Counters
<1> QED
  BY <1>3, <1>4, AgreeMeans

LEMMA AgreePoll ==
  ASSUME AgreeInv, NEW k \in Tasks, PollStep(k) \/ PollFails(k)
  PROVE  OneRun' /\ JoinUsers' /\ CountersAgree'
<1>1. UNCHANGED <<join, run, mixed>>
  BY DEF PollStep, PollFires, PollAnswered, PollFails, UnchangedRun
<1>2. \/ UNCHANGED <<users, stats>>
      \/ users[k[1]] = "queued" /\ (Leaves(k, "won", "won") \/ Leaves(k, "sold_out", "drainRejected"))
  <2>1. CASE PollFires(k) \/ PollFails(k)
    BY <2>1 DEF PollFires, PollFails, PollGoesOn
  <2>2. CASE PollAnswered(k)
    <3>1. \/ UNCHANGED <<users, stats, pollTimer>>
          \/ users[k[1]] = "queued" /\ (Leaves(k, "won", "won") \/ Leaves(k, "sold_out", "drainRejected"))
          \/ PollGoesOn(k)
      BY <2>2, Zenon DEF PollAnswered
    <3> QED
      BY <3>1 DEF PollGoesOn
  <2> QED
    BY <2>1, <2>2 DEF PollStep
<1>3. CASE UNCHANGED <<users, stats>>
  BY <1>1, <1>3, AgreeKept
<1>4. CASE users[k[1]] = "queued" /\ (Leaves(k, "won", "won") \/ Leaves(k, "sold_out", "drainRejected"))
  <2>1. Counts("won", "won") /\ Counts("drainRejected", "sold_out")
    BY DEF Counts
  <2> QED
    BY <1>1, <1>4, <2>1, AgreeLeaves
<1> QED
  BY <1>2, <1>3, <1>4

LEMMA AgreeOthers ==
  ASSUME AgreeInv, Forget \/ (\E u \in Users : Drain(u)) \/ UNCHANGED vars
  PROVE  OneRun' /\ JoinUsers' /\ CountersAgree'
<1>1. UNCHANGED <<join, users, stats, run, mixed>>
  BY DEF Forget, Drain, UnchangedPage, UnchangedRun, vars
<1> QED
  BY <1>1, AgreeKept

\* While nothing of one run reaches another, the numbers shown are the users in each
\* state, and Joining shows no more than there are (page.tsx:307-427).
THEOREM SimulatorCountsRight == Spec => []CountersAgree
<1>1. ASSUME AgreeInv, [Next]_vars PROVE AgreeInv'
  <2>1. TypeOK'
    BY <1>1, TypeStart, TypeStopReset, TypeJoin, TypePoll, TypeDrain, TypeForget, TypeStutter
       DEF AgreeInv, Next, JoinStep, PollStep
  <2>2. OneRun' /\ JoinUsers' /\ CountersAgree'
    BY <1>1, AgreeStart, AgreeStop, AgreeWaits, AgreeSent, AgreeAnswered, AgreePoll, AgreeOthers
       DEF Next, JoinStep
  <2> QED
    BY <2>1, <2>2 DEF AgreeInv
<1>2. AgreeInv => CountersAgree
  BY DEF AgreeInv
<1> QED
  BY <1>1, <1>2, AgreeInit, PTL DEF Spec
=============================================================================
