---------------------------- MODULE EventLifecycle ----------------------------
(***************************************************************************)
(* The life of one sale event of apps/engine-gateway and the three places  *)
(* that must agree on it: the SaleEvent row in Postgres, the hash in       *)
(* Redis, and the Node process with its event cache, its drain and its     *)
(* test reset timer. Several administrators call the handlers of           *)
(* admin.controller.ts and superadmin.controller.ts at the same time; user *)
(* requests look the event up in the cache.                                *)
(*                                                                         *)
(* Every handler reads the row first and writes later, without looking     *)
(* again: the row it read is part of its state.                            *)
(***************************************************************************)
EXTENDS Integers

CONSTANTS
  Admins,      \* administrators' requests that may be in progress at the same time
  Lookups,     \* user requests that may be filling the cache at the same time
  Mode,        \* SaleEvent.mode
  Faults,      \* the failures that may happen: "crash", "io"
  Together,    \* what callers do at the same time: pairs of operations. "lookup" is a
               \* user request, "boot" is initDrains, "cold" an event that is not cached
  NoEntry,     \* not cached
  MaxChanges   \* bound: how often the secret, and the webhook URL, change

Opening == {"activate", "resume"}
Closing == {"end", "suspend"}
Transitions == Opening \cup Closing \cup {"pause"}
Settings == {"rotate", "update"}
Ops == Transitions \cup Settings

\* What callers may do side by side without bringing the three places apart: the same
\* transition twice, or two that do not undo each other; both settings; a setting and a
\* transition that does not warm the cache; users, but during an end; after a restart,
\* all but a pause and an end. An event that is not cached is opened or paused beside
\* other requests, not more.
Orderly ==
  {{op} : op \in Transitions} \cup {Opening, Closing, Settings}
    \cup {{s, op} : s \in Settings, op \in Closing \cup {"pause"}}
    \cup {{"lookup", op} : op \in Opening \cup {"pause"}}
    \cup {{"boot", op} : op \in Opening \cup Settings}
    \cup {{"cold", op} : op \in Opening \cup {"pause"}}

ASSUME LifecycleAssumption ==
  /\ Mode \in {"LIVE", "TEST"}
  /\ Faults \subseteq {"crash", "io"}
  /\ Together \subseteq SUBSET (Ops \cup {"lookup", "boot", "cold"})
  /\ NoEntry \notin [secret : Nat, url : Nat]
  /\ MaxChanges \in Nat

VARIABLES
  pg,          \* SaleEvent: status, signingSecret and webhookUrl, these two as versions
  status,      \* flash:event, field status; "none" when the hash is not there
  creating,    \* the createEvent transaction: "no", "seeded", "done" or "failed"
  cache,       \* the entry of the event cache
  lookup,      \* user requests that missed the cache: the entry they are about to fill in
  drainOn,     \* activeDrains has the event
  timer,       \* testResetTimers has the event
  booting,     \* initDrains after a restart: "read", "start", then "done"
  admin,       \* administrators' requests
  last,        \* history: the last transition that went through, or "failed"
  lost         \* history: a settings request was cut off after its write to Postgres

vars == <<pg, status, creating, cache, lookup, drainOn, timer, booting, admin, last, lost>>

Statuses == {"PENDING", "ACTIVE", "PAUSED", "ENDED"}
Entry == [secret : Nat, url : Nat]
Row == [status : Statuses \cup {"none"}, secret : Nat, url : Nat]
NoRow == [status |-> "none", secret |-> 0, url |-> 0]
Pcs == {"idle", "postgres", "redis", "process", "cache", "fill"}
Request == [op : Ops \cup {"none"}, pc : Pcs, row : Row]
Idle == [op |-> "none", pc |-> "idle", row |-> NoRow]

\* What the cache keeps of a row.
EntryOf(row) == [secret |-> row.secret, url |-> row.url]

Init ==
  /\ pg = NoRow /\ status = "none" /\ creating = "no"
  /\ cache = NoEntry
  /\ lookup = [l \in Lookups |-> NoEntry]
  /\ drainOn = FALSE /\ timer = FALSE /\ booting = "done"
  /\ admin = [a \in Admins |-> Idle]
  /\ last = "none" /\ lost = FALSE

-----------------------------------------------------------------------------
(* POST /api/admin/events: the row is inserted in a transaction that seeds *)
(* Redis before it commits. A duplicate of another event is made this way. *)

\* seedRedis. A pipeline's errors are in its result, which is not read; HEXISTS
\* may reject, and then the transaction is rolled back.
Seed ==
  /\ creating = "no"
  /\ \/ creating' = "seeded" /\ status' = "PENDING"
     \/ "io" \in Faults /\ creating' \in {"seeded", "failed"} /\ UNCHANGED status
  /\ UNCHANGED <<pg, cache, lookup, drainOn, timer, booting, admin, last, lost>>

\* The commit may fail, or its answer may be lost: 500.
Commit ==
  /\ creating = "seeded"
  /\ \/ creating' = "done" /\ pg' = [NoRow EXCEPT !.status = "PENDING"]
     \/ "io" \in Faults /\ creating' = "failed" /\ pg' \in {pg, [NoRow EXCEPT !.status = "PENDING"]}
  /\ UNCHANGED <<status, cache, lookup, drainOn, timer, booting, admin, last, lost>>

-----------------------------------------------------------------------------
(* The administrators' handlers.                                           *)

\* The status a transition requires of the row that it reads ...
AllowedUnchecked(op, s) == TRUE
Allowed(op, s) ==
  \/ op = "activate" /\ s = "PENDING"
  \/ op \in {"pause", "suspend"} /\ s = "ACTIVE"
  \/ op = "resume" /\ s = "PAUSED"
  \/ op = "end" /\ s # "ENDED"
  \/ op \in Settings

\* ... and the one it writes to Postgres and to Redis.
Target(op) == CASE op \in Opening -> "ACTIVE" [] op = "pause" -> "PAUSED" [] OTHER -> "ENDED"

Busy == {a \in Admins : admin[a].op # "none"}
Filling == {l \in Lookups : lookup[l] # NoEntry}

MayBegin(op) ==
  /\ \A b \in Busy : {op, admin[b].op} \in Together
  /\ Filling # {} => {op, "lookup"} \in Together
  /\ booting # "done" => {op, "boot"} \in Together
  /\ Busy # {} /\ cache = NoEntry => {op, "cold"} \in Together

\* findUnique, and the check of the status.
Begin(a, op) ==
  /\ admin[a] = Idle
  /\ MayBegin(op)
  /\ pg.status # "none" /\ Allowed(op, pg.status)
  /\ admin' = [admin EXCEPT ![a] = [op |-> op, pc |-> "postgres", row |-> pg]]
  /\ UNCHANGED <<pg, status, creating, cache, lookup, drainOn, timer, booting, last, lost>>

\* The row as the request writes it, whatever it has become since it was read. A
\* settings request remembers the version it wrote.
Written(op) ==
  CASE op = "rotate" -> [pg EXCEPT !.secret = @ + 1]
    [] op = "update" -> [pg EXCEPT !.url = @ + 1]
    [] OTHER -> [pg EXCEPT !.status = Target(op)]

Bounded(op) == Written(op).secret <= MaxChanges /\ Written(op).url <= MaxChanges

\* endEvent clears the reset timer before it writes; suspendClient does not.
TimerAtWrite(op) == timer /\ op # "end"

WritePostgres(a) ==
  LET op == admin[a].op IN
  /\ admin[a].pc = "postgres" /\ Bounded(op)
  /\ pg' = Written(op)
  /\ timer' = TimerAtWrite(op)
  /\ admin' = [admin EXCEPT ![a].pc = IF op \in Settings THEN "cache" ELSE "redis",
                            ![a].row = IF op \in Settings THEN Written(op) ELSE @]
  /\ last' = IF op \in Settings THEN last ELSE "none"
  /\ UNCHANGED <<status, creating, cache, lookup, drainOn, booting, lost>>

\* The write is refused, or done and its reply lost: 500 either way.
PostgresFailsGoesOn(a) ==
  /\ "io" \in Faults /\ admin[a].pc = "postgres" /\ admin[a].op \in Transitions
  /\ admin' = [admin EXCEPT ![a].pc = "redis"]
  /\ UNCHANGED <<pg, status, creating, cache, lookup, drainOn, timer, booting, last, lost>>

PostgresFails(a) ==
  LET op == admin[a].op IN
  /\ "io" \in Faults
  /\ admin[a].pc = "postgres" /\ Bounded(op)
  /\ pg' \in {pg, Written(op)}
  /\ timer' = TimerAtWrite(op)
  /\ admin' = [admin EXCEPT ![a] = Idle]
  /\ last' = IF op \in Settings THEN last ELSE "failed"
  /\ lost' = (lost \/ op \in Settings)
  /\ UNCHANGED <<status, creating, cache, lookup, drainOn, booting>>

\* HSET status; endEventCore writes it in a pipeline whose errors it ignores.
WriteRedis(a) ==
  /\ admin[a].pc = "redis"
  /\ admin' = [admin EXCEPT ![a].pc = "process"]
  /\ \/ status' = Target(admin[a].op) /\ UNCHANGED last
     \/ "io" \in Faults /\ admin[a].op \in Closing /\ last' = "failed" /\ UNCHANGED status
  /\ UNCHANGED <<pg, creating, cache, lookup, drainOn, timer, booting, lost>>

\* The HSET of activate, pause or resume rejects, executed or not: 500.
RedisFails(a) ==
  /\ "io" \in Faults
  /\ admin[a].pc = "redis" /\ admin[a].op \notin Closing
  /\ status' \in {status, Target(admin[a].op)}
  /\ admin' = [admin EXCEPT ![a] = Idle]
  /\ last' = "failed"
  /\ UNCHANGED <<pg, creating, cache, lookup, drainOn, timer, booting, lost>>

\* The last step of a transition, in the process: it answers 200.
Finish(a, ops) ==
  /\ admin[a].pc = "process" /\ admin[a].op \in ops
  /\ admin' = [admin EXCEPT ![a] = Idle]
  /\ last' = IF last = "failed" THEN last ELSE admin[a].op
  /\ UNCHANGED <<pg, status, creating, lookup, booting, lost>>

\* The cache is warmed with the row that was read at the start.
FinishOpening(a) ==
  /\ Finish(a, Opening)
  /\ cache' = EntryOf(admin[a].row)
  /\ timer' = (timer \/ Mode = "TEST")
  /\ drainOn' = TRUE

FinishPause(a) ==
  /\ Finish(a, {"pause"})
  /\ drainOn' = FALSE
  /\ UNCHANGED <<cache, timer>>

FinishClosingKeepsEntry(a) == Finish(a, Closing) /\ drainOn' = FALSE /\ UNCHANGED <<cache, timer>>
FinishClosing(a) ==
  /\ Finish(a, Closing)
  /\ drainOn' = FALSE
  /\ cache' = NoEntry
  /\ UNCHANGED timer

\* {...cached, field: new}: the entry with the one field this request wrote.
PatchedBefore(a, entry) == EntryOf(admin[a].row)
Patched(a, entry) ==
  IF admin[a].op = "rotate" THEN [entry EXCEPT !.secret = admin[a].row.secret]
  ELSE [entry EXCEPT !.url = admin[a].row.url]

\* getEventEntry answers from the cache, and the entry is written back at once.
PatchHit(a) ==
  /\ admin[a].pc = "cache" /\ cache # NoEntry
  /\ cache' = Patched(a, cache)
  /\ admin' = [admin EXCEPT ![a] = Idle]
  /\ UNCHANGED <<pg, status, creating, lookup, drainOn, timer, booting, last, lost>>

\* It misses and reads the row: an inactive event is not cached ...
PatchMiss(a) ==
  /\ admin[a].pc = "cache" /\ cache = NoEntry
  /\ admin' = [admin EXCEPT ![a] =
       IF pg.status = "ACTIVE" THEN [@ EXCEPT !.pc = "fill", !.row = Patched(a, pg)] ELSE Idle]
  /\ UNCHANGED <<pg, status, creating, cache, lookup, drainOn, timer, booting, last, lost>>

\* ... an active one is, with the one field merged in, whatever happened in between.
PatchFill(a) ==
  /\ admin[a].pc = "fill"
  /\ cache' = EntryOf(admin[a].row)
  /\ admin' = [admin EXCEPT ![a] = Idle]
  /\ UNCHANGED <<pg, status, creating, lookup, drainOn, timer, booting, last, lost>>

-----------------------------------------------------------------------------
(* getEventEntry on behalf of a user request or of the drain.              *)

LookupMiss(l) ==
  /\ lookup[l] = NoEntry /\ cache = NoEntry /\ pg.status = "ACTIVE"
  /\ \A b \in Busy : {"lookup", admin[b].op} \in Together
  /\ lookup' = [lookup EXCEPT ![l] = EntryOf(pg)]
  /\ UNCHANGED <<pg, status, creating, cache, drainOn, timer, booting, admin, last, lost>>

LookupFill(l) ==
  /\ lookup[l] # NoEntry
  /\ cache' = lookup[l]
  /\ lookup' = [lookup EXCEPT ![l] = NoEntry]
  /\ UNCHANGED <<pg, status, creating, drainOn, timer, booting, admin, last, lost>>

-----------------------------------------------------------------------------
(* The process dies; on restart it listens first and runs initDrains after.*)

Crash ==
  /\ "crash" \in Faults
  /\ creating' = IF creating = "seeded" THEN "failed" ELSE creating
  /\ cache' = NoEntry
  /\ lookup' = [l \in Lookups |-> NoEntry]
  /\ drainOn' = FALSE /\ timer' = FALSE /\ booting' = "read"
  /\ admin' = [a \in Admins |-> Idle]
  /\ last' = IF \E a \in Busy : admin[a].op \in Transitions THEN "failed" ELSE last
  /\ UNCHANGED <<pg, status, lost>>

InitDrainsRead ==
  /\ booting = "read"
  /\ booting' = IF pg.status = "ACTIVE" THEN "start" ELSE "done"
  /\ UNCHANGED <<pg, status, creating, cache, lookup, drainOn, timer, admin, last, lost>>

InitDrainsStart ==
  /\ booting = "start"
  /\ booting' = "done" /\ drainOn' = TRUE
  /\ UNCHANGED <<pg, status, creating, cache, lookup, timer, admin, last, lost>>

-----------------------------------------------------------------------------

AdminStep(a) ==
  \/ \E op \in Ops : Begin(a, op)
  \/ WritePostgres(a) \/ PostgresFails(a)
  \/ WriteRedis(a) \/ RedisFails(a)
  \/ FinishOpening(a) \/ FinishPause(a) \/ FinishClosing(a)
  \/ PatchHit(a) \/ PatchMiss(a) \/ PatchFill(a)

Next ==
  \/ Seed \/ Commit
  \/ \E a \in Admins : AdminStep(a)
  \/ \E l \in Lookups : LookupMiss(l) \/ LookupFill(l)
  \/ Crash \/ InitDrainsRead \/ InitDrainsStart

Spec == Init /\ [][Next]_vars

-----------------------------------------------------------------------------

\* Every variable has its type.
TypeStores ==
  /\ pg \in Row /\ status \in Statuses \cup {"none"}
  /\ creating \in {"no", "seeded", "done", "failed"}

TypeCache == cache \in Entry \cup {NoEntry} /\ lookup \in [Lookups -> Entry \cup {NoEntry}]

TypeFlags ==
  /\ drainOn \in BOOLEAN /\ timer \in BOOLEAN /\ lost \in BOOLEAN
  /\ booting \in {"read", "start", "done"} /\ last \in Transitions \cup {"none", "failed"}

TypeOK == TypeStores /\ TypeCache /\ TypeFlags /\ admin \in [Admins -> Request]

\* The order Postgres, then Redis, of every handler: the queue opens, and a
\* drain runs, only for an event that is officially activated, whoever
\* overlaps and whatever fails in between.
Activated == pg.status \in {"ACTIVE", "PAUSED", "ENDED"}
OpenOnlyIfActivated ==
  status \in {"ACTIVE", "PAUSED", "ENDED"} \/ drainOn \/ cache # NoEntry => Activated

\* Postgres, the source of truth, keeps to the life of a sale: no handler acts
\* on a status that another one has left meanwhile.
Life == INSTANCE SaleLife WITH status <- pg.status
KeepsToLife == Life!Spec

\* Nothing is in progress.
Quiet == Busy = {} /\ Filling = {} /\ booting = "done"

\* A transition that goes through brings Postgres, Redis and the process to
\* agree, whatever earlier ones that failed or were cut off have left, and a
\* restart keeps it so.
TransitionsSettle ==
  Quiet /\ last \in Transitions =>
    /\ pg.status = Target(last) /\ status = Target(last)
    /\ drainOn <=> last \in Opening
    /\ last \in Closing => cache = NoEntry
    /\ last = "end" => ~timer

\* The entry in the cache has the secret and the URL of the row, unless a
\* request was cut off between its two writes.
SettingsFresh == Quiet /\ ~lost /\ cache # NoEntry => cache = EntryOf(pg)
=============================================================================
