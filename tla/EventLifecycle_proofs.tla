------------------------ MODULE EventLifecycle_proofs ------------------------
(***************************************************************************)
(* Theorems about EventLifecycle: for any number of administrators and     *)
(* user requests and whatever fails.                                       *)
(***************************************************************************)
EXTENDS EventLifecycle, TLAPS

-----------------------------------------------------------------------------
(* Type correctness.                                                       *)

LEMMA RowTypes ==
  /\ NoRow \in Row
  /\ Idle \in Request
  /\ \A row \in Row : EntryOf(row) \in Entry
  /\ \A op : Target(op) \in Statuses
  BY DEF NoRow, Row, Idle, Request, Pcs, EntryOf, Entry, Target, Statuses

LEMMA WrittenType == ASSUME pg \in Row, NEW op PROVE Written(op) \in Row
<1>1. CASE op = "rotate"
  BY <1>1 DEF Written, Row
<1>2. CASE op = "update"
  BY <1>2 DEF Written, Row
<1>3. CASE op \notin {"rotate", "update"}
  BY <1>3, RowTypes DEF Written, Row
<1> QED
  BY <1>1, <1>2, <1>3

\* Assigning the fields of one request leaves well-typed requests.
LEMMA AdminType ==
  ASSUME admin \in [Admins -> Request], NEW a \in Admins
  PROVE  /\ [admin EXCEPT ![a] = Idle] \in [Admins -> Request]
         /\ \A pc \in Pcs : [admin EXCEPT ![a].pc = pc] \in [Admins -> Request]
         /\ \A pc \in Pcs, row \in Row : [admin EXCEPT ![a].pc = pc, ![a].row = row] \in [Admins -> Request]
         /\ \A pc \in Pcs, row \in Row :
              [admin EXCEPT ![a] = [@ EXCEPT !.pc = pc, !.row = row]] \in [Admins -> Request]
  BY RowTypes DEF Request

LEMMA TypeInit == Init => TypeOK
<1> SUFFICES ASSUME Init PROVE TypeOK
  OBVIOUS
<1>1. TypeStores /\ admin \in [Admins -> Request]
  BY RowTypes DEF Init, TypeStores
<1>2. TypeCache
  BY DEF Init, TypeCache
<1>3. TypeFlags
  BY Zenon DEF Init, TypeFlags
<1> QED
  BY <1>1, <1>2, <1>3 DEF TypeOK

\* What a step does not touch keeps its type.
LEMMA TypeKept ==
  ASSUME TypeOK
  PROVE  /\ UNCHANGED <<pg, status, creating>> => TypeStores'
         /\ UNCHANGED <<cache, lookup>> => TypeCache'
         /\ UNCHANGED <<drainOn, timer, lost, booting, last>> => TypeFlags'
<1>1. UNCHANGED <<pg, status, creating>> => TypeStores'
  BY DEF TypeOK, TypeStores
<1>2. UNCHANGED <<cache, lookup>> => TypeCache'
  BY DEF TypeOK, TypeCache
<1>3. UNCHANGED <<drainOn, timer, lost, booting, last>> => TypeFlags'
  BY Zenon DEF TypeOK, TypeFlags
<1> QED
  BY <1>1, <1>2, <1>3

LEMMA TypeBegin ==
  ASSUME TypeOK, NEW a \in Admins, NEW op \in Ops, Begin(a, op)
  PROVE  TypeOK'
<1>1. admin' \in [Admins -> Request]
  BY DEF TypeOK, TypeStores, Begin, Request, Pcs
<1> QED
  BY <1>1, TypeKept DEF Begin, TypeOK

LEMMA TypeWritePostgres ==
  ASSUME TypeOK, NEW a \in Admins, WritePostgres(a)
  PROVE  TypeOK'
<1> DEFINE op == admin[a].op
<1>1. Written(op) \in Row
  BY WrittenType DEF TypeOK, TypeStores
<1>2. TypeStores'
  BY <1>1 DEF TypeOK, TypeStores, WritePostgres
<1>3. admin' \in [Admins -> Request]
  <2>1. admin[a].row \in Row
    BY DEF TypeOK, Request
  <2> QED
    BY <1>1, <2>1, AdminType DEF TypeOK, WritePostgres, Pcs
<1>4. timer' \in BOOLEAN
  BY Zenon DEF WritePostgres, TimerAtWrite, TypeOK, TypeFlags
<1>5. last' \in Transitions \cup {"none", "failed"}
  BY DEF WritePostgres, TypeOK, TypeFlags
<1>6. TypeFlags'
  BY <1>4, <1>5, Zenon DEF WritePostgres, TypeOK, TypeFlags
<1> QED
  BY <1>2, <1>3, <1>6, TypeKept DEF WritePostgres, TypeOK

LEMMA TypePostgresFails ==
  ASSUME TypeOK, NEW a \in Admins, PostgresFails(a)
  PROVE  TypeOK'
<1>1. TypeStores'
  BY WrittenType DEF TypeOK, TypeStores, PostgresFails
<1>2. admin' \in [Admins -> Request]
  BY AdminType DEF TypeOK, PostgresFails
<1>3. timer' \in BOOLEAN /\ lost' \in BOOLEAN
  BY Zenon DEF PostgresFails, TimerAtWrite, TypeOK, TypeFlags
<1>4. last' \in Transitions \cup {"none", "failed"}
  BY DEF PostgresFails, TypeOK, TypeFlags
<1>5. TypeFlags'
  BY <1>3, <1>4, Zenon DEF PostgresFails, TypeOK, TypeFlags
<1> QED
  BY <1>1, <1>2, <1>5, TypeKept DEF PostgresFails, TypeOK

LEMMA TypeRedisStep ==
  ASSUME TypeOK, NEW a \in Admins, WriteRedis(a) \/ RedisFails(a)
  PROVE  TypeOK'
<1>1. TypeStores'
  BY RowTypes DEF TypeOK, TypeStores, WriteRedis, RedisFails
<1>2. admin' \in [Admins -> Request]
  <2>1. CASE WriteRedis(a)
    BY <2>1, AdminType DEF TypeOK, WriteRedis, Pcs
  <2>2. CASE RedisFails(a)
    BY <2>2, AdminType DEF TypeOK, RedisFails
  <2> QED
    BY <2>1, <2>2
<1>3. last' \in Transitions \cup {"none", "failed"}
  BY DEF WriteRedis, RedisFails, TypeOK, TypeFlags
<1>4. TypeFlags'
  BY <1>3, Zenon DEF WriteRedis, RedisFails, TypeOK, TypeFlags
<1> QED
  BY <1>1, <1>2, <1>4, TypeKept DEF WriteRedis, RedisFails, TypeOK

\* The part that the last steps of all transitions share.
LEMMA TypeFinish ==
  ASSUME TypeOK, NEW a \in Admins, NEW ops \in SUBSET Transitions, Finish(a, ops)
  PROVE  /\ TypeStores' /\ admin' \in [Admins -> Request]
         /\ last' \in Transitions \cup {"none", "failed"}
         /\ UNCHANGED <<booting, lost, lookup>>
<1>1. TypeStores'
  BY TypeKept DEF Finish
<1>2. admin' \in [Admins -> Request]
  BY AdminType DEF TypeOK, Finish
<1>3. last' \in Transitions \cup {"none", "failed"}
  BY DEF Finish, TypeOK, TypeFlags
<1> QED
  BY <1>1, <1>2, <1>3 DEF Finish

LEMMA TypeProcessStep ==
  ASSUME TypeOK, NEW a \in Admins, FinishOpening(a) \/ FinishPause(a) \/ FinishClosing(a)
  PROVE  TypeOK'
<1>1. PICK ops \in SUBSET Transitions : Finish(a, ops)
  BY DEF FinishOpening, FinishPause, FinishClosing, Transitions
<1>2. /\ TypeStores' /\ admin' \in [Admins -> Request]
      /\ last' \in Transitions \cup {"none", "failed"}
      /\ UNCHANGED <<booting, lost, lookup>>
  BY <1>1, TypeFinish
<1>3. TypeCache'
  <2>1. EntryOf(admin[a].row) \in Entry
    BY RowTypes DEF TypeOK, Request
  <2>2. cache' \in Entry \cup {NoEntry}
    BY <2>1 DEF TypeOK, TypeCache, FinishOpening, FinishPause, FinishClosing
  <2> QED
    BY <1>2, <2>2 DEF TypeOK, TypeCache
<1>4. drainOn' \in BOOLEAN /\ timer' \in BOOLEAN
  BY Zenon DEF FinishOpening, FinishPause, FinishClosing, TypeOK, TypeFlags
<1>5. TypeFlags'
  BY <1>2, <1>4, Zenon DEF TypeOK, TypeFlags
<1> QED
  BY <1>2, <1>3, <1>5 DEF TypeOK

LEMMA TypePatch ==
  ASSUME TypeOK, NEW a \in Admins, PatchHit(a) \/ PatchMiss(a) \/ PatchFill(a)
  PROVE  TypeOK'
<1>1. admin' \in [Admins -> Request]
  <2>1. CASE PatchMiss(a)
    <3>1. pg \in Row /\ admin[a].row \in Row
      BY DEF TypeOK, TypeStores, Request
    <3>2. Patched(a, pg) \in Row
      BY <3>1 DEF Patched, Row
    <3> QED
      BY <2>1, <3>2, AdminType DEF PatchMiss, TypeOK, Pcs
  <2>2. CASE PatchHit(a) \/ PatchFill(a)
    BY <2>2, AdminType DEF PatchHit, PatchFill, TypeOK
  <2> QED
    BY <2>1, <2>2
<1>2. admin[a].row \in Row
  BY DEF TypeOK, Request
<1>3. TypeCache'
  <2>1. CASE PatchHit(a)
    <3>1. cache \in Entry
      BY <2>1 DEF PatchHit, TypeOK, TypeCache
    <3>2. Patched(a, cache) \in Entry
      BY <1>2, <3>1 DEF Patched, Entry, Row
    <3> QED
      BY <2>1, <3>2 DEF PatchHit, TypeOK, TypeCache
  <2>2. CASE PatchMiss(a)
    BY <2>2, TypeKept DEF PatchMiss
  <2>3. CASE PatchFill(a)
    BY <2>3, <1>2, RowTypes DEF PatchFill, TypeOK, TypeCache
  <2> QED
    BY <2>1, <2>2, <2>3
<1>4. TypeStores' /\ TypeFlags'
  BY TypeKept DEF PatchHit, PatchMiss, PatchFill
<1> QED
  BY <1>1, <1>3, <1>4 DEF TypeOK

\* The steps outside the administrators' handlers.
LEMMA TypeRest ==
  ASSUME TypeOK,
         \/ Seed \/ Commit \/ Crash \/ InitDrainsRead \/ InitDrainsStart
         \/ \E l \in Lookups : LookupMiss(l) \/ LookupFill(l)
  PROVE  TypeOK'
<1>1. CASE Seed
  BY <1>1, TypeKept DEF Seed, TypeOK, TypeStores, Statuses
<1>2. CASE Commit
  BY <1>2, TypeKept DEF Commit, TypeOK, TypeStores, Statuses, NoRow, Row
<1>3. CASE Crash
  <2>1. TypeStores' /\ TypeCache' /\ admin' \in [Admins -> Request]
    BY <1>3, RowTypes DEF Crash, TypeOK, TypeStores, TypeCache
  <2>2. last' \in Transitions \cup {"none", "failed"}
    BY <1>3 DEF Crash, TypeOK, TypeFlags
  <2>3. TypeFlags'
    BY <1>3, <2>2, Zenon DEF Crash, TypeOK, TypeFlags
  <2> QED
    BY <2>1, <2>3 DEF TypeOK
<1>4. CASE InitDrainsRead
  <2>1. booting' \in {"read", "start", "done"}
    BY <1>4 DEF InitDrainsRead
  <2>2. TypeFlags'
    BY <1>4, <2>1, Zenon DEF InitDrainsRead, TypeOK, TypeFlags
  <2> QED
    BY <1>4, <2>2, TypeKept DEF InitDrainsRead, TypeOK
<1>5. CASE InitDrainsStart
  <2>1. TypeFlags'
    BY <1>5, Zenon DEF InitDrainsStart, TypeOK, TypeFlags
  <2> QED
    BY <1>5, <2>1, TypeKept DEF InitDrainsStart, TypeOK
<1>6. CASE \E l \in Lookups : LookupMiss(l) \/ LookupFill(l)
  <2>1. TypeCache'
    BY <1>6, RowTypes DEF LookupMiss, LookupFill, TypeOK, TypeStores, TypeCache
  <2>2. TypeStores' /\ TypeFlags' /\ admin' \in [Admins -> Request]
    BY <1>6, TypeKept DEF LookupMiss, LookupFill, TypeOK
  <2> QED
    BY <2>1, <2>2 DEF TypeOK
<1> QED
  BY <1>1, <1>2, <1>3, <1>4, <1>5, <1>6

LEMMA TypeNext == TypeOK /\ [Next]_vars => TypeOK'
<1> SUFFICES ASSUME TypeOK, [Next]_vars PROVE TypeOK'
  OBVIOUS
<1>1. CASE \E a \in Admins : AdminStep(a)
  BY <1>1, TypeBegin, TypeWritePostgres, TypePostgresFails, TypeRedisStep, TypeProcessStep, TypePatch
     DEF AdminStep
<1>2. CASE \/ Seed \/ Commit \/ Crash \/ InitDrainsRead \/ InitDrainsStart
           \/ \E l \in Lookups : LookupMiss(l) \/ LookupFill(l)
  BY <1>2, TypeRest
<1>3. CASE UNCHANGED vars
  BY <1>3, TypeKept DEF vars, TypeOK
<1> QED
  BY <1>1, <1>2, <1>3 DEF Next

\* Every variable of the lifecycle has its type, for any number of administrators.
THEOREM LifecycleTypes == Spec => []TypeOK
  BY TypeInit, TypeNext, PTL DEF Spec

-----------------------------------------------------------------------------
(* The order of the writes.                                                *)

\* Whatever is about to open the queue, start the drain or fill the cache comes
\* after a write to Postgres that activated, paused or ended the event, and no
\* write undoes that. Before the row is there, nothing is in progress.
WritesOrdered ==
  /\ booting = "start" => Activated
  /\ \A l \in Lookups : lookup[l] # NoEntry => Activated
  /\ \A a \in Admins :
       /\ admin[a].pc # "idle" => pg.status # "none" /\ admin[a].op \in Ops
       /\ admin[a].pc \in {"redis", "process", "fill"} => Activated
       /\ admin[a].pc \in {"cache", "fill"} => admin[a].op \in Settings
  /\ creating \in {"no", "seeded"} => pg.status = "none"

OpenInv == TypeOK /\ OpenOnlyIfActivated /\ WritesOrdered

LEMMA OpenInit == Init => OpenInv
<1> SUFFICES ASSUME Init PROVE OpenInv
  OBVIOUS
<1>1. OpenOnlyIfActivated /\ WritesOrdered
  BY DEF Init, OpenOnlyIfActivated, WritesOrdered, Activated, Idle, NoRow
<1> QED
  BY <1>1, TypeInit DEF OpenInv

\* A write to Postgres never takes an event back to where it was not activated.
LEMMA WrittenActivated ==
  ASSUME pg \in Row, NEW op
  PROVE  /\ Activated => Written(op).status \in {"ACTIVE", "PAUSED", "ENDED"}
         /\ op \in Transitions => Written(op).status \in {"ACTIVE", "PAUSED", "ENDED"}
         /\ op \in Settings => Written(op).status = pg.status
<1>1. CASE op \in Settings
  BY <1>1 DEF Written, Settings, Transitions, Opening, Closing, Activated, Row
<1>2. CASE op \notin Settings
  BY <1>2 DEF Written, Settings, Target, Activated, Row
<1> QED
  BY <1>1, <1>2

LEMMA OpenPostgres ==
  ASSUME OpenInv, NEW a \in Admins, WritePostgres(a) \/ PostgresFails(a)
  PROVE  OpenOnlyIfActivated' /\ WritesOrdered'
<1> DEFINE op == admin[a].op
<1>1. op \in Ops /\ pg.status # "none" /\ pg \in Row
  BY DEF OpenInv, WritesOrdered, WritePostgres, PostgresFails, TypeOK, TypeStores
<1>2. pg' \in {pg, Written(op)}
  BY DEF WritePostgres, PostgresFails
<1>3. pg'.status # "none" /\ (Activated => Activated')
  BY <1>1, <1>2, WrittenActivated DEF Activated, Ops
<1>4. ASSUME NEW b \in Admins
      PROVE  /\ admin'[b].pc # "idle" => admin'[b].op \in Ops
             /\ admin'[b].pc \in {"redis", "process", "fill"} => Activated'
             /\ admin'[b].pc \in {"cache", "fill"} => admin'[b].op \in Settings
  <2>1. CASE b # a
    BY <1>3, <2>1 DEF OpenInv, WritesOrdered, TypeOK, Request, WritePostgres, PostgresFails
  <2>2. CASE b = a /\ WritePostgres(a)
    BY <1>1, <2>2, WrittenActivated DEF WritePostgres, TypeOK, Request, OpenInv, Activated, Ops
  <2>3. CASE b = a /\ PostgresFails(a)
    BY <2>3 DEF PostgresFails, Idle, TypeOK, Request, OpenInv
  <2> QED
    BY <2>1, <2>2, <2>3
<1>5. UNCHANGED <<status, creating, cache, lookup, drainOn, booting>>
  BY DEF WritePostgres, PostgresFails
<1>6. creating \notin {"no", "seeded"}
  BY <1>1 DEF OpenInv, WritesOrdered
<1>7. OpenOnlyIfActivated'
  BY <1>3, <1>5 DEF OpenInv, OpenOnlyIfActivated
<1>8. WritesOrdered'
  BY <1>3, <1>4, <1>5, <1>6 DEF OpenInv, WritesOrdered
<1> QED
  BY <1>7, <1>8

\* The handlers' other steps leave Postgres alone.
LEMMA OpenAdmin ==
  ASSUME OpenInv, NEW a \in Admins,
         \/ \E op \in Ops : Begin(a, op)
         \/ WriteRedis(a) \/ RedisFails(a) \/ FinishOpening(a) \/ FinishPause(a) \/ FinishClosing(a)
         \/ PatchHit(a) \/ PatchMiss(a) \/ PatchFill(a)
  PROVE  OpenOnlyIfActivated' /\ WritesOrdered'
<1> USE DEF OpenInv
<1>1. UNCHANGED <<pg, creating, lookup, booting>>
  BY DEF Begin, WriteRedis, RedisFails, FinishOpening, FinishPause, FinishClosing, Finish,
         PatchHit, PatchMiss, PatchFill
<1>2. Activated' <=> Activated
  BY <1>1 DEF Activated
<1>3. OpenOnlyIfActivated'
  <2>1. CASE \E op \in Ops : Begin(a, op)
    BY <1>2, <2>1 DEF Begin, OpenOnlyIfActivated
  <2>2. CASE admin[a].pc \in {"redis", "process", "fill"}
    BY <1>2, <2>2 DEF OpenOnlyIfActivated, WritesOrdered
  <2>3. CASE PatchHit(a) \/ PatchMiss(a)
    BY <1>2, <2>3 DEF PatchHit, PatchMiss, OpenOnlyIfActivated
  <2> QED
    BY <2>1, <2>2, <2>3
       DEF WriteRedis, RedisFails, FinishOpening, FinishPause, FinishClosing, Finish, PatchFill
<1>4. ASSUME NEW b \in Admins
      PROVE  /\ admin'[b].pc # "idle" => pg'.status # "none" /\ admin'[b].op \in Ops
             /\ admin'[b].pc \in {"redis", "process", "fill"} => Activated
             /\ admin'[b].pc \in {"cache", "fill"} => admin'[b].op \in Settings
  <2> admin \in [Admins -> Request]
    BY DEF TypeOK
  <2>1. CASE b # a
    <3>1. admin'[b] = admin[b]
      BY <2>1 DEF Begin, WriteRedis, RedisFails, FinishOpening, FinishPause, FinishClosing, Finish,
                  PatchHit, PatchMiss, PatchFill, Request
    <3> QED
      BY <1>1, <3>1 DEF WritesOrdered
  <2>2. CASE b = a /\ \E op \in Ops : Begin(a, op)
    BY <2>2 DEF Begin, Request
  <2>3. CASE b = a /\ WriteRedis(a)
    BY <1>1, <2>3 DEF WriteRedis, WritesOrdered, Request
  <2>4. CASE b = a /\ PatchMiss(a)
    BY <1>1, <2>4 DEF PatchMiss, WritesOrdered, Request, Idle, Activated
  <2>5. CASE b = a /\ admin'[a] = Idle
    BY <2>5 DEF Idle
  <2> QED
    BY <2>1, <2>2, <2>3, <2>4, <2>5
       DEF RedisFails, FinishOpening, FinishPause, FinishClosing, Finish, PatchHit, PatchFill
<1>5. WritesOrdered'
  BY <1>1, <1>2, <1>4 DEF WritesOrdered
<1> QED
  BY <1>3, <1>5

LEMMA OpenRest ==
  ASSUME OpenInv,
         \/ Seed \/ Commit \/ Crash \/ InitDrainsRead \/ InitDrainsStart
         \/ \E l \in Lookups : LookupMiss(l) \/ LookupFill(l)
  PROVE  OpenOnlyIfActivated' /\ WritesOrdered'
<1> USE DEF OpenInv
<1>1. CASE Seed
  BY <1>1 DEF Seed, OpenOnlyIfActivated, WritesOrdered, Activated
<1>2. CASE Commit
  <2>1. ~Activated
    BY <1>2 DEF Commit, WritesOrdered, Activated
  <2>2. \A a \in Admins : admin[a].pc = "idle"
    BY <1>2 DEF Commit, WritesOrdered
  <2> QED
    BY <1>2, <2>1, <2>2 DEF Commit, OpenOnlyIfActivated, WritesOrdered, Activated
<1>3. CASE Crash
  BY <1>3 DEF Crash, OpenOnlyIfActivated, WritesOrdered, Activated, Idle
<1>4. CASE InitDrainsRead \/ InitDrainsStart
  BY <1>4 DEF InitDrainsRead, InitDrainsStart, OpenOnlyIfActivated, WritesOrdered, Activated
<1>5. CASE \E l \in Lookups : LookupMiss(l) \/ LookupFill(l)
  BY <1>5 DEF LookupMiss, LookupFill, OpenOnlyIfActivated, WritesOrdered, Activated, TypeOK, TypeCache
<1> QED
  BY <1>1, <1>2, <1>3, <1>4, <1>5

LEMMA OpenNext == OpenInv /\ [Next]_vars => OpenInv'
<1> SUFFICES ASSUME OpenInv, [Next]_vars PROVE OpenInv'
  OBVIOUS
<1>1. TypeOK'
  BY TypeNext DEF OpenInv
<1>2. CASE \E a \in Admins : AdminStep(a)
  BY <1>1, <1>2, OpenPostgres, OpenAdmin DEF AdminStep, OpenInv
<1>3. CASE \/ Seed \/ Commit \/ Crash \/ InitDrainsRead \/ InitDrainsStart
           \/ \E l \in Lookups : LookupMiss(l) \/ LookupFill(l)
  BY <1>1, <1>3, OpenRest DEF OpenInv
<1>4. CASE UNCHANGED vars
  BY <1>1, <1>4 DEF vars, OpenInv, OpenOnlyIfActivated, WritesOrdered, Activated
<1> QED
  BY <1>2, <1>3, <1>4 DEF Next

\* The queue opens, a drain runs and the cache is filled only for an event that
\* Postgres has as activated, whichever handlers overlap and whatever fails: what
\* "Postgres first, then Redis" is for.
THEOREM OpensOnlyIfActivated == Spec => []OpenOnlyIfActivated
<1>1. OpenInv => OpenOnlyIfActivated
  BY DEF OpenInv
<1> QED
  BY <1>1, OpenInit, OpenNext, PTL DEF Spec

-----------------------------------------------------------------------------
(* Who is in progress beside whom, when callers are orderly.               *)

\* Two operations that do not stand in each other's way.
Compatible(op1, op2) ==
  \/ op1 \in Opening /\ op2 \in Opening
  \/ op1 \in Closing /\ op2 \in Closing
  \/ op1 = "pause" /\ op2 = "pause"
  \/ op1 \in Settings /\ op2 \in Settings /\ op1 # op2
  \/ op1 \in Settings /\ op2 \in Closing \cup {"pause"}
  \/ op2 \in Settings /\ op1 \in Closing \cup {"pause"}

LEMMA Pairs ==
  ASSUME NEW x, NEW y, NEW u, NEW v, {x, y} = {u, v}
  PROVE  (x = u /\ y = v) \/ (x = v /\ y = u)
  OBVIOUS

LEMMA OrderlyCases ==
  ASSUME NEW P \in Orderly
  PROVE  \/ \E op \in Transitions : P = {op}
         \/ P \in {Opening, Closing, Settings}
         \/ \E s \in Settings, op \in Closing \cup {"pause"} : P = {s, op}
         \/ \E op \in Opening \cup {"pause"} : P = {"lookup", op}
         \/ \E op \in Opening \cup Settings : P = {"boot", op}
         \/ \E op \in Opening \cup {"pause"} : P = {"cold", op}
  BY SMT DEF Orderly

LEMMA OrderlyPairs ==
  ASSUME Together \subseteq Orderly, NEW op1 \in Ops
  PROVE  /\ \A op2 \in Ops : {op1, op2} \in Together => Compatible(op1, op2)
         /\ {op1, "lookup"} \in Together => op1 \in Opening \cup {"pause"}
         /\ {op1, "boot"} \in Together => op1 \in Opening \cup Settings
         /\ {op1, "cold"} \in Together => op1 \in Opening \cup {"pause"}
<1> USE DEF Ops, Transitions, Opening, Closing, Settings
<1>1. ASSUME NEW x, {op1, x} \in Together
      PROVE  \/ \E op \in Transitions : op1 = op /\ x = op
             \/ op1 \in Opening /\ x \in Opening
             \/ op1 \in Closing /\ x \in Closing
             \/ op1 \in Settings /\ x \in Settings /\ op1 # x
             \/ \E s \in Settings, op \in Closing \cup {"pause"} : (op1 = s /\ x = op) \/ (op1 = op /\ x = s)
             \/ op1 \in Opening \cup {"pause"} /\ x \in {"lookup", "cold"}
             \/ op1 \in Opening \cup Settings /\ x = "boot"
  <2> {op1, x} \in Orderly
    BY <1>1
  <2>1. CASE \E op \in Transitions : {op1, x} = {op}
    BY <2>1
  <2>2. CASE {op1, x} \in {Opening, Closing, Settings}
    BY <2>2
  <2>3. CASE \E s \in Settings, op \in Closing \cup {"pause"} : {op1, x} = {s, op}
    BY <2>3, Pairs
  <2>4. CASE \E op \in Opening \cup {"pause"} : {op1, x} = {"lookup", op}
    BY <2>4, Pairs
  <2>5. CASE \E op \in Opening \cup Settings : {op1, x} = {"boot", op}
    BY <2>5, Pairs
  <2>6. CASE \E op \in Opening \cup {"pause"} : {op1, x} = {"cold", op}
    BY <2>6, Pairs
  <2> QED
    BY <2>1, <2>2, <2>3, <2>4, <2>5, <2>6, OrderlyCases
<1>2. ASSUME NEW op2 \in Ops, {op1, op2} \in Together PROVE Compatible(op1, op2)
  BY <1>1, <1>2 DEF Compatible
<1> QED
  BY <1>1, <1>2

\* What a step of a request does to it, point by point.
OthersStay(a) == \A b \in Admins \ {a} : admin'[b] = admin[b]
MovesTo(a, pc) == OthersStay(a) /\ admin'[a].op = admin[a].op /\ admin'[a].pc = pc
Leaves(a) == OthersStay(a) /\ admin'[a] = Idle

LEMMA AdminMoves ==
  ASSUME OpenInv, NEW a \in Admins
  PROVE  /\ \A op \in Ops : Begin(a, op) =>
              OthersStay(a) /\ admin'[a].op = op /\ admin'[a].pc = "postgres" /\ admin'[a].row = pg
         /\ WritePostgres(a) =>
              \/ admin[a].op \in Settings /\ MovesTo(a, "cache") /\ admin'[a].row = Written(admin[a].op)
              \/ admin[a].op \in Transitions /\ MovesTo(a, "redis") /\ admin'[a].row = admin[a].row
         /\ WriteRedis(a) => MovesTo(a, "process") /\ admin'[a].row = admin[a].row
         /\ PatchMiss(a) =>
              \/ Leaves(a)
              \/ pg.status = "ACTIVE" /\ MovesTo(a, "fill") /\ admin'[a].row = Patched(a, pg)
         /\ \/ PostgresFails(a) \/ RedisFails(a)
            \/ FinishOpening(a) \/ FinishPause(a) \/ FinishClosing(a)
            \/ PatchHit(a) \/ PatchFill(a)
            => Leaves(a)
<1> USE DEF OthersStay, MovesTo, Leaves, Request
<1>0. admin \in [Admins -> Request]
  BY DEF OpenInv, TypeOK
<1>1. ASSUME NEW op \in Ops, Begin(a, op)
      PROVE  OthersStay(a) /\ admin'[a].op = op /\ admin'[a].pc = "postgres" /\ admin'[a].row = pg
  BY <1>0, <1>1 DEF Begin
<1>2. ASSUME WritePostgres(a)
      PROVE  \/ admin[a].op \in Settings /\ MovesTo(a, "cache") /\ admin'[a].row = Written(admin[a].op)
             \/ admin[a].op \in Transitions /\ MovesTo(a, "redis") /\ admin'[a].row = admin[a].row
  <2>1. admin[a].op \in Ops
    BY <1>2 DEF WritePostgres, OpenInv, WritesOrdered
  <2> QED
    BY <1>0, <1>2, <2>1 DEF WritePostgres, Ops
<1>3. WriteRedis(a) => MovesTo(a, "process") /\ admin'[a].row = admin[a].row
  BY <1>0 DEF WriteRedis
<1>4. PatchMiss(a) =>
        Leaves(a) \/ (pg.status = "ACTIVE" /\ MovesTo(a, "fill") /\ admin'[a].row = Patched(a, pg))
  BY <1>0 DEF PatchMiss
<1>5. \/ PostgresFails(a) \/ RedisFails(a)
      \/ FinishOpening(a) \/ FinishPause(a) \/ FinishClosing(a)
      \/ PatchHit(a) \/ PatchFill(a)
      => Leaves(a)
  BY <1>0 DEF PostgresFails, RedisFails, FinishOpening, FinishPause, FinishClosing, Finish, PatchHit, PatchFill
<1> QED
  BY <1>1, <1>2, <1>3, <1>4, <1>5

\* A request that goes on is one that was there, with its operation.
NoneBegins == \A b \in Admins : admin'[b] = Idle \/ admin'[b].op = admin[b].op

LEMMA BeginsOrNot ==
  ASSUME OpenInv, [Next]_vars, \A a \in Admins, op \in Ops : ~Begin(a, op)
  PROVE  NoneBegins
<1>1. ASSUME NEW a \in Admins, AdminStep(a) PROVE NoneBegins
  <2>1. OthersStay(a) /\ (admin'[a] = Idle \/ admin'[a].op = admin[a].op)
    BY <1>1, AdminMoves DEF AdminStep, MovesTo, Leaves
  <2> QED
    BY <2>1 DEF OthersStay, NoneBegins
<1>2. Crash => NoneBegins
  BY DEF Crash, NoneBegins
<1>3. Seed \/ Commit \/ InitDrainsRead \/ InitDrainsStart \/ UNCHANGED vars => admin' = admin
  BY DEF Seed, Commit, InitDrainsRead, InitDrainsStart, vars
<1>4. (\E l \in Lookups : LookupMiss(l) \/ LookupFill(l)) => admin' = admin
  BY DEF LookupMiss, LookupFill
<1>5. admin' = admin => NoneBegins
  BY DEF NoneBegins
<1> QED
  BY <1>1, <1>2, <1>3, <1>4, <1>5 DEF Next

\* Requests that are in progress at the same time may be, and so may the user
\* requests and the restart beside them.
Overlapping ==
  /\ \A a, b \in Busy : a # b => {admin[a].op, admin[b].op} \in Together
  /\ Filling # {} => \A b \in Busy : {admin[b].op, "lookup"} \in Together
  /\ booting # "done" => \A b \in Busy : {admin[b].op, "boot"} \in Together

LEMMA OverlappingInit == Init => Overlapping
  BY DEF Init, Overlapping, Busy, Filling, Idle

LEMMA OverlappingNext ==
  ASSUME OpenInv, Overlapping, [Next]_vars
  PROVE  Overlapping'
<1>1. ASSUME NEW a \in Admins, NEW op \in Ops, Begin(a, op) PROVE Overlapping'
  <2>1. UNCHANGED <<lookup, booting>> /\ MayBegin(op) /\ admin[a] = Idle
    BY <1>1 DEF Begin
  <2>2. OthersStay(a) /\ admin'[a].op = op
    BY <1>1, AdminMoves
  <2>3. Busy' \subseteq Busy \cup {a} /\ a \notin Busy /\ Filling' = Filling
    BY <2>1, <2>2 DEF Busy, Filling, OthersStay, Idle
  <2>4. \A b \in Busy : {op, admin[b].op} \in Together /\ {admin[b].op, op} \in Together
    <3>1. \A b \in Busy : {op, admin[b].op} = {admin[b].op, op}
      OBVIOUS
    <3> QED
      BY <2>1, <3>1 DEF MayBegin
  <2>5. /\ \A b \in Busy : admin'[b].op = admin[b].op
        /\ \A b \in Busy' \ Busy : b = a
    BY <2>2, <2>3 DEF OthersStay, Busy
  <2>6. \A b, c \in Busy' : b # c => {admin'[b].op, admin'[c].op} \in Together
    <3> SUFFICES ASSUME NEW b \in Busy', NEW c \in Busy', b # c
                 PROVE  {admin'[b].op, admin'[c].op} \in Together
      OBVIOUS
    <3>1. CASE b \in Busy /\ c \in Busy
      BY <2>5, <3>1, Zenon DEF Overlapping
    <3>2. CASE b \in Busy /\ c = a
      BY <2>2, <2>4, <2>5, <3>2, Zenon
    <3>3. CASE b = a /\ c \in Busy
      BY <2>2, <2>4, <2>5, <3>3, Zenon
    <3> QED
      BY <2>5, <3>1, <3>2, <3>3
  <2>7. Filling' # {} => \A b \in Busy' : {admin'[b].op, "lookup"} \in Together
    BY <2>1, <2>2, <2>3, <2>5, Zenon DEF Overlapping, MayBegin
  <2>8. booting' # "done" => \A b \in Busy' : {admin'[b].op, "boot"} \in Together
    BY <2>1, <2>2, <2>3, <2>5, Zenon DEF Overlapping, MayBegin
  <2> QED
    BY <2>6, <2>7, <2>8 DEF Overlapping
<1>2. CASE \A a \in Admins, op \in Ops : ~Begin(a, op)
  <2>1. Busy' \subseteq Busy /\ \A b \in Busy' : admin'[b].op = admin[b].op
    BY <1>2, BeginsOrNot DEF NoneBegins, Busy, Idle
  <2>2. booting' # "done" => booting # "done" \/ Busy' = {}
    <3>1. CASE Crash
      BY <3>1 DEF Crash, Busy, Idle
    <3>2. CASE InitDrainsRead \/ InitDrainsStart
      BY <3>2 DEF InitDrainsRead, InitDrainsStart
    <3>3. CASE UNCHANGED booting
      BY <3>3
    <3> QED
      BY <3>1, <3>2, <3>3 DEF Next, AdminStep, vars, Seed, Commit, Begin, WritePostgres, PostgresFails,
         WriteRedis, RedisFails, FinishOpening, FinishPause, FinishClosing, Finish, PatchHit,
         PatchMiss, PatchFill, LookupMiss, LookupFill
  <2>3. Filling' # {} => Filling # {} \/ \A b \in Busy : {admin[b].op, "lookup"} \in Together
    <3>1. CASE \E l \in Lookups : LookupMiss(l)
      <4>1. \A b \in Busy : {"lookup", admin[b].op} = {admin[b].op, "lookup"}
        OBVIOUS
      <4> QED
        BY <3>1, <4>1 DEF LookupMiss
    <3>2. CASE \E l \in Lookups : LookupFill(l)
      BY <3>2 DEF LookupFill, Filling
    <3>3. CASE Crash
      BY <3>3 DEF Crash, Filling
    <3>4. CASE UNCHANGED lookup
      BY <3>4 DEF Filling
    <3> QED
      BY <3>1, <3>2, <3>3, <3>4 DEF Next, AdminStep, vars, Seed, Commit, Begin, WritePostgres,
         PostgresFails, WriteRedis, RedisFails, FinishOpening, FinishPause, FinishClosing, Finish,
         PatchHit, PatchMiss, PatchFill, InitDrainsRead, InitDrainsStart
  <2> QED
    BY <2>1, <2>2, <2>3 DEF Overlapping
<1> QED
  BY <1>1, <1>2

-----------------------------------------------------------------------------
(* The row keeps to the life of a sale.                                    *)

Base == OpenInv /\ Overlapping

\* The status that a transition read still holds when it writes, unless one beside it
\* has already made the same of it.
StatusHeld == \A a \in Admins : admin[a].op \in Transitions /\ admin[a].pc = "postgres" =>
  /\ Allowed(admin[a].op, admin[a].row.status)
  /\ pg.status = admin[a].row.status \/ pg.status = Target(admin[a].op)

LifeInv == Base /\ StatusHeld

\* A request that is idle again holds no transition.
LEMMA IdleHolds == Idle.op \notin Transitions
  BY DEF Idle, Transitions, Opening, Closing

LEMMA LifeInit == Init => LifeInv
  BY OpenInit, OverlappingInit, IdleHolds DEF Init, Base, LifeInv, StatusHeld

\* Transitions in progress side by side have the same status in mind.
LEMMA SameTarget ==
  ASSUME Together \subseteq Orderly, Overlapping, NEW a \in Admins, NEW b \in Admins, a # b,
         admin[a].op \in Transitions, admin[b].op \in Transitions
  PROVE  Target(admin[a].op) = Target(admin[b].op)
<1>1. a \in Busy /\ b \in Busy
  BY DEF Busy, Transitions, Opening, Closing
<1>2. {admin[a].op, admin[b].op} \in Together
  BY <1>1 DEF Overlapping
<1>3. admin[a].op \in Ops /\ admin[b].op \in Ops
  BY DEF Ops
<1>4. Compatible(admin[a].op, admin[b].op)
  BY <1>2, <1>3, OrderlyPairs
<1> QED
  BY <1>4 DEF Compatible, Target, Transitions, Opening, Closing, Settings

\* What a write to Postgres makes of the status.
LEMMA WriteStatus ==
  ASSUME OpenInv, NEW a \in Admins, WritePostgres(a) \/ PostgresFails(a)
  PROVE  /\ pg'.status = pg.status \/ (admin[a].op \in Transitions /\ pg'.status = Target(admin[a].op))
         /\ admin[a].pc = "postgres" /\ pg.status \in Statuses /\ admin[a].op \in Ops
         /\ OthersStay(a) /\ admin'[a].pc # "postgres"
<1>1. admin[a].op \in Ops /\ pg.status # "none" /\ pg \in Row
  BY DEF OpenInv, WritesOrdered, WritePostgres, PostgresFails, TypeOK, TypeStores
<1>2. pg' \in {pg, Written(admin[a].op)}
  BY DEF WritePostgres, PostgresFails
<1>3. admin[a].op \in Settings => pg'.status = pg.status
  BY <1>1, <1>2, WrittenActivated
<1>4. admin[a].op \in Transitions => pg'.status \in {pg.status, Target(admin[a].op)}
  BY <1>1, <1>2 DEF Written, Transitions, Opening, Closing, Row
<1>5. OthersStay(a) /\ admin'[a].pc # "postgres"
  BY AdminMoves DEF MovesTo, Leaves, Idle
<1> QED
  BY <1>1, <1>3, <1>4, <1>5 DEF Ops, Row, WritePostgres, PostgresFails

LEMMA StatusHeldNext ==
  ASSUME Together \subseteq Orderly, LifeInv, [Next]_vars
  PROVE  StatusHeld'
<1>0. OpenInv /\ Overlapping /\ admin \in [Admins -> Request]
  BY DEF LifeInv, Base, OpenInv, TypeOK
<1>1. ASSUME NEW a \in Admins, NEW op \in Ops, Begin(a, op) PROVE StatusHeld'
  <2>1. OthersStay(a) /\ admin'[a].op = op /\ admin'[a].row = pg /\ pg' = pg
    BY <1>0, <1>1, AdminMoves DEF Begin
  <2>2. Allowed(op, pg.status)
    BY <1>1 DEF Begin
  <2> QED
    BY <2>1, <2>2 DEF OthersStay, LifeInv, StatusHeld
<1>2. ASSUME NEW a \in Admins, WritePostgres(a) \/ PostgresFails(a) PROVE StatusHeld'
  <2>1. /\ pg'.status = pg.status \/ (admin[a].op \in Transitions /\ pg'.status = Target(admin[a].op))
        /\ OthersStay(a) /\ admin'[a].pc # "postgres"
    BY <1>0, <1>2, WriteStatus
  <2> SUFFICES ASSUME NEW b \in Admins, admin'[b].op \in Transitions, admin'[b].pc = "postgres"
               PROVE  /\ Allowed(admin'[b].op, admin'[b].row.status)
                      /\ pg'.status = admin'[b].row.status \/ pg'.status = Target(admin'[b].op)
    BY DEF StatusHeld
  <2>2. b # a /\ admin'[b] = admin[b]
    BY <2>1 DEF OthersStay
  <2>3. admin[a].op \in Transitions => Target(admin[a].op) = Target(admin[b].op)
    BY <1>0, <2>2, SameTarget
  <2> QED
    BY <2>1, <2>2, <2>3 DEF LifeInv, StatusHeld
<1>3. ASSUME NEW a \in Admins, \/ WriteRedis(a) \/ RedisFails(a)
                               \/ FinishOpening(a) \/ FinishPause(a) \/ FinishClosing(a)
                               \/ PatchHit(a) \/ PatchMiss(a) \/ PatchFill(a)
      PROVE  StatusHeld'
  <2>1. pg' = pg
    BY <1>3 DEF WriteRedis, RedisFails, FinishOpening, FinishPause, FinishClosing, Finish,
           PatchHit, PatchMiss, PatchFill
  <2>2. OthersStay(a) /\ admin'[a].pc # "postgres"
    BY <1>0, <1>3, AdminMoves DEF MovesTo, Leaves, Idle
  <2> QED
    BY <2>1, <2>2 DEF OthersStay, LifeInv, StatusHeld
<1>4. CASE Commit
  BY <1>0, <1>4 DEF Commit, OpenInv, WritesOrdered, StatusHeld
<1>5. CASE Crash
  BY <1>5, IdleHolds DEF Crash, StatusHeld
<1>6. CASE \/ Seed \/ InitDrainsRead \/ InitDrainsStart \/ UNCHANGED vars
           \/ \E l \in Lookups : LookupMiss(l) \/ LookupFill(l)
  BY <1>6 DEF Seed, InitDrainsRead, InitDrainsStart, LookupMiss, LookupFill, vars, LifeInv, StatusHeld
<1> QED
  BY <1>1, <1>2, <1>3, <1>4, <1>5, <1>6 DEF Next, AdminStep

LEMMA LifeNext == ASSUME Together \subseteq Orderly PROVE LifeInv /\ [Next]_vars => LifeInv'
  BY OpenNext, OverlappingNext, StatusHeldNext DEF LifeInv, Base

\* A write to Postgres is a step of the life of a sale, or none.
LEMMA LifeWrite ==
  ASSUME LifeInv, NEW a \in Admins, WritePostgres(a) \/ PostgresFails(a)
  PROVE  [Life!Next]_(pg.status)
<1> DEFINE op == admin[a].op
<1>1. /\ pg'.status = pg.status \/ (op \in Transitions /\ pg'.status = Target(op))
      /\ admin[a].pc = "postgres" /\ pg.status \in Statuses
  BY WriteStatus DEF LifeInv, Base
<1>2. CASE op \in Transitions /\ pg'.status = Target(op) /\ pg'.status # pg.status
  <2>1. Allowed(op, pg.status)
    BY <1>1, <1>2 DEF LifeInv, StatusHeld
  <2> QED
    BY <1>1, <1>2, <2>1
       DEF Allowed, Target, Transitions, Opening, Closing, Settings, Statuses,
           Life!Next, Life!Activate, Life!Pause, Life!Resume, Life!End
<1> QED
  BY <1>1, <1>2

LEMMA LifeStep == ASSUME LifeInv, [Next]_vars PROVE [Life!Next]_(pg.status)
<1>1. CASE \E a \in Admins : WritePostgres(a) \/ PostgresFails(a)
  BY <1>1, LifeWrite
<1>2. CASE Commit
  BY <1>2 DEF Commit, LifeInv, Base, OpenInv, WritesOrdered, NoRow, Life!Next, Life!Create
<1>3. CASE pg' = pg
  BY <1>3
<1> QED
  BY <1>1, <1>2, <1>3
     DEF Next, AdminStep, vars, Seed, Begin, WriteRedis, RedisFails, FinishOpening, FinishPause,
         FinishClosing, Finish, PatchHit, PatchMiss, PatchFill, LookupMiss, LookupFill,
         Crash, InitDrainsRead, InitDrainsStart

\* If transitions run side by side only as Orderly says -- two that do the same, two that
\* open or two that close -- the row in Postgres keeps to the life of a sale: an ended
\* event never comes back, through crashes, lost replies, overlapping settings requests
\* and cache fills.
THEOREM LifecycleKeepsToLife == ASSUME Together \subseteq Orderly PROVE Spec => KeepsToLife
<1>1. Init => Life!Init
  BY DEF Init, NoRow, Life!Init
<1>2. LifeInv /\ [Next]_vars => LifeInv'
  BY LifeNext
<1>3. LifeInv /\ [Next]_vars => [Life!Next]_(pg.status)
  BY LifeStep
<1> QED
  BY <1>1, <1>2, <1>3, LifeInit, PTL DEF Spec, KeepsToLife, Life!Spec

-----------------------------------------------------------------------------
(* Transitions that go through bring the three places to agree.            *)

\* The request has written Postgres and not answered yet.
Under(a) == admin[a].pc \in {"redis", "process"}
ToRedis == \E b \in Admins : admin[b].pc = "redis"

\* Postgres has the status of every transition under way, and of the last one.
PostgresAgrees ==
  /\ \A a \in Busy : admin[a].pc # "idle"
  /\ \A a \in Admins : Under(a) => admin[a].op \in Transitions /\ pg.status = Target(admin[a].op)
  /\ \A a \in Admins : admin[a].op \in Opening \cup {"pause"} => pg.status # "ENDED"
  /\ booting = "start" => pg.status = "ACTIVE"
  /\ last \in Transitions => pg.status = Target(last)

\* So has Redis, unless a request is about to write it, or one has failed.
RedisAgrees ==
  /\ last # "failed" => \A a \in Admins : Under(a) => status = Target(admin[a].op) \/ ToRedis
  /\ last \in Transitions => status = Target(last) \/ ToRedis

ProcessAgrees ==
  /\ last \in Transitions \ Opening => ~drainOn
  /\ last \in Opening /\ booting = "done" => drainOn
  /\ \A a \in Admins : admin[a].op = "end" /\ Under(a) => ~timer
  /\ last = "end" => ~timer
  /\ last \in Closing => cache = NoEntry /\ Filling = {} /\ \A a \in Admins : admin[a].pc # "fill"

\* A settings request that finds the cache cold, or fills it, has only pauses beside it.
ColdAlone ==
  /\ \A a \in Admins : admin[a].op \in Settings /\ cache = NoEntry /\ pg.status # "ENDED" =>
       \A b \in Busy \ {a} : admin[b].op = "pause"
  /\ \A a \in Admins : admin[a].pc = "fill" =>
       /\ cache = NoEntry /\ Filling = {} /\ EntryOf(admin[a].row) = EntryOf(pg)
       /\ \A b \in Busy \ {a} : admin[b].op = "pause"

\* What is about to go into the cache is what the row has.
RowsFresh ==
  /\ \A a \in Admins : admin[a].op \in Opening => EntryOf(admin[a].row) = EntryOf(pg)
  /\ \A l \in Filling : lookup[l] = EntryOf(pg)
  /\ \A a \in Admins : admin[a].op = "rotate" /\ admin[a].pc = "cache" => admin[a].row.secret = pg.secret
  /\ \A a \in Admins : admin[a].op = "update" /\ admin[a].pc = "cache" => admin[a].row.url = pg.url

Patching(op) == \E a \in Admins : admin[a].op = op /\ admin[a].pc = "cache"

\* A field of the cached entry that is behind the row has a request that will bring it up.
CacheFresh == ~lost /\ cache # NoEntry =>
  /\ cache.secret = pg.secret \/ Patching("rotate")
  /\ cache.url = pg.url \/ Patching("update")

Agree == PostgresAgrees /\ RedisAgrees /\ ProcessAgrees /\ ColdAlone /\ RowsFresh /\ CacheFresh

\* What the others may be doing beside a request.
LEMMA Neighbours ==
  ASSUME Together \subseteq Orderly, Base, NEW a \in Busy
  PROVE  /\ admin[a].op \in Ops
         /\ \A b \in Busy \ {a} : admin[b].op \in Ops /\ Compatible(admin[a].op, admin[b].op)
         /\ Filling # {} => admin[a].op \in Opening \cup {"pause"}
         /\ booting # "done" => admin[a].op \in Opening \cup Settings
<1>1. \A b \in Busy : admin[b].op \in Ops
  BY DEF Base, OpenInv, TypeOK, Request, Busy
<1>2. \A b \in Busy \ {a} : {admin[a].op, admin[b].op} \in Together
  BY DEF Base, Overlapping
<1>3. Filling # {} => {admin[a].op, "lookup"} \in Together
  BY DEF Base, Overlapping
<1>4. booting # "done" => {admin[a].op, "boot"} \in Together
  BY DEF Base, Overlapping
<1> HIDE DEF Base
<1> QED
  BY <1>1, <1>2, <1>3, <1>4, OrderlyPairs

\* Operations as they stand to each other.
LEMMA OpsApart ==
  /\ \A op1, op2 \in Transitions : Compatible(op1, op2) => Target(op1) = Target(op2)
  /\ \A op1 \in Opening, op2 \in Ops : Compatible(op1, op2) => op2 \in Opening
  /\ \A op1 \in Closing, op2 \in Ops : Compatible(op1, op2) => op2 \in Closing \cup Settings
  /\ \A op1 \in Settings, op2 \in Ops : Compatible(op1, op2) =>
       op2 \in Closing \cup {"pause"} \/ (op2 \in Settings /\ op2 # op1)
  /\ Opening \cap Closing = {} /\ Transitions \cap Settings = {} /\ Settings = {"rotate", "update"}
  /\ "pause" \notin Opening \cup Closing /\ "end" \in Closing
  /\ Transitions \subseteq Ops /\ Settings \subseteq Ops /\ Ops = Transitions \cup Settings
  /\ Opening \subseteq Transitions /\ Closing \subseteq Transitions
  /\ "none" \notin Ops /\ "failed" \notin Ops
  BY DEF Compatible, Target, Ops, Transitions, Opening, Closing, Settings

LEMMA Targets ==
  /\ \A op \in Opening : Target(op) = "ACTIVE"
  /\ Target("pause") = "PAUSED"
  /\ \A op \in Closing : Target(op) = "ENDED"
  /\ \A op \in Transitions : op \in Opening \/ op = "pause" \/ op \in Closing
  BY DEF Target, Transitions, Opening, Closing

\* Who is busy, and what a busy request has.
LEMMA BusyFacts ==
  ASSUME Base
  PROVE  /\ \A a \in Admins : admin[a].pc # "idle" => a \in Busy /\ admin[a].op \in Ops
         /\ \A a \in Admins : admin[a].op # "none" <=> a \in Busy
         /\ \A a \in Admins : admin[a].pc \in {"cache", "fill"} => admin[a].op \in Settings
         /\ Idle.op = "none" /\ Idle.pc = "idle"
  BY OpsApart DEF Base, OpenInv, WritesOrdered, Busy, Idle

\* A new request has read the row as it is; what it would disturb keeps it out.
LEMMA AgreeBegin ==
  ASSUME Together \subseteq Orderly, Base, Agree, NEW a \in Admins, NEW op \in Ops, Begin(a, op)
  PROVE  Agree'
<1>1. /\ UNCHANGED <<pg, status, cache, lookup, drainOn, timer, booting, last, lost>>
      /\ MayBegin(op) /\ admin[a] = Idle /\ pg.status # "none" /\ Allowed(op, pg.status)
  BY DEF Begin
<1>2. OthersStay(a) /\ admin'[a].op = op /\ admin'[a].pc = "postgres" /\ admin'[a].row = pg
  BY AdminMoves DEF Base
<1>3. Busy \subseteq Admins /\ a \notin Busy /\ Busy' = Busy \cup {a} /\ Filling' = Filling
  BY <1>1, <1>2, OpsApart DEF OthersStay, Busy, Filling, Idle
<1>4. \A b \in Admins : b # a => admin'[b] = admin[b]
  BY <1>2 DEF OthersStay
<1>5. /\ \A b \in Admins : Under(b)' <=> Under(b)
      /\ ToRedis' <=> ToRedis
      /\ \A p : Patching(p)' <=> Patching(p)
  BY <1>1, <1>2, <1>4 DEF Under, ToRedis, Patching, Idle
<1>6. /\ \A b \in Busy : admin[b].op \in Ops /\ Compatible(op, admin[b].op)
      /\ Busy # {} /\ cache = NoEntry => op \in Opening \cup {"pause"}
  BY <1>1, OrderlyPairs, BusyFacts DEF MayBegin, Base, OpenInv, TypeOK, Request, Busy
<1>7. op \in Opening \cup {"pause"} => pg.status # "ENDED"
  BY <1>1, OpsApart DEF Allowed, Opening
<1>8. PostgresAgrees'
  <2>1. \A b \in Busy' : admin'[b].pc # "idle"
    BY <1>2, <1>3, <1>4 DEF Agree, PostgresAgrees
  <2>2. \A b \in Admins : Under(b)' => admin'[b].op \in Transitions /\ pg'.status = Target(admin'[b].op)
    BY <1>1, <1>2, <1>4, <1>5 DEF Agree, PostgresAgrees, Under, Idle
  <2>3. \A b \in Admins : admin'[b].op \in Opening \cup {"pause"} => pg'.status # "ENDED"
    BY <1>1, <1>2, <1>4, <1>7 DEF Agree, PostgresAgrees
  <2> QED
    BY <1>1, <2>1, <2>2, <2>3 DEF Agree, PostgresAgrees
<1>9. RedisAgrees'
  BY <1>1, <1>2, <1>4, <1>5 DEF Agree, RedisAgrees, Under
<1>10. ProcessAgrees'
  BY <1>1, <1>2, <1>3, <1>4, <1>5 DEF Agree, ProcessAgrees, Under
<1>11. ColdAlone'
  <2>1. ASSUME NEW b \in Busy, admin[b].op \in Settings, cache = NoEntry PROVE op = "pause"
    BY <1>6, <2>1, OpsApart
  <2>2. ASSUME NEW b \in Admins, admin'[b].op \in Settings, cache' = NoEntry, pg'.status # "ENDED",
               NEW c \in Busy' \ {b}
        PROVE  admin'[c].op = "pause"
    <3>1. CASE b = a
      <4>1. Busy = {}
        BY <1>1, <1>2, <1>6, <2>2, <3>1, OpsApart
      <4> QED
        BY <1>3, <2>2, <3>1, <4>1
    <3>2. CASE b # a /\ c = a
      <4>1. b \in Busy /\ admin[b].op \in Settings
        BY <1>4, <2>2, <3>2, BusyFacts, OpsApart
      <4> QED
        BY <1>1, <1>2, <2>1, <2>2, <3>2, <4>1
    <3>3. CASE b # a /\ c # a
      BY <1>1, <1>3, <1>4, <2>2, <3>3 DEF Agree, ColdAlone
    <3> QED
      BY <3>1, <3>2, <3>3
  <2>3. ASSUME NEW b \in Admins, admin'[b].pc = "fill"
        PROVE  /\ cache' = NoEntry /\ Filling' = {} /\ EntryOf(admin'[b].row) = EntryOf(pg')
               /\ \A c \in Busy' \ {b} : admin'[c].op = "pause"
    <3>1. b # a /\ admin[b].pc = "fill" /\ b \in Busy /\ admin[b].op \in Settings
      BY <1>2, <1>4, <2>3, BusyFacts
    <3>2. cache' = NoEntry /\ Filling' = {} /\ EntryOf(admin'[b].row) = EntryOf(pg')
      BY <1>1, <1>3, <1>4, <3>1 DEF Agree, ColdAlone
    <3>3. \A c \in Busy' \ {b} : admin'[c].op = "pause"
      BY <1>1, <1>2, <1>3, <1>4, <2>1, <3>1, <3>2 DEF Agree, ColdAlone
    <3> QED
      BY <3>2, <3>3
  <2> QED
    BY <2>2, <2>3 DEF ColdAlone
<1>12. RowsFresh'
  BY <1>1, <1>2, <1>3, <1>4 DEF Agree, RowsFresh
<1>13. CacheFresh'
  BY <1>1, <1>5 DEF Agree, CacheFresh
<1> QED
  BY <1>8, <1>9, <1>10, <1>11, <1>12, <1>13 DEF Agree

\* A step of a request that is in progress: it goes on, or is over.
Goes(a) ==
  /\ OthersStay(a)
  /\ admin'[a] = Idle \/ (admin'[a].op = admin[a].op /\ admin'[a].pc # "idle")

LEMMA GoesFacts ==
  ASSUME Base, NEW a \in Busy, Goes(a)
  PROVE  /\ Busy \subseteq Admins /\ Busy' \subseteq Busy
         /\ \A b \in Admins \ {a} : admin'[b] = admin[b]
         /\ \A b \in Busy' : admin'[b].op = admin[b].op
         /\ \A b \in Admins : admin'[b].op # "none" => admin'[b].op = admin[b].op
         /\ admin'[a] = Idle \/ admin'[a].op = admin[a].op
<1>1. Idle.op = "none"
  BY DEF Idle
<1> QED
  BY <1>1 DEF Goes, OthersStay, Busy

\* What a request does before it fills or empties the cache leaves the others as alone as they were.
LEMMA ColdKept ==
  ASSUME Base, ColdAlone, NEW a \in Busy, Goes(a), admin'[a].pc # "fill",
         UNCHANGED <<pg, cache, lookup>>
  PROVE  ColdAlone'
<1>1. /\ Busy \subseteq Admins /\ Busy' \subseteq Busy
      /\ \A b \in Admins \ {a} : admin'[b] = admin[b]
      /\ \A b \in Busy' : admin'[b].op = admin[b].op
      /\ \A b \in Admins : admin'[b].op # "none" => admin'[b].op = admin[b].op
  BY GoesFacts
<1>2. ASSUME NEW b \in Admins, admin'[b].op \in Settings, cache' = NoEntry, pg'.status # "ENDED",
             NEW c \in Busy' \ {b}
      PROVE  admin'[c].op = "pause"
  <2>1. admin[b].op \in Settings
    BY <1>1, <1>2, OpsApart
  <2> QED
    BY <1>1, <1>2, <2>1 DEF ColdAlone
<1>3. ASSUME NEW b \in Admins, admin'[b].pc = "fill"
      PROVE  /\ cache' = NoEntry /\ Filling' = {} /\ EntryOf(admin'[b].row) = EntryOf(pg')
             /\ \A c \in Busy' \ {b} : admin'[c].op = "pause"
  <2>1. admin'[b] = admin[b]
    BY <1>1, <1>3
  <2>2. Filling' = Filling
    BY DEF Filling
  <2> QED
    BY <1>1, <1>3, <2>1, <2>2 DEF ColdAlone
<1> QED
  BY <1>2, <1>3 DEF ColdAlone

\* Redis is given the status Postgres has, and with it every transition under way.
LEMMA AgreeRedis ==
  ASSUME Base, Agree, NEW a \in Admins, WriteRedis(a) \/ RedisFails(a)
  PROVE  Agree'
<1> DEFINE op == admin[a].op
<1>1. /\ admin[a].pc = "redis" /\ a \in Busy /\ Under(a) /\ ToRedis
      /\ op \in Transitions /\ pg.status = Target(op)
  BY BusyFacts DEF WriteRedis, RedisFails, Under, ToRedis, Agree, PostgresAgrees
<1>2. /\ UNCHANGED <<pg, cache, lookup, drainOn, timer, booting, lost>>
      /\ last' \in {last, "failed"}
      /\ last' # "failed" => status' = Target(op) /\ last' = last
  BY <1>1 DEF WriteRedis, RedisFails
<1>3. Leaves(a) \/ (MovesTo(a, "process") /\ admin'[a].row = admin[a].row)
  BY AdminMoves DEF Base
<1>4. Goes(a) /\ admin'[a].pc \notin {"fill", "cache"}
  BY <1>3 DEF Goes, Leaves, MovesTo, Idle
<1>5. /\ Busy \subseteq Admins /\ Busy' \subseteq Busy
      /\ \A b \in Admins \ {a} : admin'[b] = admin[b]
      /\ \A b \in Busy' : admin'[b].op = admin[b].op
      /\ \A b \in Admins : admin'[b].op # "none" => admin'[b].op = admin[b].op
  BY <1>1, <1>4, GoesFacts
<1>6. /\ \A b \in Admins : Under(b)' => Under(b) /\ admin'[b].op = admin[b].op
      /\ \A p : Patching(p)' <=> Patching(p)
      /\ Filling' = Filling
  BY <1>1, <1>2, <1>3, <1>4, <1>5 DEF Under, Patching, Leaves, MovesTo, Idle, Filling
<1>7. PostgresAgrees'
  <2>1. \A b \in Busy' : admin'[b].pc # "idle"
    BY <1>1, <1>3, <1>5 DEF Agree, PostgresAgrees, Leaves, MovesTo, Idle, Busy
  <2>2. \A b \in Admins : admin'[b].op \in Opening \cup {"pause"} => pg'.status # "ENDED"
    BY <1>2, <1>5, OpsApart DEF Agree, PostgresAgrees
  <2>3. last' \in Transitions => pg'.status = Target(last')
    BY <1>2, OpsApart DEF Agree, PostgresAgrees
  <2> QED
    BY <1>2, <1>6, <2>1, <2>2, <2>3 DEF Agree, PostgresAgrees
<1>8. RedisAgrees'
  <2>1. last' # "failed" => \A b \in Admins : Under(b)' => status' = Target(admin'[b].op)
    BY <1>1, <1>2, <1>6 DEF Agree, PostgresAgrees
  <2>2. last' \in Transitions => status' = Target(last')
    BY <1>1, <1>2, OpsApart DEF Agree, PostgresAgrees
  <2> QED
    BY <2>1, <2>2 DEF RedisAgrees
<1>9. ProcessAgrees'
  <2>1. last' # "failed" => last' = last
    BY <1>2
  <2>2. \A b \in Admins : admin'[b].pc = "fill" => admin[b].pc = "fill"
    BY <1>4, <1>5
  <2> QED
    BY <1>2, <1>6, <2>1, <2>2, OpsApart DEF Agree, ProcessAgrees
<1>10. ColdAlone'
  BY <1>1, <1>2, <1>4, ColdKept DEF Agree
<1>11. RowsFresh'
  <2>1. \A b \in Admins : admin'[b].op # "none" => admin'[b].row = admin[b].row
    BY <1>3, <1>5 DEF Leaves, MovesTo, Idle
  <2>2. \A b \in Admins : admin'[b].pc = "cache" => admin[b].pc = "cache"
    BY <1>4, <1>5
  <2> QED
    BY <1>2, <1>5, <1>6, <2>1, <2>2, OpsApart DEF Agree, RowsFresh, Settings
<1>12. CacheFresh'
  BY <1>2, <1>6 DEF Agree, CacheFresh
<1> QED
  BY <1>7, <1>8, <1>9, <1>10, <1>11, <1>12 DEF Agree

\* The last step of a transition, in the process.
LEMMA AgreeFinish ==
  ASSUME Together \subseteq Orderly, Base, Agree, NEW a \in Admins,
         FinishOpening(a) \/ FinishPause(a) \/ FinishClosing(a)
  PROVE  Agree'
<1> DEFINE op == admin[a].op
<1>1. /\ admin[a].pc = "process" /\ a \in Busy /\ Under(a)
      /\ op \in Transitions /\ pg.status = Target(op)
  BY BusyFacts DEF FinishOpening, FinishPause, FinishClosing, Finish, Under, Agree, PostgresAgrees
<1>2. /\ UNCHANGED <<pg, status, lookup, booting, lost>>
      /\ last' = IF last = "failed" THEN last ELSE op
  BY DEF FinishOpening, FinishPause, FinishClosing, Finish
<1>3. Leaves(a)
  BY AdminMoves DEF Base
<1>4. Goes(a) /\ admin'[a].pc \notin {"fill", "cache", "redis", "process"} /\ admin'[a].op = "none"
  BY <1>3 DEF Goes, Leaves, Idle
<1>5. /\ Busy \subseteq Admins /\ Busy' \subseteq Busy /\ a \notin Busy'
      /\ \A b \in Admins \ {a} : admin'[b] = admin[b]
      /\ \A b \in Busy' : admin'[b].op = admin[b].op
      /\ \A b \in Admins : admin'[b].op # "none" => b # a /\ admin'[b] = admin[b]
  BY <1>1, <1>4, GoesFacts DEF Busy
<1>6. /\ \A b \in Admins : Under(b)' => Under(b) /\ admin'[b].op = admin[b].op
      /\ \A p : Patching(p)' <=> Patching(p)
      /\ ToRedis' <=> ToRedis
      /\ Filling' = Filling
  BY <1>1, <1>2, <1>4, <1>5 DEF Under, Patching, ToRedis, Filling
<1>7. PostgresAgrees'
  <2>1. \A b \in Busy' : admin'[b].pc # "idle"
    BY <1>5 DEF Agree, PostgresAgrees
  <2>2. \A b \in Admins : admin'[b].op \in Opening \cup {"pause"} => pg'.status # "ENDED"
    BY <1>2, <1>5, OpsApart DEF Agree, PostgresAgrees
  <2>3. last' \in Transitions => pg'.status = Target(last')
    BY <1>1, <1>2, OpsApart DEF Agree, PostgresAgrees
  <2> QED
    BY <1>2, <1>6, <2>1, <2>2, <2>3 DEF Agree, PostgresAgrees
<1>8. RedisAgrees'
  <2>1. last' # "failed" => last # "failed" /\ last' = op
    BY <1>2
  <2>2. last' # "failed" => \A b \in Admins : Under(b)' => status' = Target(admin'[b].op) \/ ToRedis'
    BY <1>2, <1>6, <2>1 DEF Agree, RedisAgrees
  <2>3. last' \in Transitions => status' = Target(last') \/ ToRedis'
    BY <1>1, <1>2, <1>6, <2>1, OpsApart DEF Agree, RedisAgrees
  <2> QED
    BY <2>2, <2>3 DEF RedisAgrees
<1>9. RowsFresh'
  BY <1>2, <1>5, <1>6, OpsApart DEF Agree, RowsFresh, Settings
<1>10. last' \in Transitions => last' = op
  BY <1>2, OpsApart
<1>11. CASE FinishOpening(a)
  <2>1. op \in Opening /\ cache' = EntryOf(admin[a].row) /\ drainOn'
    BY <1>11 DEF FinishOpening, Finish
  <2>2. \A b \in Busy' : admin[b].op \in Opening
    <3>1. \A b \in Busy' : b \in Busy \ {a}
      BY <1>5
    <3> QED
      BY <1>1, <2>1, <3>1, Neighbours, OpsApart
  <2>3. \A b \in Admins : admin'[b].op # "none" => admin'[b].op \in Opening
    <3>1. \A b \in Admins : admin'[b].op # "none" => b \in Busy'
      BY DEF Busy
    <3> QED
      BY <1>5, <2>2, <3>1
  <2>4. \A b \in Admins : admin'[b].pc \notin {"cache", "fill"}
    BY <1>4, <1>5, <2>3, BusyFacts, OpsApart
  <2>5. ProcessAgrees'
    <3>1. \A b \in Admins : admin'[b].op = "end" /\ Under(b)' => ~timer'
      BY <2>3, OpsApart
    <3>2. last' \in Transitions => last' \in Opening
      BY <1>10, <2>1
    <3>3. last' \notin Transitions \ Opening /\ last' # "end" /\ last' \notin Closing
      BY <3>2 DEF Transitions, Opening, Closing
    <3> QED
      BY <2>1, <3>1, <3>3 DEF ProcessAgrees
  <2>6. ColdAlone'
    BY <2>3, <2>4, OpsApart DEF ColdAlone
  <2>7. CacheFresh'
    BY <1>1, <1>2, <2>1 DEF Agree, RowsFresh, CacheFresh, EntryOf
  <2> QED
    BY <1>7, <1>8, <1>9, <2>5, <2>6, <2>7 DEF Agree
<1>12. CASE FinishPause(a)
  <2>1. op = "pause" /\ ~drainOn' /\ UNCHANGED <<cache, timer>>
    BY <1>12 DEF FinishPause, Finish
  <2>2. ProcessAgrees'
    <3>1. \A b \in Admins : admin'[b].op = "end" /\ Under(b)' => ~timer'
      BY <1>6, <2>1 DEF Agree, ProcessAgrees
    <3>2. last' \notin Opening /\ last' # "end" /\ last' \notin Closing
      BY <1>10, <2>1 DEF Transitions, Opening, Closing
    <3> QED
      BY <2>1, <3>1, <3>2 DEF ProcessAgrees
  <2>3. ColdAlone'
    BY <1>1, <1>2, <1>4, <2>1, ColdKept DEF Agree
  <2>4. CacheFresh'
    BY <1>2, <1>6, <2>1 DEF Agree, CacheFresh
  <2> QED
    BY <1>7, <1>8, <1>9, <2>2, <2>3, <2>4 DEF Agree
<1>13. CASE FinishClosing(a)
  <2>1. op \in Closing /\ ~drainOn' /\ cache' = NoEntry /\ timer' = timer
    BY <1>13 DEF FinishClosing, Finish
  <2>2. Filling = {}
    BY <1>1, <2>1, Neighbours, OpsApart
  <2>3. \A b \in Admins : admin'[b].pc # "fill"
    BY <1>1, <1>4, <1>5, <2>1, OpsApart DEF Agree, ColdAlone
  <2>4. ProcessAgrees'
    <3>1. \A b \in Admins : admin'[b].op = "end" /\ Under(b)' => ~timer'
      BY <1>6, <2>1 DEF Agree, ProcessAgrees
    <3>2. last' = "end" => ~timer'
      BY <1>1, <1>10, <2>1, OpsApart DEF Agree, ProcessAgrees
    <3>3. last' \notin Opening
      BY <1>10, <2>1 DEF Transitions, Opening, Closing
    <3> QED
      BY <1>6, <2>1, <2>2, <2>3, <3>1, <3>2, <3>3 DEF ProcessAgrees
  <2>5. ColdAlone'
    BY <1>1, <1>2, <2>1, <2>3, Targets DEF ColdAlone
  <2>6. CacheFresh'
    BY <2>1 DEF CacheFresh
  <2> QED
    BY <1>7, <1>8, <1>9, <2>4, <2>5, <2>6 DEF Agree
<1> QED
  BY <1>11, <1>12, <1>13

LEMMA WrittenFields ==
  ASSUME pg \in Row
  PROVE  /\ \A op \in Settings : Written(op).status = pg.status
         /\ Written("rotate").url = pg.url /\ Written("update").secret = pg.secret
         /\ \A op \in Transitions : /\ Written(op).status = Target(op)
                                    /\ Written(op).secret = pg.secret /\ Written(op).url = pg.url
  BY DEF Written, Row, Settings, Transitions, Opening, Closing

\* What the writes to Postgres, done or failed, have in common.
LEMMA PostgresStep ==
  ASSUME Base, Agree, NEW a \in Admins, WritePostgres(a) \/ PostgresFails(a)
  PROVE  /\ admin[a].pc = "postgres" /\ a \in Busy /\ admin[a].op \in Ops /\ pg \in Row
         /\ UNCHANGED <<status, cache, lookup, drainOn, booting>>
         /\ pg' \in {pg, Written(admin[a].op)}
         /\ Goes(a) /\ admin'[a].pc \notin {"fill", "process"}
         /\ timer' => timer
         /\ timer' => admin[a].op # "end"
  BY AdminMoves, BusyFacts, Zenon
     DEF WritePostgres, PostgresFails, Base, OpenInv, TypeOK, TypeStores, Goes, Leaves, MovesTo, Idle, TimerAtWrite

\* A settings request changes no status, and the caches that would miss it are not being filled.
LEMMA AgreeSettings ==
  ASSUME Together \subseteq Orderly, Base, Agree, NEW a \in Admins, WritePostgres(a) \/ PostgresFails(a),
         admin[a].op \in Settings
  PROVE  Agree'
<1> DEFINE op == admin[a].op
<1>1. /\ admin[a].pc = "postgres" /\ a \in Busy /\ pg \in Row
      /\ UNCHANGED <<status, cache, lookup, drainOn, booting>>
      /\ pg' \in {pg, Written(op)}
      /\ Goes(a) /\ admin'[a].pc \notin {"fill", "process"}
      /\ timer' => timer
  BY PostgresStep
<1>2. last' = last /\ (PostgresFails(a) => lost') /\ (WritePostgres(a) => lost' = lost /\ pg' = Written(op))
  BY DEF WritePostgres, PostgresFails
<1>3. pg'.status = pg.status
  BY <1>1, WrittenFields
<1>4. /\ WritePostgres(a) => MovesTo(a, "cache") /\ admin'[a].row = Written(op)
      /\ PostgresFails(a) => Leaves(a)
  BY AdminMoves, OpsApart DEF Base
<1>5. /\ Busy \subseteq Admins /\ Busy' \subseteq Busy
      /\ \A b \in Admins \ {a} : admin'[b] = admin[b]
      /\ \A b \in Busy' : admin'[b].op = admin[b].op
      /\ \A b \in Admins : admin'[b].op # "none" => admin'[b].op = admin[b].op
  BY <1>1, GoesFacts
<1>6. admin'[a].pc # "redis"
  BY <1>4 DEF MovesTo, Leaves, Idle
<1>7. /\ \A b \in Admins : Under(b)' => Under(b) /\ admin'[b].op = admin[b].op
      /\ ToRedis' <=> ToRedis
      /\ Filling' = Filling
  BY <1>1, <1>5, <1>6 DEF Under, ToRedis, Filling, Goes, Idle
<1>8. Filling = {} /\ \A b \in Busy \ {a} : admin[b].op \in Closing \cup {"pause"} \cup (Settings \ {op})
  BY <1>1, Neighbours, OpsApart
<1>9. \A b \in Admins : admin[b].pc # "fill" /\ admin'[b].pc # "fill"
  BY <1>1, <1>5, OpsApart DEF Agree, ColdAlone
<1>10. PostgresAgrees'
  <2>1. \A b \in Busy' : admin'[b].pc # "idle"
    BY <1>1, <1>5 DEF Agree, PostgresAgrees, Goes, Busy, Idle
  <2>2. \A b \in Admins : admin'[b].op \in Opening \cup {"pause"} => pg'.status # "ENDED"
    BY <1>3, <1>5, OpsApart DEF Agree, PostgresAgrees
  <2> QED
    BY <1>1, <1>2, <1>3, <1>7, <2>1, <2>2 DEF Agree, PostgresAgrees
<1>11. RedisAgrees'
  BY <1>1, <1>2, <1>7 DEF Agree, RedisAgrees
<1>12. ProcessAgrees'
  <2>1. \A b \in Admins : admin'[b].op = "end" /\ Under(b)' => ~timer'
    BY <1>1, <1>7 DEF Agree, ProcessAgrees
  <2> QED
    BY <1>1, <1>2, <1>7, <1>9, <2>1, Zenon DEF Agree, ProcessAgrees
<1>13. ColdAlone'
  <2>1. ASSUME NEW b \in Admins, admin'[b].op \in Settings, cache' = NoEntry, pg'.status # "ENDED",
               NEW c \in Busy' \ {b}
        PROVE  admin'[c].op = "pause"
    <3>1. admin[b].op \in Settings
      BY <1>5, <2>1, OpsApart
    <3> QED
      BY <1>1, <1>3, <1>5, <2>1, <3>1 DEF Agree, ColdAlone
  <2> QED
    BY <1>9, <2>1 DEF ColdAlone
<1>14. RowsFresh'
  <2>1. \A b \in Admins : admin'[b].op \notin Opening
    <3>1. ASSUME NEW b \in Admins, admin'[b].op \in Opening PROVE FALSE
      <4>1. admin[b].op \in Opening /\ b # a
        BY <1>5, <3>1, OpsApart DEF Opening, Settings
      <4>2. b \in Busy \ {a}
        BY <4>1 DEF Busy, Opening
      <4> QED
        BY <1>8, <4>1, <4>2 DEF Opening, Closing, Settings
    <3> QED
      BY <3>1
  <2>2. ASSUME NEW b \in Admins, admin'[b].pc = "cache", admin'[b].op \in Settings, b # a
        PROVE  admin[b] = admin'[b] /\ admin[b].op # op
    <3>1. b \in Busy \ {a} /\ admin[b] = admin'[b]
      BY <1>5, <2>2, OpsApart DEF Busy, Settings
    <3> QED
      BY <1>8, <2>2, <3>1 DEF Closing, Settings
  <2>3. admin'[a].pc = "cache" => admin'[a].op = op /\ admin'[a].row = pg'
    BY <1>2, <1>4 DEF MovesTo, Leaves, Idle
  <2>4. \A b \in Admins : admin'[b].op = "rotate" /\ admin'[b].pc = "cache" => admin'[b].row.secret = pg'.secret
    <3>1. ASSUME NEW b \in Admins, b # a, admin'[b].op = "rotate", admin'[b].pc = "cache"
          PROVE  admin'[b].row.secret = pg'.secret
      <4>1. admin[b] = admin'[b] /\ op = "update"
        BY <2>2, <3>1 DEF Settings
      <4> QED
        BY <1>1, <3>1, <4>1, WrittenFields DEF Agree, RowsFresh
    <3> QED
      BY <2>3, <3>1
  <2>5. \A b \in Admins : admin'[b].op = "update" /\ admin'[b].pc = "cache" => admin'[b].row.url = pg'.url
    <3>1. ASSUME NEW b \in Admins, b # a, admin'[b].op = "update", admin'[b].pc = "cache"
          PROVE  admin'[b].row.url = pg'.url
      <4>1. admin[b] = admin'[b] /\ op = "rotate"
        BY <2>2, <3>1 DEF Settings
      <4> QED
        BY <1>1, <3>1, <4>1, WrittenFields DEF Agree, RowsFresh
    <3> QED
      BY <2>3, <3>1
  <2> QED
    BY <1>7, <1>8, <2>1, <2>4, <2>5 DEF RowsFresh
<1>15. CacheFresh'
  <2>1. CASE PostgresFails(a)
    BY <1>2, <2>1 DEF CacheFresh
  <2>2. CASE WritePostgres(a)
    <3>1. \A p : p = op \/ Patching(p) => Patching(p)'
      BY <1>1, <1>4, <1>5, <2>2 DEF Patching, MovesTo
    <3>2. ~lost' => ~lost
      BY <1>2, <2>2
    <3>3. CASE op = "rotate"
      <4>1. Patching("rotate")' /\ (Patching("update") => Patching("update")') /\ pg'.url = pg.url
        BY <1>1, <3>1, <3>3, WrittenFields
      <4> QED
        BY <1>1, <3>2, <4>1 DEF Agree, CacheFresh
    <3>4. CASE op = "update"
      <4>1. Patching("update")' /\ (Patching("rotate") => Patching("rotate")') /\ pg'.secret = pg.secret
        BY <1>1, <3>1, <3>4, WrittenFields
      <4> QED
        BY <1>1, <3>2, <4>1 DEF Agree, CacheFresh
    <3> QED
      BY <3>3, <3>4 DEF Settings
  <2> QED
    BY <2>1, <2>2
<1> QED
  BY <1>10, <1>11, <1>12, <1>13, <1>14, <1>15 DEF Agree

\* A transition's write leaves the settings alone, and what is beside it goes the same way.
LEMMA AgreeTransition ==
  ASSUME Together \subseteq Orderly, Base, Agree, NEW a \in Admins, WritePostgres(a) \/ PostgresFails(a),
         admin[a].op \in Transitions
  PROVE  Agree'
<1> DEFINE op == admin[a].op
<1>1. /\ admin[a].pc = "postgres" /\ a \in Busy /\ pg \in Row
      /\ UNCHANGED <<status, cache, lookup, drainOn, booting>>
      /\ pg' \in {pg, Written(op)}
      /\ Goes(a) /\ admin'[a].pc \notin {"fill", "process"}
      /\ timer' => timer
      /\ timer' => op # "end"
  BY PostgresStep
<1>2. op \notin Settings
  BY OpsApart
<1>3. /\ last' \in {"none", "failed"}
      /\ last' # "failed" => WritePostgres(a)
      /\ WritePostgres(a) => pg' = Written(op)
      /\ ~lost' => ~lost
  <2>1. ~lost' => ~lost
    BY Zenon DEF WritePostgres, PostgresFails
  <2> QED
    BY <1>2, <2>1 DEF WritePostgres, PostgresFails
<1>4. /\ WritePostgres(a) => MovesTo(a, "redis") /\ admin'[a].row = admin[a].row
      /\ PostgresFails(a) => Leaves(a)
  BY <1>2, AdminMoves DEF Base
<1>5. /\ Busy \subseteq Admins /\ Busy' \subseteq Busy
      /\ \A b \in Admins \ {a} : admin'[b] = admin[b]
      /\ \A b \in Busy' : admin'[b].op = admin[b].op
      /\ \A b \in Admins : admin'[b].op # "none" => admin'[b].op = admin[b].op
  BY <1>1, GoesFacts
<1>6. admin'[a].pc # "cache"
  BY <1>4 DEF MovesTo, Leaves, Idle
<1>7. /\ pg'.status \in {pg.status, Target(op)}
      /\ WritePostgres(a) => pg'.status = Target(op)
      /\ pg'.secret = pg.secret /\ pg'.url = pg.url /\ EntryOf(pg') = EntryOf(pg)
  BY <1>1, <1>3, WrittenFields DEF EntryOf
<1>8. \A b \in Busy \ {a} : admin[b].op \in Ops /\ Compatible(op, admin[b].op)
  BY <1>1, Neighbours
<1>9. /\ \A b \in Admins \ {a} : Under(b)' => Under(b) /\ admin'[b] = admin[b] /\ b \in Busy
      /\ \A p : Patching(p)' <=> Patching(p)
      /\ Filling' = Filling
  BY <1>1, <1>5, <1>6, BusyFacts DEF Under, Patching, Filling
<1>10. last' \notin Transitions
  BY <1>3 DEF Transitions, Opening, Closing
<1>11. op \in Opening \cup {"pause"} => pg.status # "ENDED"
  BY DEF Agree, PostgresAgrees
<1>12. PostgresAgrees'
  <2>1. \A b \in Busy' : admin'[b].pc # "idle"
    BY <1>1, <1>5 DEF Agree, PostgresAgrees, Goes, Busy, Idle
  <2>2. ASSUME NEW b \in Admins, Under(b)'
        PROVE  admin'[b].op \in Transitions /\ pg'.status = Target(admin'[b].op)
    <3>1. CASE b = a
      BY <1>4, <1>7, <2>2, <3>1 DEF Under, MovesTo, Leaves, Idle
    <3>2. CASE b # a
      <4>1. admin'[b] = admin[b] /\ Under(b) /\ b \in Busy \ {a}
        BY <1>9, <2>2, <3>2
      <4>2. admin[b].op \in Transitions /\ pg.status = Target(admin[b].op)
        BY <4>1 DEF Agree, PostgresAgrees
      <4>3. Target(op) = Target(admin[b].op)
        BY <1>8, <4>1, <4>2, OpsApart
      <4> QED
        BY <1>7, <4>1, <4>2, <4>3
    <3> QED
      BY <3>1, <3>2
  <2>3. ASSUME NEW b \in Admins, admin'[b].op \in Opening \cup {"pause"}
        PROVE  pg'.status # "ENDED"
    <3>1. admin[b].op \in Opening \cup {"pause"} /\ b \in Busy
      BY <1>5, <2>3 DEF Opening, Busy
    <3>2. op \notin Closing
      BY <1>8, <3>1 DEF Compatible, Opening, Closing, Settings
    <3>3. Target(op) # "ENDED"
      BY <3>2, Targets
    <3>4. pg.status # "ENDED"
      BY <3>1 DEF Agree, PostgresAgrees
    <3> QED
      BY <1>7, <3>3, <3>4
  <2>4. booting' = "start" => pg'.status = "ACTIVE"
    <3> SUFFICES ASSUME booting = "start" PROVE pg'.status = "ACTIVE"
      BY <1>1
    <3>1. op \in Opening \cup Settings
      BY <1>1, Neighbours
    <3>2. Target(op) = "ACTIVE"
      BY <1>2, <3>1, Targets
    <3> QED
      BY <1>7, <3>2 DEF Agree, PostgresAgrees
  <2> QED
    BY <1>10, <2>1, <2>2, <2>3, <2>4 DEF PostgresAgrees
<1>13. RedisAgrees'
  <2>1. last' # "failed" => ToRedis'
    BY <1>3, <1>4 DEF ToRedis, MovesTo
  <2> QED
    BY <1>10, <2>1 DEF RedisAgrees
<1>14. ProcessAgrees'
  <2>1. ASSUME NEW b \in Admins, admin'[b].op = "end", Under(b)' PROVE ~timer'
    <3>1. CASE b = a
      BY <1>1, <1>5, <2>1, <3>1
    <3>2. CASE b # a
      BY <1>1, <1>9, <2>1, <3>2 DEF Agree, ProcessAgrees
    <3> QED
      BY <3>1, <3>2
  <2>2. last' \notin Opening /\ last' \notin Closing /\ last' # "end"
    BY <1>10 DEF Transitions, Closing
  <2> QED
    BY <1>10, <2>1, <2>2 DEF ProcessAgrees
<1>15. ColdAlone'
  <2>1. pg'.status # "ENDED" => pg.status # "ENDED"
    <3>1. CASE op \in Closing
      BY <1>7, <3>1, Targets
    <3>2. CASE op \notin Closing
      BY <1>11, <3>2, Targets
    <3> QED
      BY <3>1, <3>2
  <2>2. ASSUME NEW b \in Admins, admin'[b].op \in Settings, cache' = NoEntry, pg'.status # "ENDED",
               NEW c \in Busy' \ {b}
        PROVE  admin'[c].op = "pause"
    <3>1. admin[b].op \in Settings
      BY <1>5, <2>2, OpsApart
    <3> QED
      BY <1>1, <1>5, <2>1, <2>2, <3>1 DEF Agree, ColdAlone
  <2>3. ASSUME NEW b \in Admins, admin'[b].pc = "fill"
        PROVE  /\ cache' = NoEntry /\ Filling' = {} /\ EntryOf(admin'[b].row) = EntryOf(pg')
               /\ \A c \in Busy' \ {b} : admin'[c].op = "pause"
    <3>1. admin'[b] = admin[b]
      BY <1>1, <1>5, <2>3
    <3> QED
      BY <1>1, <1>5, <1>7, <1>9, <2>3, <3>1 DEF Agree, ColdAlone
  <2> QED
    BY <2>2, <2>3 DEF ColdAlone
<1>16. RowsFresh'
  <2>1. \A b \in Admins : admin'[b].op # "none" => admin'[b].row = admin[b].row
    BY <1>4, <1>5 DEF Leaves, MovesTo, Idle
  <2>2. \A b \in Admins : admin'[b].pc = "cache" => admin[b].pc = "cache"
    BY <1>5, <1>6
  <2>3. \A b \in Admins : admin'[b].op \in Opening => EntryOf(admin'[b].row) = EntryOf(pg')
    BY <1>5, <1>7, <2>1 DEF Agree, RowsFresh, Opening
  <2>4. \A l \in Filling' : lookup'[l] = EntryOf(pg')
    BY <1>1, <1>7, <1>9 DEF Agree, RowsFresh
  <2> QED
    BY <1>5, <1>7, <2>1, <2>2, <2>3, <2>4 DEF Agree, RowsFresh
<1>17. CacheFresh'
  BY <1>1, <1>3, <1>7, <1>9 DEF Agree, CacheFresh
<1> QED
  BY <1>12, <1>13, <1>14, <1>15, <1>16, <1>17 DEF Agree

\* What a settings request does after its write: the cached entry gets the field it wrote, or
\* an active event that is not cached gets its row.
LEMMA AgreePatch ==
  ASSUME Together \subseteq Orderly, Base, Agree, NEW a \in Admins,
         PatchHit(a) \/ PatchMiss(a) \/ PatchFill(a)
  PROVE  Agree'
<1> DEFINE op == admin[a].op
<1>1. /\ admin[a].pc \in {"cache", "fill"} /\ a \in Busy /\ op \in Settings
      /\ UNCHANGED <<pg, status, lookup, drainOn, timer, booting, last, lost>>
  BY BusyFacts DEF PatchHit, PatchMiss, PatchFill
<1>2. /\ PatchHit(a) \/ PatchFill(a) => Leaves(a)
      /\ PatchMiss(a) => Leaves(a) \/ (pg.status = "ACTIVE" /\ MovesTo(a, "fill") /\ admin'[a].row = pg)
  <2>1. ASSUME admin[a].pc = "cache" PROVE Patched(a, pg) = pg
    <3>1. pg \in Row /\ (op = "rotate" => admin[a].row.secret = pg.secret)
                    /\ (op = "update" => admin[a].row.url = pg.url)
      BY <2>1 DEF Agree, RowsFresh, Base, OpenInv, TypeOK, TypeStores
    <3> QED
      BY <1>1, <3>1 DEF Patched, Row, Settings
  <2>2. PatchMiss(a) => admin[a].pc = "cache"
    BY DEF PatchMiss
  <2> QED
    BY <2>1, <2>2, AdminMoves DEF Base
<1>3. Goes(a) /\ admin'[a].pc \notin {"redis", "process", "cache"}
  BY <1>2 DEF Goes, Leaves, MovesTo, Idle
<1>4. /\ Busy \subseteq Admins /\ Busy' \subseteq Busy
      /\ \A b \in Admins \ {a} : admin'[b] = admin[b]
      /\ \A b \in Busy' : admin'[b].op = admin[b].op
      /\ \A b \in Admins : admin'[b].op # "none" => admin'[b].op = admin[b].op
  BY <1>1, <1>3, GoesFacts
<1>5. /\ \A b \in Admins : Under(b)' => Under(b) /\ admin'[b].op = admin[b].op
      /\ ToRedis' <=> ToRedis
      /\ Filling' = Filling
  BY <1>1, <1>3, <1>4 DEF Under, ToRedis, Filling
<1>6. PostgresAgrees'
  <2>1. \A b \in Busy' : admin'[b].pc # "idle"
    BY <1>3, <1>4 DEF Agree, PostgresAgrees, Goes, Busy, Idle
  <2>2. \A b \in Admins : admin'[b].op \in Opening \cup {"pause"} => pg'.status # "ENDED"
    BY <1>1, <1>4, OpsApart DEF Agree, PostgresAgrees
  <2> QED
    BY <1>1, <1>5, <2>1, <2>2 DEF Agree, PostgresAgrees
<1>7. RedisAgrees'
  BY <1>1, <1>5 DEF Agree, RedisAgrees
<1>8. RowsFresh'
  <2>1. \A b \in Admins : admin'[b].op \in Opening \/ admin'[b].pc = "cache" => b # a /\ admin'[b] = admin[b]
    <3>1. admin'[a].op \notin Opening
      BY <1>1, <1>4, OpsApart DEF Opening, Settings
    <3> QED
      BY <1>3, <1>4, <3>1
  <2> QED
    BY <1>1, <1>5, <2>1 DEF Agree, RowsFresh
\* What ProcessAgrees says of the cache, and of the fills, is left.
<1>9. ASSUME last \in Closing => cache' = NoEntry /\ Filling = {} /\ \A b \in Admins : admin'[b].pc # "fill"
      PROVE  ProcessAgrees'
  <2>1. \A b \in Admins : admin'[b].op = "end" /\ Under(b)' => ~timer'
    BY <1>1, <1>5 DEF Agree, ProcessAgrees
  <2> QED
    BY <1>1, <1>5, <1>9, <2>1, Zenon DEF Agree, ProcessAgrees
<1>10. CASE PatchHit(a)
  <2>1. admin[a].pc = "cache" /\ cache # NoEntry /\ cache' = Patched(a, cache) /\ Leaves(a)
    BY <1>2, <1>10 DEF PatchHit
  <2>2. /\ cache' # NoEntry
        /\ op = "rotate" => cache'.secret = admin[a].row.secret /\ cache'.url = cache.url
        /\ op = "update" => cache'.url = admin[a].row.url /\ cache'.secret = cache.secret
    <3>1. cache \in Entry /\ admin[a].row \in Row
      BY <2>1 DEF Base, OpenInv, TypeOK, TypeCache, Request
    <3>2. Patched(a, cache) \in Entry
      BY <3>1 DEF Patched, Entry, Row
    <3>3. cache' # NoEntry
      BY <2>1, <3>2, LifecycleAssumption DEF Entry
    <3> QED
      BY <2>1, <3>1, <3>3 DEF Patched, Entry, Row
  <2>3. \A b \in Admins : admin'[b].pc # "fill"
    BY <1>4, <2>1 DEF Agree, ColdAlone, Leaves, Idle
  <2>4. last \notin Closing
    BY <2>1 DEF Agree, ProcessAgrees
  <2>5. ProcessAgrees'
    BY <1>9, <2>4
  <2>6. ColdAlone'
    BY <2>2, <2>3 DEF ColdAlone
  <2>7. CacheFresh'
    <3>1. \A p : p # op /\ Patching(p) => Patching(p)'
      BY <1>4 DEF Patching
    <3>2. CASE op = "rotate"
      <4>1. cache'.secret = pg.secret /\ cache'.url = cache.url /\ (Patching("update") => Patching("update")')
        BY <2>1, <2>2, <3>1, <3>2 DEF Agree, RowsFresh
      <4> QED
        BY <1>1, <2>1, <4>1 DEF Agree, CacheFresh
    <3>3. CASE op = "update"
      <4>1. cache'.url = pg.url /\ cache'.secret = cache.secret /\ (Patching("rotate") => Patching("rotate")')
        BY <2>1, <2>2, <3>1, <3>3 DEF Agree, RowsFresh
      <4> QED
        BY <1>1, <2>1, <4>1 DEF Agree, CacheFresh
    <3> QED
      BY <1>1, <3>2, <3>3 DEF Settings
  <2> QED
    BY <1>6, <1>7, <1>8, <2>5, <2>6, <2>7 DEF Agree
<1>11. CASE PatchMiss(a)
  <2>1. admin[a].pc = "cache" /\ cache = NoEntry /\ cache' = cache
    BY <1>11 DEF PatchMiss
  <2>2. CacheFresh'
    BY <2>1 DEF CacheFresh
  <2>3. CASE Leaves(a)
    <3>1. admin'[a].pc # "fill"
      BY <2>3 DEF Leaves, Idle
    <3>2. ColdAlone'
      BY <1>1, <1>3, <2>1, <3>1, ColdKept DEF Agree
    <3>3. ProcessAgrees'
      BY <1>4, <1>9, <2>1, <3>1 DEF Agree, ProcessAgrees
    <3> QED
      BY <1>6, <1>7, <1>8, <2>2, <3>2, <3>3 DEF Agree
  <2>4. CASE pg.status = "ACTIVE" /\ MovesTo(a, "fill") /\ admin'[a].row = pg
    <3>1. last \notin Closing
      BY <2>4, Targets, OpsApart DEF Agree, PostgresAgrees
    <3>2. ProcessAgrees'
      BY <1>9, <3>1
    <3>3. Filling = {}
      BY <1>1, Neighbours, OpsApart DEF Settings, Opening
    <3>4. ASSUME NEW b \in Admins, admin'[b].op \in Settings, cache' = NoEntry, pg'.status # "ENDED",
                 NEW c \in Busy' \ {b}
          PROVE  admin'[c].op = "pause"
      <4>1. admin[b].op \in Settings
        BY <1>4, <3>4, OpsApart
      <4> QED
        BY <1>1, <1>4, <2>1, <3>4, <4>1 DEF Agree, ColdAlone
    <3>5. ASSUME NEW b \in Admins, admin'[b].pc = "fill"
          PROVE  /\ cache' = NoEntry /\ Filling' = {} /\ EntryOf(admin'[b].row) = EntryOf(pg')
                 /\ \A c \in Busy' \ {b} : admin'[c].op = "pause"
      <4>1. CASE b = a
        BY <1>1, <1>4, <1>5, <2>1, <2>4, <3>3, <4>1 DEF Agree, ColdAlone
      <4>2. CASE b # a
        BY <1>1, <1>4, <1>5, <2>1, <3>5, <4>2 DEF Agree, ColdAlone
      <4> QED
        BY <4>1, <4>2
    <3>6. ColdAlone'
      BY <3>4, <3>5 DEF ColdAlone
    <3> QED
      BY <1>6, <1>7, <1>8, <2>2, <3>2, <3>6 DEF Agree
  <2> QED
    BY <1>2, <1>11, <2>3, <2>4
<1>12. CASE PatchFill(a)
  <2>1. admin[a].pc = "fill" /\ cache' = EntryOf(admin[a].row) /\ Leaves(a)
    BY <1>2, <1>12 DEF PatchFill
  <2>2. cache' = EntryOf(pg) /\ \A b \in Busy \ {a} : admin[b].op = "pause"
    BY <2>1 DEF Agree, ColdAlone
  <2>3. \A b \in Admins : admin'[b].op \notin Settings /\ admin'[b].pc # "fill"
    <3>1. ASSUME NEW b \in Admins, b # a PROVE admin'[b].op \notin Settings /\ admin'[b].pc # "fill"
      <4>1. admin[b].op \in Settings \/ admin[b].pc = "fill" => b \in Busy /\ admin[b].op \in Settings
        BY BusyFacts, OpsApart DEF Settings
      <4>2. ~(b \in Busy /\ admin[b].op \in Settings)
        BY <2>2, <3>1 DEF Settings
      <4> QED
        BY <1>4, <3>1, <4>1, <4>2
    <3> QED
      BY <2>1, <3>1 DEF Leaves, Idle, Settings
  <2>4. ProcessAgrees'
    <3>1. last \notin Closing
      BY <2>1 DEF Agree, ProcessAgrees
    <3> QED
      BY <1>9, <3>1
  <2>5. ColdAlone'
    BY <2>3 DEF ColdAlone
  <2>6. CacheFresh'
    BY <1>1, <2>2 DEF CacheFresh, EntryOf
  <2> QED
    BY <1>6, <1>7, <1>8, <2>4, <2>5, <2>6 DEF Agree
<1> QED
  BY <1>10, <1>11, <1>12

\* A user request starts a fill of an active event that is not cached, beside nothing that would miss it.
LEMMA AgreeLookupMiss ==
  ASSUME Together \subseteq Orderly, Base, Agree, NEW l \in Lookups, LookupMiss(l)
  PROVE  Agree'
<1>1. /\ cache = NoEntry /\ pg.status = "ACTIVE"
      /\ UNCHANGED <<pg, status, cache, drainOn, timer, booting, admin, last, lost>>
  BY DEF LookupMiss
<1>2. \A b \in Busy : admin[b].op \in Opening \cup {"pause"}
  <2>1. ASSUME NEW b \in Busy PROVE admin[b].op \in Opening \cup {"pause"}
    <3>1. {"lookup", admin[b].op} = {admin[b].op, "lookup"}
      OBVIOUS
    <3>2. {admin[b].op, "lookup"} \in Together
      BY <3>1 DEF LookupMiss
    <3>3. admin[b].op \in Ops
      BY Neighbours
    <3> QED
      BY <3>2, <3>3, OrderlyPairs
  <2> QED
    BY <2>1
<1>3. \A k \in Filling' : lookup'[k] = EntryOf(pg)
  <2>1. lookup \in [Lookups -> Entry \cup {NoEntry}]
    BY DEF Base, OpenInv, TypeOK, TypeCache
  <2> QED
    BY <2>1 DEF LookupMiss, Filling, Agree, RowsFresh
<1>4. /\ \A b : Under(b)' <=> Under(b)
      /\ ToRedis' <=> ToRedis
      /\ \A p : Patching(p)' <=> Patching(p)
      /\ Busy' = Busy
  BY <1>1 DEF Under, ToRedis, Patching, Busy
<1>5. \A b \in Admins : admin[b].pc # "fill"
  BY <1>2, BusyFacts DEF Opening, Settings
<1>6. last \notin Closing
  BY <1>1, Targets, OpsApart DEF Agree, PostgresAgrees
<1>7. PostgresAgrees' /\ RedisAgrees'
  BY <1>1, <1>4 DEF Agree, PostgresAgrees, RedisAgrees
<1>8. ProcessAgrees'
  <2>1. \A b \in Admins : admin'[b].op = "end" /\ Under(b)' => ~timer'
    BY <1>1, <1>4 DEF Agree, ProcessAgrees
  <2> QED
    BY <1>1, <1>6, <2>1, Zenon DEF Agree, ProcessAgrees
<1>9. ColdAlone'
  BY <1>1, <1>4, <1>5 DEF Agree, ColdAlone
<1>10. RowsFresh'
  BY <1>1, <1>3 DEF Agree, RowsFresh
<1>11. CacheFresh'
  BY <1>1 DEF CacheFresh
<1> QED
  BY <1>7, <1>8, <1>9, <1>10, <1>11 DEF Agree

LEMMA AgreeLookupFill ==
  ASSUME Together \subseteq Orderly, Base, Agree, NEW l \in Lookups, LookupFill(l)
  PROVE  Agree'
<1>1. /\ l \in Filling /\ cache' = lookup[l] /\ cache' # NoEntry
      /\ UNCHANGED <<pg, status, drainOn, timer, booting, admin, last, lost>>
  BY DEF LookupFill, Filling
<1>2. Filling' \subseteq Filling /\ \A k \in Filling' : lookup'[k] = lookup[k]
  BY DEF LookupFill, Filling
<1>3. \A b \in Busy : admin[b].op \in Opening \cup {"pause"}
  BY <1>1, Neighbours
<1>4. /\ \A b : Under(b)' <=> Under(b)
      /\ ToRedis' <=> ToRedis
      /\ Busy' = Busy
  BY <1>1 DEF Under, ToRedis, Busy
<1>5. \A b \in Admins : admin[b].pc # "fill"
  BY <1>3, BusyFacts DEF Opening, Settings
<1>6. last \notin Closing
  BY <1>1 DEF Agree, ProcessAgrees
<1>7. PostgresAgrees' /\ RedisAgrees'
  BY <1>1, <1>4 DEF Agree, PostgresAgrees, RedisAgrees
<1>8. ProcessAgrees'
  <2>1. \A b \in Admins : admin'[b].op = "end" /\ Under(b)' => ~timer'
    BY <1>1, <1>4 DEF Agree, ProcessAgrees
  <2> QED
    BY <1>1, <1>6, <2>1, Zenon DEF Agree, ProcessAgrees
<1>9. ColdAlone'
  BY <1>1, <1>5 DEF ColdAlone
<1>10. RowsFresh'
  BY <1>1, <1>2 DEF Agree, RowsFresh
<1>11. CacheFresh'
  BY <1>1 DEF Agree, RowsFresh, CacheFresh, EntryOf
<1> QED
  BY <1>7, <1>8, <1>9, <1>10, <1>11 DEF Agree

\* What a crash leaves of the process agrees with whatever the stores have.
LEMMA AgreeCrash == ASSUME Base, Agree, Crash PROVE Agree'
<1>1. /\ cache' = NoEntry /\ ~drainOn' /\ ~timer' /\ booting' = "read"
      /\ UNCHANGED <<pg, status, lost>>
      /\ \A b \in Admins : admin'[b].op = "none" /\ admin'[b].pc = "idle"
      /\ last' \in {last, "failed"}
      /\ last' # "failed" => last' = last /\ \A b \in Busy : admin[b].op \notin Transitions
  BY DEF Crash, Idle
<1>2. Filling' = {} /\ Busy' = {} /\ \A b \in Admins : ~Under(b)'
  BY <1>1 DEF Crash, Filling, Busy, Under
<1>3. "failed" \notin Transitions /\ "none" \notin Opening \cup {"pause", "end", "rotate", "update"} \cup Settings
  BY DEF Transitions, Opening, Closing, Settings
<1>4. last' \in Transitions => ~ToRedis
  BY <1>1, <1>3, BusyFacts DEF Agree, PostgresAgrees, ToRedis, Under
<1>5. PostgresAgrees'
  BY <1>1, <1>2, <1>3 DEF Agree, PostgresAgrees
<1>6. RedisAgrees'
  BY <1>1, <1>2, <1>3, <1>4 DEF Agree, RedisAgrees
<1>7. ProcessAgrees'
  BY <1>1, <1>2 DEF ProcessAgrees
<1>8. ColdAlone' /\ RowsFresh' /\ CacheFresh'
  BY <1>1, <1>2, <1>3 DEF ColdAlone, RowsFresh, CacheFresh
<1> QED
  BY <1>5, <1>6, <1>7, <1>8 DEF Agree

\* The drains that a restart starts are those of the events that are active.
LEMMA AgreeBoot == ASSUME Base, Agree, InitDrainsRead \/ InitDrainsStart PROVE Agree'
<1>1. UNCHANGED <<pg, status, cache, lookup, timer, admin, last, lost>>
  BY DEF InitDrainsRead, InitDrainsStart
<1>2. /\ \A b : Under(b)' <=> Under(b)
      /\ ToRedis' <=> ToRedis
      /\ \A p : Patching(p)' <=> Patching(p)
      /\ Busy' = Busy /\ Filling' = Filling
  BY <1>1 DEF Under, ToRedis, Patching, Busy, Filling
<1>3. booting' = "start" => pg.status = "ACTIVE"
  BY DEF InitDrainsRead, InitDrainsStart
<1>4. /\ last \in Opening => pg.status = "ACTIVE"
      /\ last \in Transitions \ Opening => pg.status # "ACTIVE"
  BY Targets, OpsApart DEF Agree, PostgresAgrees
<1>5. last \in Transitions \ Opening => ~drainOn'
  <2>1. CASE InitDrainsRead
    BY <2>1, Zenon DEF InitDrainsRead, Agree, ProcessAgrees
  <2>2. CASE InitDrainsStart
    BY <1>4, <2>2 DEF InitDrainsStart, Agree, PostgresAgrees
  <2> QED
    BY <2>1, <2>2
<1>6. last \in Opening /\ booting' = "done" => drainOn'
  BY <1>4 DEF InitDrainsRead, InitDrainsStart
<1>7. PostgresAgrees' /\ RedisAgrees'
  BY <1>1, <1>2, <1>3 DEF Agree, PostgresAgrees, RedisAgrees
<1>8. ProcessAgrees'
  <2>1. \A b \in Admins : admin'[b].op = "end" /\ Under(b)' => ~timer'
    BY <1>1, <1>2 DEF Agree, ProcessAgrees
  <2> QED
    BY <1>1, <1>2, <1>5, <1>6, <2>1, Zenon DEF Agree, ProcessAgrees
<1>9. ColdAlone' /\ RowsFresh' /\ CacheFresh'
  BY <1>1, <1>2 DEF Agree, ColdAlone, RowsFresh, CacheFresh
<1> QED
  BY <1>7, <1>8, <1>9 DEF Agree

\* An event that is being created has no request, no drain and no entry yet.
LEMMA AgreeCreate == ASSUME Base, Agree, Seed \/ Commit PROVE Agree'
<1>1. UNCHANGED <<cache, lookup, drainOn, timer, booting, admin, last, lost>>
  BY DEF Seed, Commit
<1>2. pg.status = "none"
  BY DEF Seed, Commit, Base, OpenInv, WritesOrdered
<1>3. ~Activated
  BY <1>2 DEF Activated
<1>4. cache = NoEntry /\ Filling = {} /\ booting # "start" /\ \A b \in Admins : admin[b].pc = "idle"
  BY <1>2, <1>3, Zenon DEF Base, OpenInv, OpenOnlyIfActivated, WritesOrdered, Filling
<1>5. Busy = {} /\ \A b \in Admins : admin[b].op = "none"
  BY <1>4 DEF Agree, PostgresAgrees, Busy
<1>6. last \notin Transitions
  BY <1>2, RowTypes, Targets DEF Agree, PostgresAgrees, Statuses
<1>7. Filling' = {} /\ Busy' = {} /\ (\A b \in Admins : ~Under(b)') /\ cache' = NoEntry /\ last' = last
  BY <1>1, <1>4, <1>5 DEF Filling, Busy, Under
<1>8. /\ "none" \notin Opening \cup {"pause", "end", "rotate", "update"} \cup Settings
      /\ Opening \subseteq Transitions /\ Closing \subseteq Transitions /\ "end" \in Transitions
  BY DEF Transitions, Opening, Closing, Settings
<1>9. PostgresAgrees' /\ RedisAgrees'
  BY <1>1, <1>4, <1>5, <1>6, <1>7, <1>8 DEF PostgresAgrees, RedisAgrees
<1>10. ProcessAgrees'
  BY <1>6, <1>7, <1>8 DEF ProcessAgrees
<1>11. ColdAlone' /\ RowsFresh' /\ CacheFresh'
  BY <1>1, <1>4, <1>5, <1>7, <1>8 DEF ColdAlone, RowsFresh, CacheFresh
<1> QED
  BY <1>9, <1>10, <1>11 DEF Agree

LEMMA AgreeStutter == ASSUME Agree, UNCHANGED vars PROVE Agree'
<1> USE DEF vars, Under, ToRedis, Patching, Busy, Filling
<1>1. PostgresAgrees' /\ RedisAgrees'
  BY DEF Agree, PostgresAgrees, RedisAgrees
<1>2. ProcessAgrees'
  BY Zenon DEF Agree, ProcessAgrees
<1>3. ColdAlone' /\ RowsFresh' /\ CacheFresh'
  BY DEF Agree, ColdAlone, RowsFresh, CacheFresh
<1> QED
  BY <1>1, <1>2, <1>3 DEF Agree

LEMMA AgreeInit == Init => Agree
<1> SUFFICES ASSUME Init PROVE Agree
  OBVIOUS
<1>1. /\ pg.status = "none" /\ cache = NoEntry /\ Filling = {} /\ Busy = {} /\ booting = "done" /\ last = "none"
      /\ \A a \in Admins : admin[a].op = "none" /\ admin[a].pc = "idle"
  BY DEF Init, NoRow, Idle, Filling, Busy
<1>2. "none" \notin Transitions \cup Opening \cup Closing \cup {"pause", "end", "rotate", "update"} \cup Settings
  BY DEF Transitions, Opening, Closing, Settings
<1>3. PostgresAgrees /\ RedisAgrees
  BY <1>1, <1>2 DEF PostgresAgrees, RedisAgrees, Under
<1>4. ProcessAgrees
  BY <1>1, <1>2 DEF ProcessAgrees, Under
<1>5. ColdAlone /\ RowsFresh /\ CacheFresh
  BY <1>1, <1>2 DEF ColdAlone, RowsFresh, CacheFresh
<1> QED
  BY <1>3, <1>4, <1>5 DEF Agree

LEMMA BaseInit == Init => Base
  BY OpenInit, OverlappingInit DEF Base

LEMMA BaseNext == Base /\ [Next]_vars => Base'
  BY OpenNext, OverlappingNext DEF Base

LEMMA AgreeNext ==
  ASSUME Together \subseteq Orderly
  PROVE  Base /\ Agree /\ [Next]_vars => Agree'
<1> SUFFICES ASSUME Base, Agree, [Next]_vars PROVE Agree'
  OBVIOUS
<1>1. ASSUME NEW a \in Admins, AdminStep(a) PROVE Agree'
  <2>1. CASE \E op \in Ops : Begin(a, op)
    BY <2>1, AgreeBegin
  <2>2. CASE WritePostgres(a) \/ PostgresFails(a)
    <3>1. admin[a].op \in Settings \cup Transitions
      BY <2>2, PostgresStep DEF Ops
    <3> QED
      BY <2>2, <3>1, AgreeSettings, AgreeTransition
  <2>3. CASE WriteRedis(a) \/ RedisFails(a)
    BY <2>3, AgreeRedis
  <2>4. CASE FinishOpening(a) \/ FinishPause(a) \/ FinishClosing(a)
    BY <2>4, AgreeFinish
  <2>5. CASE PatchHit(a) \/ PatchMiss(a) \/ PatchFill(a)
    BY <2>5, AgreePatch
  <2> QED
    BY <1>1, <2>1, <2>2, <2>3, <2>4, <2>5 DEF AdminStep
<1>2. ASSUME NEW l \in Lookups, LookupMiss(l) \/ LookupFill(l) PROVE Agree'
  BY <1>2, AgreeLookupMiss, AgreeLookupFill
<1>3. CASE Crash \/ InitDrainsRead \/ InitDrainsStart \/ Seed \/ Commit \/ UNCHANGED vars
  BY <1>3, AgreeCrash, AgreeBoot, AgreeCreate, AgreeStutter
<1> QED
  BY <1>1, <1>2, <1>3 DEF Next

\* When nothing is in progress there is no write to come that would make up for a difference.
LEMMA QuietAgrees ==
  ASSUME Base, Agree
  PROVE  TransitionsSettle /\ SettingsFresh
<1>1. ASSUME Quiet
      PROVE  booting = "done" /\ ~ToRedis /\ \A p \in Settings : ~Patching(p)
  BY <1>1, BusyFacts DEF Quiet, ToRedis, Patching, Settings
<1>2. TransitionsSettle
  <2> SUFFICES ASSUME Quiet, last \in Transitions
               PROVE  /\ pg.status = Target(last) /\ status = Target(last)
                      /\ drainOn <=> last \in Opening
                      /\ last \in Closing => cache = NoEntry
                      /\ last = "end" => ~timer
    BY DEF TransitionsSettle
  <2>1. pg.status = Target(last) /\ status = Target(last)
    BY <1>1 DEF Agree, PostgresAgrees, RedisAgrees
  <2>2. drainOn <=> last \in Opening
    BY <1>1 DEF Agree, ProcessAgrees
  <2> QED
    BY <2>1, <2>2 DEF Agree, ProcessAgrees
<1>3. SettingsFresh
  <2> SUFFICES ASSUME Quiet, ~lost, cache # NoEntry PROVE cache = EntryOf(pg)
    BY DEF SettingsFresh
  <2>1. cache.secret = pg.secret /\ cache.url = pg.url
    BY <1>1 DEF Agree, CacheFresh, Settings
  <2>2. cache \in Entry
    BY DEF Base, OpenInv, TypeOK, TypeCache
  <2> QED
    BY <2>1, <2>2 DEF EntryOf, Entry
<1> QED
  BY <1>2, <1>3

\* If callers are orderly, a transition that answers 200 has brought the row, the Redis
\* hash, the drain, the cache and the reset timer to agree, whatever earlier ones that
\* failed or crashed have left, and restarts keep it so: for any number of administrators
\* and user requests side by side.
THEOREM LifecycleSettles == ASSUME Together \subseteq Orderly PROVE Spec => []TransitionsSettle
<1>1. Init => Base /\ Agree
  BY BaseInit, AgreeInit
<1>2. Base /\ Agree /\ [Next]_vars => (Base /\ Agree)'
  BY BaseNext, AgreeNext
<1>3. Base /\ Agree => TransitionsSettle
  BY QuietAgrees
<1> QED
  BY <1>1, <1>2, <1>3, PTL DEF Spec

\* Nor is the cached secret or URL behind the row: a fill and the two settings
\* requests, each with its stale row in hand, never undo each other's write.
THEOREM LifecycleCacheFresh == ASSUME Together \subseteq Orderly PROVE Spec => []SettingsFresh
<1>1. Init => Base /\ Agree
  BY BaseInit, AgreeInit
<1>2. Base /\ Agree /\ [Next]_vars => (Base /\ Agree)'
  BY BaseNext, AgreeNext
<1>3. Base /\ Agree => SettingsFresh
  BY QuietAgrees
<1> QED
  BY <1>1, <1>2, <1>3, PTL DEF Spec
=============================================================================
