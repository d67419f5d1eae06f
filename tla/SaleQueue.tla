------------------------------ MODULE SaleQueue ------------------------------
(***************************************************************************)
(* One activated sale event of apps/engine-gateway: the Redis keys of the  *)
(* event, the Postgres rows that guard tickets, and the Node processes     *)
(* that work on them -- the one-second drain ticks, the verify and release *)
(* handlers, and the administrator's pause, resume, end and capacity       *)
(* handlers.                                                               *)
(*                                                                         *)
(* A Redis command, a Lua script, a MULTI and a run of commands that Node  *)
(* writes in one turn on its single connection are one step each; every    *)
(* await in the code is a place where another process may run.             *)
(***************************************************************************)
EXTENDS Integers, FiniteSets

CONSTANTS
  Users,       \* user ids, as numbers: Redis breaks ties of score by member order
  Jtis,        \* the uuids that jti = uuidv4() may draw
  Ticks,       \* drainBatch invocations that may be running at the same time
  Requests,    \* verify and release requests that may be in progress at the same time
  StockCount,  \* SaleEvent.stockCount
  QueueCap,    \* ceil(stockCount * multiplier), when the door closes
  RateLimit,   \* SaleEvent.rateLimit, the size of a drain batch
  Caps,        \* values that maxConcurrent may take
  NoCap,       \* maxConcurrent is null
  NoJti,       \* no ticket
  NoUser,      \* no user
  Faults,      \* the failures that may happen: "crash", "io", "sign"
  AdminOps,    \* the administrator's operations that may be called
  ClientMay,   \* what callers may do: "overlap" releases of one ticket, "reuse" a
               \* ticket released before
  MaxJoins,    \* bound: how often the queue accepts a user
  MaxDup,      \* bound: how many times stock is returned twice for one ticket
  MaxMishaps   \* bound: how many calls are lost, and calls of ticks and requests cut off

ASSUME SaleAssumption ==
  /\ Users \subseteq Nat /\ IsFiniteSet(Users) /\ NoUser \notin Users
  /\ IsFiniteSet(Jtis) /\ NoJti \notin Jtis
  /\ IsFiniteSet(Ticks) /\ IsFiniteSet(Requests)
  /\ StockCount \in Nat \ {0} /\ QueueCap \in Nat /\ RateLimit \in Nat \ {0}
  /\ NoCap \notin Nat /\ Caps \subseteq (Nat \ {0}) \cup {NoCap}
  /\ Faults \subseteq {"crash", "io", "sign"}
  /\ AdminOps \subseteq {"pause", "resume", "end", "capacity"}
  /\ ClientMay \subseteq {"overlap", "reuse"}
  /\ MaxJoins \in [Users -> Nat] /\ MaxDup \in Nat /\ MaxMishaps \in Nat

VARIABLES
  \* Redis
  status,       \* HASH flash:event, field status
  stock,        \* ... field stock
  admitted,     \* ... field admitted
  cap,          \* ... field maxConcurrent
  queue,        \* ZSET flash:queue: the join time of a user in it, 0 for the others
  result,       \* HASH flash:result
  ticket,       \* STRING flash:ticket:{user}
  outstanding,  \* STRING flash:outstanding
  \* Postgres
  pgStatus,     \* SaleEvent.status
  won,          \* jtis with a QueueAttempt row of result WON
  used,         \* UsedJti
  released,     \* TicketRelease
  \* Node
  drainOn,      \* activeDrains has the event
  cached,       \* the event cache has the event
  filling,      \* some request missed the cache, read ACTIVE and will fill it
  booting,      \* initDrains after a restart: "read", "start", then "done"
  tick,         \* drainBatch invocations
  req,          \* verify and release requests
  admin,        \* the administrator's request
  \* the clock, and history
  now,          \* Date.now() of the last join
  joins,        \* how often the queue accepted a user
  rejoins,      \* ... and how often of these while a drain held the user
  owner,        \* the user a jti was signed for
  expired,      \* jtis past their 20 minutes
  sold,         \* jtis verified and not given back since
  returned,     \* jtis whose unit went back to stock at least once
  dup,          \* units that went back to stock again for a jti already returned
  mishaps       \* calls to Redis and Postgres that were lost or rejected, and drain
                \* ticks and requests that a crash cut off

redis == <<status, stock, admitted, cap, queue, result, ticket, outstanding>>
postgres == <<pgStatus, won, used, released>>
node == <<drainOn, cached, filling, booting, tick, req, admin>>
past == <<now, joins, rejoins, owner, expired, sold, returned, dup>>
history == <<past, mishaps>>
vars == <<redis, postgres, node, history>>

TickPc == {"idle", "pop", "claim", "lookup", "fill", "sign", "refund", "audit", "bulk"}
ReqPc == {"idle", "vInsert", "vDecr", "rMulti", "rDecr", "rRestart", "rRow"}
AdminPc == {"idle", "pauseRedis", "pauseStop", "resumeRedis", "resumeWarm", "endRedis", "endStop"}

Tick == [pc : TickPc, batch : [Users -> Nat], cur : Users \cup {NoUser}, jti : Jtis \cup {NoJti}]
Req == [pc : ReqPc, jti : Jtis \cup {NoJti}]

Nobody == [u \in Users |-> 0]
IdleTick == [pc |-> "idle", batch |-> Nobody, cur |-> NoUser, jti |-> NoJti]
IdleReq == [pc |-> "idle", jti |-> NoJti]

Init ==
  /\ status = "ACTIVE" /\ stock = StockCount /\ admitted = 0 /\ cap \in Caps
  /\ queue = Nobody
  /\ result = [u \in Users |-> "none"]
  /\ ticket = [u \in Users |-> NoJti]
  /\ outstanding = 0
  /\ pgStatus = "ACTIVE" /\ won = {} /\ used = {} /\ released = {}
  /\ drainOn = TRUE /\ cached = TRUE /\ filling = FALSE /\ booting = "done"
  /\ tick = [d \in Ticks |-> IdleTick]
  /\ req = [r \in Requests |-> IdleReq]
  /\ admin = "idle"
  /\ now = 1
  /\ joins = [u \in Users |-> 0] /\ rejoins = [u \in Users |-> 0]
  /\ owner = [j \in Jtis |-> NoUser]
  /\ expired = {} /\ sold = {} /\ returned = {} /\ dup = 0 /\ mishaps = 0

-----------------------------------------------------------------------------
(* Sorted sets of users: a function from users to scores, 0 when absent.   *)
(* An operator that stands before another one and extends its name is that *)
(* operator with a plausible bug; the runs show that the properties see it. *)

Members(q) == {u \in Users : q[u] > 0}

\* u is before v in q: lower score, or the same millisecond and a lower member.
BeforeByName(q, u, v) == u < v
Before(q, u, v) == q[u] < q[v] \/ (q[u] = q[v] /\ u < v)

\* S is what ZPOPMIN key n takes from q.
IsPopMin(q, n, S) ==
  /\ S \subseteq Members(q)
  /\ Cardinality(S) = IF Cardinality(Members(q)) <= n THEN Cardinality(Members(q)) ELSE n
  /\ \A u \in S, v \in Members(q) \ S : Before(q, u, v)

Only(q, S) == [u \in Users |-> IF u \in S THEN q[u] ELSE 0]
Without(q, S) == [u \in Users |-> IF u \in S THEN 0 ELSE q[u]]

\* ZADD of the members of p, then of the members of q, in an empty sorted set.
ReAddQueueOnly(p, q) == q
ReAdd(p, q) == [u \in Users |-> IF q[u] > 0 THEN q[u] ELSE p[u]]

DecrFloor0OffByOne(n) == IF n > 1 THEN n - 1 ELSE n
DecrFloor0(n) == IF n > 0 THEN n - 1 ELSE 0

\* A call to Redis or Postgres rejects, or is executed and its reply is lost.
Mishap == "io" \in Faults /\ mishaps < MaxMishaps /\ mishaps' = mishaps + 1

\* getEventEntry would find the event: it is cached, or ACTIVE in Postgres.
EntryFound == cached \/ pgStatus = "ACTIVE"

-----------------------------------------------------------------------------
(* POST /api/queue/join: queue-admission.lua accepts the user. The other   *)
(* return codes change nothing.                                            *)

KnownUserQueueOnly(u) == queue[u] > 0
KnownUser(u) == queue[u] > 0 \/ result[u] # "none"

DoorOpenOffByOne == admitted <= QueueCap
DoorOpen == admitted < QueueCap

\* Users popped by a tick and not answered yet: neither the queue nor the result hash
\* knows them, and they may join again.
InTicks == {u \in Users : \E d \in Ticks : tick[d].batch[u] > 0}

Join(u) ==
  /\ status = "ACTIVE"
  /\ ~KnownUser(u)
  /\ DoorOpen
  /\ joins[u] < MaxJoins[u]
  /\ \E ms \in {now, now + 1} :
       /\ now' = ms
       /\ queue' = [queue EXCEPT ![u] = ms]
  /\ admitted' = admitted + 1
  /\ joins' = [joins EXCEPT ![u] = @ + 1]
  /\ rejoins' = IF u \in InTicks THEN [rejoins EXCEPT ![u] = @ + 1] ELSE rejoins
  /\ UNCHANGED <<status, stock, cap, result, ticket, outstanding, postgres, node,
                 owner, expired, sold, returned, dup, mishaps>>

\* getEventEntry on behalf of a join, a status or an info request misses the
\* cache and reads an ACTIVE row ...
LookupMiss ==
  /\ ~cached /\ pgStatus = "ACTIVE" /\ ~filling
  /\ filling' = TRUE
  /\ UNCHANGED <<redis, postgres, drainOn, cached, booting, tick, req, admin, history>>

\* ... and fills the cache when it resumes, whatever happened in between.
LookupFill ==
  /\ filling
  /\ filling' = FALSE /\ cached' = TRUE
  /\ UNCHANGED <<redis, postgres, drainOn, booting, tick, req, admin, history>>

-----------------------------------------------------------------------------
(* drainBatch. The interval fires whether or not an earlier call is done.  *)

GatedOffByOne == cap # NoCap /\ outstanding > cap
Gated == cap # NoCap /\ outstanding >= cap

\* The pipelined read: an empty queue or a closed gate ends the tick.
TickStart(d) ==
  /\ drainOn /\ tick[d].pc = "idle"
  /\ Members(queue) # {}
  /\ ~Gated
  /\ tick' = [tick EXCEPT ![d].pc = "pop"]
  /\ UNCHANGED <<redis, postgres, drainOn, cached, filling, booting, req, admin, history>>

\* ZPOPMIN queue rateLimit; another tick may have emptied the queue.
Pop(d) ==
  /\ tick[d].pc = "pop"
  /\ \E S \in SUBSET Users :
       /\ IsPopMin(queue, RateLimit, S)
       /\ queue' = Without(queue, S)
       /\ tick' = [tick EXCEPT ![d] =
            IF S = {} THEN IdleTick ELSE [IdleTick EXCEPT !.pc = "claim", !.batch = Only(queue, S)]]
  /\ UNCHANGED <<status, stock, admitted, cap, result, ticket, outstanding, postgres,
                 drainOn, cached, filling, booting, req, admin, history>>

\* u is the next user of the batch.
IsNext(d, u) ==
  /\ tick[d].batch[u] > 0
  /\ \A v \in Members(tick[d].batch) \ {u} : Before(tick[d].batch, u, v)

\* drain-process.lua: a unit is claimed, or the user and then the queue are sold out.
InStockOffByOne == stock >= 0
InStock == stock > 0

Claim(d) ==
  /\ tick[d].pc = "claim"
  /\ \E u \in Users :
       /\ IsNext(d, u)
       /\ \/ /\ InStock
             /\ stock' = stock - 1
             /\ result' = [result EXCEPT ![u] = "WON"]
             /\ tick' = [tick EXCEPT ![d].pc = "lookup", ![d].cur = u, ![d].batch[u] = 0]
          \/ /\ ~InStock
             /\ result' = [result EXCEPT ![u] = "SOLD_OUT"]
             /\ tick' = [tick EXCEPT ![d].pc = "bulk", ![d].batch[u] = 0]
             /\ UNCHANGED stock
  /\ UNCHANGED <<status, admitted, cap, queue, ticket, outstanding, postgres,
                 drainOn, cached, filling, booting, req, admin, history>>

\* processWinner: getEventEntry answers from the cache or reads Postgres.
Lookup(d) ==
  /\ tick[d].pc = "lookup"
  /\ tick' = [tick EXCEPT ![d].pc = IF cached THEN "sign"
                                    ELSE IF pgStatus = "ACTIVE" THEN "fill" ELSE "refund"]
  /\ UNCHANGED <<redis, postgres, drainOn, cached, filling, booting, req, admin, history>>

Fill(d) ==
  /\ tick[d].pc = "fill"
  /\ cached' = TRUE
  /\ tick' = [tick EXCEPT ![d].pc = "sign"]
  /\ UNCHANGED <<redis, postgres, drainOn, filling, booting, req, admin, history>>

\* The JWT is signed, parked under the user's key and counted as outstanding. If the
\* SET or the INCR rejects the call ends, and Redis may have run either of them: a
\* token that was not parked is in nobody's hands.
ParkForNobody(u, j) == ticket
Park(u, j) == [ticket EXCEPT ![u] = j]

Sign(d) ==
  /\ tick[d].pc = "sign"
  /\ \E j \in Jtis, parked \in BOOLEAN :
       /\ owner[j] = NoUser
       /\ owner' = IF parked THEN [owner EXCEPT ![j] = tick[d].cur] ELSE owner
       /\ ticket' = IF parked THEN Park(tick[d].cur, j) ELSE ticket
       /\ \/ /\ parked /\ outstanding' = outstanding + 1
             /\ tick' = [tick EXCEPT ![d].pc = "audit", ![d].jti = j]
             /\ UNCHANGED mishaps
          \/ /\ Mishap /\ outstanding' \in {outstanding, outstanding + 1}
             /\ tick' = [tick EXCEPT ![d] = IdleTick]
  /\ UNCHANGED <<status, stock, admitted, cap, queue, result, postgres,
                 drainOn, cached, filling, booting, req, admin,
                 now, joins, rejoins, expired, sold, returned, dup>>

SignFails(d) ==
  /\ "sign" \in Faults
  /\ tick[d].pc = "sign"
  /\ tick' = [tick EXCEPT ![d].pc = "refund"]
  /\ UNCHANGED <<redis, postgres, drainOn, cached, filling, booting, req, admin, history>>

\* The tick goes on with its next user, or ends.
NextUserReturns(d) == tick' = [tick EXCEPT ![d] = IdleTick]
NextUser(d) ==
  tick' = [tick EXCEPT ![d] =
    IF Members(tick[d].batch) = {} THEN IdleTick
    ELSE [IdleTick EXCEPT !.pc = "claim", !.batch = tick[d].batch]]

\* No entry or no signature: the unit is put back and the user downgraded. Each
\* of the two commands has its own catch.
Refund(d) ==
  /\ tick[d].pc = "refund"
  /\ \E back, downgraded \in BOOLEAN :
       /\ stock' = IF back THEN stock + 1 ELSE stock
       /\ result' = IF downgraded THEN [result EXCEPT ![tick[d].cur] = "SOLD_OUT"] ELSE result
       /\ Mishap \/ (back /\ downgraded /\ UNCHANGED mishaps)
  /\ NextUser(d)
  /\ UNCHANGED <<status, admitted, cap, queue, ticket, outstanding, postgres,
                 drainOn, cached, filling, booting, req, admin, past>>

\* The QueueAttempt row with result WON; a failure is logged and swallowed.
Audit(d) ==
  /\ tick[d].pc = "audit"
  /\ \/ won' = won \cup {tick[d].jti} /\ UNCHANGED mishaps
     \/ Mishap /\ won' \in {won, won \cup {tick[d].jti}}
  /\ NextUser(d)
  /\ UNCHANGED <<redis, pgStatus, used, released,
                 drainOn, cached, filling, booting, req, admin, past>>

\* bulk-sold-out.lua on the rest of the batch and the whole queue: everyone goes
\* back with the original score if stock returned meanwhile, else is sold out.
StockBackUnchecked == FALSE
StockBack == stock > 0

BulkSoldOut(d) ==
  /\ tick[d].pc = "bulk"
  /\ \/ /\ StockBack
        /\ queue' = ReAdd(tick[d].batch, queue)
        /\ UNCHANGED result
     \/ /\ ~StockBack
        /\ queue' = Nobody
        /\ result' = [u \in Users |->
             IF tick[d].batch[u] > 0 \/ queue[u] > 0 THEN "SOLD_OUT" ELSE result[u]]
  /\ tick' = [tick EXCEPT ![d] = IdleTick]
  /\ UNCHANGED <<status, stock, admitted, cap, ticket, outstanding, postgres,
                 drainOn, cached, filling, booting, req, admin, history>>

\* A Redis or Postgres call rejects: the call of drainBatch ends where it is, and
\* the users it had popped are not put back.
TickFails(d) ==
  /\ Mishap
  /\ tick[d].pc \in {"pop", "claim", "lookup", "bulk"}
  /\ tick' = [tick EXCEPT ![d] = IdleTick]
  /\ UNCHANGED <<redis, postgres, drainOn, cached, filling, booting, req, admin, past>>

-----------------------------------------------------------------------------
(* POST /api/queue/verify, called with a token that a user was given.      *)

Minted == {j \in Jtis : owner[j] # NoUser}

Calls(j, pcs) == {r \in Requests : req[r].pc \in pcs /\ req[r].jti = j}
Releasing == {"rMulti", "rDecr", "rRestart", "rRow"}

\* The entry is found, the signature is good and the token has not expired.
VerifyStart(r, j) ==
  /\ req[r].pc = "idle"
  /\ j \in Minted \ expired
  /\ "reuse" \in ClientMay \/ (j \notin returned /\ Calls(j, Releasing) = {})
  /\ EntryFound
  /\ filling' = (filling \/ ~cached)
  /\ req' = [req EXCEPT ![r] = [pc |-> "vInsert", jti |-> j]]
  /\ UNCHANGED <<redis, postgres, drainOn, cached, booting, tick, admin, history>>

\* INSERT INTO UsedJti: the primary key rejects the second insert (409). With an
\* I/O error the answer is 500, whether or not the row is there.
VerifyInsert(r) ==
  /\ req[r].pc = "vInsert"
  /\ \/ /\ req[r].jti \notin used
        /\ used' = used \cup {req[r].jti}
        /\ sold' = sold \cup {req[r].jti}
        /\ req' = [req EXCEPT ![r].pc = "vDecr"]
        /\ UNCHANGED mishaps
     \/ /\ req[r].jti \in used
        /\ req' = [req EXCEPT ![r] = IdleReq]
        /\ UNCHANGED <<used, sold, mishaps>>
     \/ /\ Mishap
        /\ used' \in {used, used \cup {req[r].jti}}
        /\ req' = [req EXCEPT ![r] = IdleReq]
        /\ UNCHANGED sold
  /\ UNCHANGED <<redis, pgStatus, won, released, drainOn, cached, filling, booting, tick, admin,
                 now, joins, rejoins, owner, expired, returned, dup>>

\* The decrement is fire-and-forget.
VerifyDecr(r) ==
  /\ req[r].pc = "vDecr"
  /\ \/ outstanding' = DecrFloor0(outstanding) /\ UNCHANGED mishaps
     \/ Mishap /\ UNCHANGED outstanding
  /\ req' = [req EXCEPT ![r] = IdleReq]
  /\ UNCHANGED <<status, stock, admitted, cap, queue, result, ticket, postgres,
                 drainOn, cached, filling, booting, tick, admin, past>>

-----------------------------------------------------------------------------
(* POST /api/queue/release, called by the client's backend.                *)

WinningUnchecked(j) == TRUE
Winning(j) == j \in won

AlreadyReleasedUnchecked(j) == FALSE
AlreadyReleased(j) == j \in released

\* A WON row and no TicketRelease row, else 404 or 409.
ReleaseStart(r, j) ==
  /\ req[r].pc = "idle"
  /\ "overlap" \in ClientMay \/ Calls(j, Releasing \cup {"vInsert"}) = {}
  /\ dup < MaxDup \/ j \notin returned
  /\ Winning(j) /\ ~AlreadyReleased(j)
  /\ req' = [req EXCEPT ![r] = [pc |-> "rMulti", jti |-> j]]
  /\ UNCHANGED <<redis, postgres, drainOn, cached, filling, booting, tick, admin, history>>

\* MULTI stock+1, admitted-1. With an I/O error the reply is 503 whether or not
\* the transaction was executed.
ReleaseMulti(r) ==
  /\ req[r].pc = "rMulti"
  /\ \/ /\ stock' = stock + 1 /\ admitted' = admitted - 1
        /\ returned' = returned \cup {req[r].jti} /\ sold' = sold \ {req[r].jti}
        /\ dup' = IF req[r].jti \in returned THEN dup + 1 ELSE dup
        /\ \/ req' = [req EXCEPT ![r].pc = "rDecr"] /\ UNCHANGED mishaps
           \/ Mishap /\ req' = [req EXCEPT ![r] = IdleReq]
     \/ /\ Mishap
        /\ req' = [req EXCEPT ![r] = IdleReq]
        /\ UNCHANGED <<stock, admitted, sold, returned, dup>>
  /\ UNCHANGED <<status, cap, queue, result, ticket, outstanding, postgres,
                 drainOn, cached, filling, booting, tick, admin, now, joins, rejoins, owner, expired>>

\* decrFloor0 and the ZCARD behind it; a waiting queue needs a running drain. Either
\* may reject, and a ZCARD that does ends the handler before it writes its row.
ReleaseDecr(r) ==
  /\ req[r].pc = "rDecr"
  /\ \E decremented, counted \in BOOLEAN :
       /\ outstanding' = IF decremented THEN DecrFloor0(outstanding) ELSE outstanding
       /\ req' = [req EXCEPT ![r] =
            IF ~counted THEN IdleReq
            ELSE [@ EXCEPT !.pc = IF Members(queue) # {} /\ ~drainOn THEN "rRestart" ELSE "rRow"]]
       /\ Mishap \/ (decremented /\ counted /\ UNCHANGED mishaps)
  /\ UNCHANGED <<status, stock, admitted, cap, queue, result, ticket, postgres,
                 drainOn, cached, filling, booting, tick, admin, past>>

\* HGET rateLimit, then startDrain.
ReleaseRestart(r) ==
  /\ req[r].pc = "rRestart"
  /\ \/ drainOn' = TRUE /\ req' = [req EXCEPT ![r].pc = "rRow"] /\ UNCHANGED mishaps
     \/ Mishap /\ req' = [req EXCEPT ![r] = IdleReq] /\ UNCHANGED drainOn
  /\ UNCHANGED <<redis, postgres, cached, filling, booting, tick, admin, past>>

\* The TicketRelease row; a failure still answers 200.
ReleaseRow(r) ==
  /\ req[r].pc = "rRow"
  /\ \/ released' = released \cup {req[r].jti} /\ UNCHANGED mishaps
     \/ Mishap /\ released' \in {released, released \cup {req[r].jti}}
  /\ req' = [req EXCEPT ![r] = IdleReq]
  /\ UNCHANGED <<redis, pgStatus, won, used, drainOn, cached, filling, booting, tick, admin, past>>

\* 20 minutes after it was parked the ticket key lapses and the JWT expires.
Expire(j) ==
  /\ j \in Minted \ expired
  /\ expired' = expired \cup {j}
  /\ ticket' = [u \in Users |-> IF ticket[u] = j THEN NoJti ELSE ticket[u]]
  /\ UNCHANGED <<status, stock, admitted, cap, queue, result, outstanding, postgres, node,
                 now, joins, rejoins, owner, sold, returned, dup, mishaps>>

-----------------------------------------------------------------------------
(* Administrator's handlers, one request at a time: Postgres, Redis, then  *)
(* the process's own state. EventLifecycle interleaves several of them.    *)

AdminStep(from, to) == admin = from /\ admin' = to

PausePg ==
  /\ "pause" \in AdminOps /\ pgStatus = "ACTIVE"
  /\ AdminStep("idle", "pauseRedis")
  /\ pgStatus' = "PAUSED"
  /\ UNCHANGED <<redis, won, used, released, drainOn, cached, filling, booting, tick, req, history>>

PauseRedis ==
  /\ AdminStep("pauseRedis", "pauseStop")
  /\ status' = "PAUSED"
  /\ UNCHANGED <<stock, admitted, cap, queue, result, ticket, outstanding, postgres,
                 drainOn, cached, filling, booting, tick, req, history>>

PauseStop ==
  /\ AdminStep("pauseStop", "idle")
  /\ drainOn' = FALSE
  /\ UNCHANGED <<redis, postgres, cached, filling, booting, tick, req, history>>

ResumePg ==
  /\ "resume" \in AdminOps /\ pgStatus = "PAUSED"
  /\ AdminStep("idle", "resumeRedis")
  /\ pgStatus' = "ACTIVE"
  /\ UNCHANGED <<redis, won, used, released, drainOn, cached, filling, booting, tick, req, history>>

ResumeRedis ==
  /\ AdminStep("resumeRedis", "resumeWarm")
  /\ status' = "ACTIVE"
  /\ UNCHANGED <<stock, admitted, cap, queue, result, ticket, outstanding, postgres,
                 drainOn, cached, filling, booting, tick, req, history>>

ResumeWarmUndrained ==
  /\ AdminStep("resumeWarm", "idle")
  /\ cached' = TRUE
  /\ UNCHANGED <<redis, postgres, drainOn, filling, booting, tick, req, history>>

ResumeWarm ==
  /\ AdminStep("resumeWarm", "idle")
  /\ cached' = TRUE /\ drainOn' = TRUE
  /\ UNCHANGED <<redis, postgres, filling, booting, tick, req, history>>

EndPg ==
  /\ "end" \in AdminOps /\ pgStatus # "ENDED"
  /\ AdminStep("idle", "endRedis")
  /\ pgStatus' = "ENDED"
  /\ UNCHANGED <<redis, won, used, released, drainOn, cached, filling, booting, tick, req, history>>

\* The errors of a pipeline are in its result, which endEventCore does not read.
EndRedis ==
  /\ AdminStep("endRedis", "endStop")
  /\ \/ /\ status' = "ENDED"
        /\ queue' = Nobody
        /\ result' = [u \in Users |-> "none"]
        /\ outstanding' = 0
        /\ UNCHANGED mishaps
     \/ Mishap /\ UNCHANGED <<status, queue, result, outstanding>>
  /\ UNCHANGED <<stock, admitted, cap, ticket, postgres, drainOn, cached, filling, booting, tick, req, past>>

EndStop ==
  /\ AdminStep("endStop", "idle")
  /\ drainOn' = FALSE /\ cached' = FALSE
  /\ UNCHANGED <<redis, postgres, filling, booting, tick, req, history>>

\* The Redis command of pause or resume rejects, run or not: 500, with Postgres
\* updated.
AdminFails ==
  /\ Mishap
  /\ admin \in {"pauseRedis", "pauseStop", "resumeRedis", "resumeWarm"}
  /\ admin' = "idle"
  /\ UNCHANGED <<redis, postgres, drainOn, cached, filling, booting, tick, req, past>>

\* updateCapacity: the drain reads the mirrored field on its next tick.
UpdateCapacity ==
  /\ "capacity" \in AdminOps
  /\ cap' \in Caps
  /\ UNCHANGED <<status, stock, admitted, queue, result, ticket, outstanding, postgres, node, history>>

-----------------------------------------------------------------------------
(* The process dies with everything it had in flight; Redis and Postgres   *)
(* stay. On restart the server listens first and runs initDrains after.    *)

BusyTicks == {d \in Ticks : tick[d].pc # "idle"}
BusyRequests == {r \in Requests : req[r].pc # "idle"}

Crash ==
  /\ "crash" \in Faults
  /\ mishaps' = mishaps + Cardinality(BusyTicks) + Cardinality(BusyRequests)
  /\ mishaps' <= MaxMishaps
  /\ drainOn' = FALSE /\ cached' = FALSE /\ filling' = FALSE /\ booting' = "read"
  /\ tick' = [d \in Ticks |-> IdleTick]
  /\ req' = [r \in Requests |-> IdleReq]
  /\ admin' = "idle"
  /\ UNCHANGED <<redis, postgres, past>>

\* findMany of the ACTIVE events ...
InitDrainsRead ==
  /\ booting = "read"
  /\ booting' = IF pgStatus = "ACTIVE" THEN "start" ELSE "done"
  /\ UNCHANGED <<redis, postgres, drainOn, cached, filling, tick, req, admin, history>>

\* ... and startDrain for what it returned.
InitDrainsStart ==
  /\ booting = "start"
  /\ booting' = "done" /\ drainOn' = TRUE
  /\ UNCHANGED <<redis, postgres, cached, filling, tick, req, admin, history>>

-----------------------------------------------------------------------------

DrainStep(d) ==
  \/ TickStart(d) \/ Pop(d) \/ Claim(d) \/ Lookup(d) \/ Fill(d) \/ Sign(d) \/ SignFails(d)
  \/ Refund(d) \/ Audit(d) \/ BulkSoldOut(d) \/ TickFails(d)

Handler(r) ==
  \/ VerifyInsert(r) \/ VerifyDecr(r)
  \/ ReleaseMulti(r) \/ ReleaseDecr(r) \/ ReleaseRestart(r) \/ ReleaseRow(r)

RequestStep(r) == Handler(r) \/ \E j \in Jtis : VerifyStart(r, j) \/ ReleaseStart(r, j)

AdminNext ==
  \/ PausePg \/ PauseRedis \/ PauseStop
  \/ ResumePg \/ ResumeRedis \/ ResumeWarm
  \/ EndPg \/ EndRedis \/ EndStop
  \/ AdminFails \/ UpdateCapacity

Next ==
  \/ \E u \in Users : Join(u)
  \/ LookupMiss \/ LookupFill
  \/ \E d \in Ticks : DrainStep(d)
  \/ \E r \in Requests : RequestStep(r)
  \/ \E j \in Jtis : Expire(j)
  \/ AdminNext
  \/ Crash \/ InitDrainsRead \/ InitDrainsStart

Spec == Init /\ [][Next]_vars

\* The interval fires again and again while the drain is on, and an awaited
\* call of a running tick or handler returns.
Fairness ==
  /\ \A d \in Ticks : WF_vars(DrainStep(d))
  /\ \A r \in Requests : WF_vars(Handler(r))
  /\ WF_vars(InitDrainsRead \/ InitDrainsStart)

FairSpec == Spec /\ Fairness

-----------------------------------------------------------------------------
(* What the event promises.                                                *)

\* Every variable has its type.
TypeRedis ==
  /\ status \in {"ACTIVE", "PAUSED", "ENDED"}
  /\ stock \in Int /\ admitted \in Int /\ cap \in Caps /\ outstanding \in Nat
  /\ queue \in [Users -> Nat]
  /\ result \in [Users -> {"none", "WON", "SOLD_OUT"}]
  /\ ticket \in [Users -> Jtis \cup {NoJti}]

TypePostgres ==
  /\ pgStatus \in {"ACTIVE", "PAUSED", "ENDED"}
  /\ won \subseteq Jtis /\ used \subseteq Jtis /\ released \subseteq Jtis

TypeFlags ==
  /\ drainOn \in BOOLEAN /\ cached \in BOOLEAN /\ filling \in BOOLEAN
  /\ booting \in {"read", "start", "done"}

TypeWork == tick \in [Ticks -> Tick] /\ req \in [Requests -> Req] /\ admin \in AdminPc

TypeHistory ==
  /\ now \in Nat \ {0} /\ joins \in [Users -> Nat] /\ rejoins \in [Users -> Nat]
  /\ owner \in [Jtis -> Users \cup {NoUser}]
  /\ expired \subseteq Jtis /\ sold \subseteq Jtis /\ returned \subseteq Jtis
  /\ dup \in Nat /\ mishaps \in Nat

TypeOK == TypeRedis /\ TypePostgres /\ TypeFlags /\ TypeWork /\ TypeHistory

\* No ticket is recorded, verified or given back unless it was issued to a user:
\* neither stock nor a purchase comes from a made-up jti.
RowsGenuine ==
  /\ won \subseteq Minted /\ used \subseteq Minted /\ released \subseteq Minted
  /\ sold \subseteq used /\ returned \subseteq Minted

RequestsGenuine == \A r \in Requests : req[r].pc # "idle" => req[r].jti \in Minted

TicksGenuine == \A d \in Ticks :
  /\ tick[d].pc = "audit" => tick[d].jti \in Minted
  /\ tick[d].pc \in {"lookup", "fill", "sign", "refund", "audit"} => tick[d].cur \in Users

TicketsGenuine == RowsGenuine /\ RequestsGenuine /\ TicksGenuine

\* Units between drain-process.lua and the ticket or the refund.
Claimed == {d \in Ticks : tick[d].pc \in {"lookup", "fill", "sign", "refund"}}

\* Tickets whose unit is out of stock.
Live == Minted \ returned

\* Each lost call, and each tick or request that a crash cuts off, loses one unit or
\* makes one up, and nothing else does: the units in stock, claimed and held by tickets
\* are the inventory but for that many. Units are made up where releaseTicket is
\* repeated after it failed behind its MULTI.
UnitsWithinMishaps ==
  /\ stock >= 0
  /\ stock + Cardinality(Claimed) + Cardinality(Live) >= StockCount - mishaps
  /\ stock + Cardinality(Claimed) + Cardinality(Live) <= StockCount + mishaps

\* Without failures no unit is lost either: a claimed unit becomes a ticket or
\* goes back, and a released one is in stock again.
StockConserved == stock + Cardinality(Claimed) + Cardinality(Live) = StockCount + dup

\* Where the unit of a ticket is, in the words of TicketSale.
Place(j) ==
  IF owner[j] = NoUser THEN "unissued"
  ELSE IF j \in sold THEN "bought"
  ELSE IF j \in returned THEN "back" ELSE "held"

Places == [j \in Jtis |-> Place(j)]
FreeUnits == stock + Cardinality(Claimed)

Units == INSTANCE TicketSale WITH
  Tickets <- Jtis, Inventory <- StockCount, free <- FreeUnits, place <- Places,
  MayLose <- Faults \cap {"io", "crash"} # {},
  MayRepeat <- Faults \cap {"io", "crash"} # {} \/ "overlap" \in ClientMay,
  MayReuse <- ClientMay \cap {"overlap", "reuse"} # {}

\* The event is a sale of its inventory: each step of the drains and the handlers
\* is one move of one unit or none. Units are lost only with a call or a process,
\* counted twice only then or by releases that overlap, and a ticket is used after
\* its release only by callers that try.
KeepsToSale == Units!Spec

\* releaseTicket returns the unit of a ticket at most once.
ReturnedOnce == dup = 0

\* Users whom the queue accepted and who are neither in it, nor in a running tick, nor
\* answered: they poll for good, unless they join again.
Forgotten == {u \in Users : joins[u] > 0 /\ queue[u] = 0 /\ u \notin InTicks /\ result[u] = "none"}

NobodyLost == Forgotten = {}

\* Each lost call, and each tick that a crash cuts off, costs the users of a batch their
\* place and no more, until the end of the event wipes the results.
LostWithMishaps == status # "ENDED" => Cardinality(Forgotten) <= RateLimit * mishaps

\* A winner that no tick is working on has a ticket to fetch, unless 20 minutes
\* have passed.
WinnerHasTicket ==
  \A u \in Users : result[u] = "WON" /\ (\A d \in Ticks : tick[d].cur # u)
    => ticket[u] # NoJti \/ \E j \in expired : owner[j] = u

\* A user is issued one ticket, and one more for each time the queue accepted the user
\* again while a drain held them.
TicketsOf(u) == {j \in Minted : owner[j] = u}
OneTicketPerUser == \A u \in Users : Cardinality(TicketsOf(u)) <= 1 + rejoins[u]

\* The door lets in no more than queueCap: those who wait, in the queue or in a batch --
\* once for each place they have --, whose unit is being claimed or who hold a ticket.
Batches == {p \in Ticks \X Users : tick[p[1]].batch[p[2]] > 0}
DoorHolds ==
  Cardinality(Members(queue)) + Cardinality(Batches) + Cardinality(Claimed) + Cardinality(Live) <= QueueCap

\* Whoever arrived earlier and still waits is not overtaken by a winner.
ServedInOrder == [][\A u \in Users : result[u] = "none" /\ result'[u] = "WON"
  => \E d \in Ticks :
       /\ tick[d].batch[u] > 0
       /\ \A v \in Users, e \in Ticks :
            /\ queue[v] > 0 => queue[v] >= tick[d].batch[u]
            /\ tick[e].batch[v] > 0 => tick[e].batch[v] >= tick[d].batch[u]]_vars

\* A user is turned away only when nothing is in stock, and no winner is downgraded who
\* did not join again in the hands of a drain.
TurnedAwayWhenEmpty == [][\A u \in Users : result[u] # "SOLD_OUT" /\ result'[u] = "SOLD_OUT"
  => stock <= 0 /\ (result[u] = "none" \/ rejoins[u] > 0)]_vars

\* Tickets that wait for their owner to buy or to give back.
Unsettled == Minted \ (used \cup returned)

\* What maxConcurrent bounds with one drain at a time. A batch that starts below the cap
\* overshoots it by less than its size; besides, a ticket that was verified and then given
\* back opens the gate for two, a repeated release once more, and a lost INCR is not seen.
GateOvershoot == cap # NoCap /\ status # "ENDED" =>
  Cardinality(Unsettled) + Cardinality(InTicks) + Cardinality(Claimed)
    < cap + RateLimit + Cardinality(used \cap returned) + dup + mishaps

\* Purchases that went through and were not given back never exceed the inventory.
SoldWithinInventory == Cardinality(sold) <= StockCount

\* As long as no call was lost, an active event has its drain running whenever no
\* administrator and no restart is at work on it.
NoCallLost == "io" \in Faults => mishaps = 0
ActiveIsDrained ==
  NoCallLost /\ pgStatus = "ACTIVE" /\ admin = "idle" /\ booting = "done" => drainOn

\* Every queued user is answered in the end; behind a gate, if every ticket is bought with
\* or given back in the end: one that lapses keeps the gate shut for good.
EveryoneAnswered ==
  <>[](cap = NoCap \/ Unsettled = {}) => \A u \in Users : queue[u] > 0 ~> result[u] # "none"
=============================================================================
