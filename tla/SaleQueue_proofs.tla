--------------------------- MODULE SaleQueue_proofs ---------------------------
(***************************************************************************)
(* Theorems about SaleQueue, for every value of its constants.             *)
(*                                                                         *)
(* TypeCorrect, NoOversell, OneTicket, LostOnlyWithMishaps,                *)
(* DoorKeptBounded, DrainKeptRunning and SaleImplementsTicketSale hold     *)
(* whatever crashes, fails or overlaps; what goes wrong then is counted in *)
(* their statements. The other promises hold under what each theorem       *)
(* assumes of the faults, of the callers and of the drains, and no more:   *)
(* where an assumption is dropped, a run or a bound with the excess made   *)
(* explicit shows what the code does instead.                              *)
(***************************************************************************)
EXTENDS SaleQueue, FiniteSetTheorems, TLAPS

-----------------------------------------------------------------------------
(* Lemmas on the operators of the model.                                   *)

\* The sorted-set operators return sorted sets.
LEMMA SortedSetType ==
  ASSUME NEW p \in [Users -> Nat], NEW q \in [Users -> Nat], NEW S
  PROVE  /\ Only(q, S) \in [Users -> Nat]
         /\ Without(q, S) \in [Users -> Nat]
         /\ ReAdd(p, q) \in [Users -> Nat]
  BY DEF Only, Without, ReAdd

LEMMA NobodyType == Nobody \in [Users -> Nat]
  BY DEF Nobody

LEMMA IdleType == IdleTick \in Tick /\ IdleReq \in Req
  BY NobodyType DEF IdleTick, IdleReq, Tick, TickPc, Req, ReqPc

\* Assigning the fields of one tick leaves well-typed ticks.
LEMMA TickType ==
  ASSUME tick \in [Ticks -> Tick], NEW d \in Ticks, NEW pc \in TickPc
  PROVE  /\ [tick EXCEPT ![d].pc = pc] \in [Ticks -> Tick]
         /\ \A j \in Jtis : [tick EXCEPT ![d].pc = pc, ![d].jti = j] \in [Ticks -> Tick]
         /\ \A b \in [Users -> Nat] :
              [tick EXCEPT ![d] = [IdleTick EXCEPT !.pc = pc, !.batch = b]] \in [Ticks -> Tick]
         /\ \A u \in Users : [tick EXCEPT ![d].pc = pc, ![d].batch[u] = 0] \in [Ticks -> Tick]
         /\ \A u \in Users :
              [tick EXCEPT ![d].pc = pc, ![d].cur = u, ![d].batch[u] = 0] \in [Ticks -> Tick]
         /\ [tick EXCEPT ![d] = IdleTick] \in [Ticks -> Tick]
<1>1. [tick EXCEPT ![d].pc = pc] \in [Ticks -> Tick]
  BY DEF Tick
<1>2. ASSUME NEW j \in Jtis PROVE [tick EXCEPT ![d].pc = pc, ![d].jti = j] \in [Ticks -> Tick]
  BY DEF Tick
<1>3. ASSUME NEW b \in [Users -> Nat]
      PROVE  [tick EXCEPT ![d] = [IdleTick EXCEPT !.pc = pc, !.batch = b]] \in [Ticks -> Tick]
  BY DEF Tick, IdleTick
<1>4. ASSUME NEW u \in Users PROVE [tick EXCEPT ![d].pc = pc, ![d].batch[u] = 0] \in [Ticks -> Tick]
  BY DEF Tick
<1>5. ASSUME NEW u \in Users
      PROVE  [tick EXCEPT ![d].pc = pc, ![d].cur = u, ![d].batch[u] = 0] \in [Ticks -> Tick]
  BY DEF Tick
<1>6. [tick EXCEPT ![d] = IdleTick] \in [Ticks -> Tick]
  BY IdleType
<1> QED
  BY <1>1, <1>2, <1>3, <1>4, <1>5, <1>6

LEMMA ReqType ==
  ASSUME req \in [Requests -> Req], NEW r \in Requests, NEW pc \in ReqPc
  PROVE  /\ [req EXCEPT ![r].pc = pc] \in [Requests -> Req]
         /\ \A j \in Jtis : [req EXCEPT ![r] = [pc |-> pc, jti |-> j]] \in [Requests -> Req]
         /\ [req EXCEPT ![r] = IdleReq] \in [Requests -> Req]
  BY IdleType DEF Req

\* NextUser leaves a well-typed tick.
LEMMA NextUserType ==
  ASSUME NEW d \in Ticks, tick \in [Ticks -> Tick], NextUser(d)
  PROVE  tick' \in [Ticks -> Tick]
  BY IdleType DEF NextUser, IdleTick, Tick, TickPc

LEMMA DecrFloor0Type == ASSUME NEW n \in Nat PROVE DecrFloor0(n) \in Nat
  BY DEF DecrFloor0

-----------------------------------------------------------------------------
(* Type correctness.                                                       *)

LEMMA TypeInit == Init => TypeOK
<1> SUFFICES ASSUME Init PROVE TypeOK
  OBVIOUS
<1>1. TypeRedis
  BY NobodyType, SaleAssumption DEF Init, TypeRedis
<1>2. TypePostgres
  BY DEF Init, TypePostgres
<1>3. TypeFlags
  BY Zenon DEF Init, TypeFlags
<1>4. TypeWork
  BY IdleType DEF Init, TypeWork, AdminPc
<1>5. TypeHistory
  BY DEF Init, TypeHistory
<1> QED
  BY <1>1, <1>2, <1>3, <1>4, <1>5 DEF TypeOK

\* What a step does not touch keeps its type.
LEMMA TypeKept ==
  ASSUME TypeOK
  PROVE  /\ UNCHANGED redis => TypeRedis'
         /\ UNCHANGED postgres => TypePostgres'
         /\ UNCHANGED <<drainOn, cached, filling, booting>> => TypeFlags'
         /\ UNCHANGED past /\ mishaps' \in Nat => TypeHistory'
<1>1. UNCHANGED redis => TypeRedis'
  BY DEF TypeOK, TypeRedis, redis
<1>2. UNCHANGED postgres => TypePostgres'
  BY DEF TypeOK, TypePostgres, postgres
<1>3. UNCHANGED <<drainOn, cached, filling, booting>> => TypeFlags'
  BY Zenon DEF TypeOK, TypeFlags
<1>4. UNCHANGED past /\ mishaps' \in Nat => TypeHistory'
  BY DEF TypeOK, TypeHistory, past
<1> QED
  BY <1>1, <1>2, <1>3, <1>4

\* What was lost is counted.
LEMMA MishapType ==
  ASSUME TypeOK
  PROVE  UNCHANGED history \/ (UNCHANGED past /\ (Mishap \/ UNCHANGED mishaps))
           => UNCHANGED past /\ mishaps' \in Nat
  BY DEF TypeOK, TypeHistory, Mishap, history

\* A crash is counted by what it cuts off.
LEMMA CrashCounts ==
  /\ IsFiniteSet(BusyTicks) /\ Cardinality(BusyTicks) \in Nat
  /\ IsFiniteSet(BusyRequests) /\ Cardinality(BusyRequests) \in Nat
<1>1. BusyTicks \subseteq Ticks /\ BusyRequests \subseteq Requests
  BY DEF BusyTicks, BusyRequests
<1> QED
  BY <1>1, SaleAssumption, FS_Subset, FS_CardinalityType

LEMMA TypeDrain ==
  ASSUME TypeOK, TicketsGenuine, NEW d \in Ticks, DrainStep(d)
  PROVE  TypeOK'
<1> USE DEF TypeOK
<1> tick[d].pc \in {"lookup", "fill", "sign", "refund", "audit"} => tick[d].cur \in Users
  BY DEF TicketsGenuine, TicksGenuine
<1>1. CASE TickStart(d)
  <2>1. TypeWork'
    BY <1>1, TickType DEF TickStart, TickPc, TypeWork
  <2> QED
    BY <1>1, <2>1, TypeKept, MishapType DEF TickStart
<1>2. CASE Pop(d)
  <2> PICK S \in SUBSET Users :
         /\ queue' = Without(queue, S)
         /\ tick' = [tick EXCEPT ![d] =
              IF S = {} THEN IdleTick ELSE [IdleTick EXCEPT !.pc = "claim", !.batch = Only(queue, S)]]
    BY <1>2 DEF Pop
  <2>1. queue' \in [Users -> Nat] /\ Only(queue, S) \in [Users -> Nat]
    BY SortedSetType DEF TypeRedis
  <2>2. TypeWork'
    BY <1>2, <2>1, TickType DEF Pop, TickPc, TypeWork
  <2>3. TypeRedis'
    BY <1>2, <2>1 DEF Pop, TypeRedis
  <2> QED
    BY <1>2, <2>2, <2>3, TypeKept, MishapType DEF Pop
<1>3. CASE Claim(d)
  <2> PICK u \in Users :
         \/ tick' = [tick EXCEPT ![d].pc = "lookup", ![d].cur = u, ![d].batch[u] = 0]
         \/ tick' = [tick EXCEPT ![d].pc = "bulk", ![d].batch[u] = 0]
    BY <1>3 DEF Claim
  <2>1. TypeWork'
    <3>1. "lookup" \in TickPc /\ "bulk" \in TickPc
      BY DEF TickPc
    <3>2. [tick EXCEPT ![d].pc = "lookup", ![d].cur = u, ![d].batch[u] = 0] \in [Ticks -> Tick]
      BY <3>1, TickType DEF TypeWork
    <3>3. [tick EXCEPT ![d].pc = "bulk", ![d].batch[u] = 0] \in [Ticks -> Tick]
      BY <3>1, TickType DEF TypeWork
    <3>4. tick' \in [Ticks -> Tick]
      BY <3>2, <3>3
    <3> QED
      BY <1>3, <3>4 DEF Claim, TypeWork
  <2>2. TypeRedis'
    BY <1>3 DEF Claim, TypeRedis
  <2> QED
    BY <1>3, <2>1, <2>2, TypeKept, MishapType DEF Claim
<1>4. CASE Lookup(d)
  <2>1. TypeWork'
    BY <1>4, TickType DEF Lookup, TickPc, TypeWork
  <2> QED
    BY <1>4, <2>1, TypeKept, MishapType DEF Lookup
<1>5. CASE Fill(d)
  <2>1. TypeWork'
    BY <1>5, TickType DEF Fill, TickPc, TypeWork
  <2>2. TypeFlags'
    BY <1>5, Zenon DEF Fill, TypeFlags
  <2> QED
    BY <1>5, <2>1, <2>2, TypeKept, MishapType DEF Fill
<1>6. CASE Sign(d)
  <2> PICK j \in Jtis :
         /\ owner' \in {owner, [owner EXCEPT ![j] = tick[d].cur]}
         /\ ticket' \in {ticket, Park(tick[d].cur, j)}
         /\ outstanding' \in {outstanding, outstanding + 1}
         /\ tick' \in {[tick EXCEPT ![d].pc = "audit", ![d].jti = j], [tick EXCEPT ![d] = IdleTick]}
         /\ Mishap \/ UNCHANGED mishaps
    BY <1>6 DEF Sign
  <2>1. TypeWork'
    <3>1. /\ [tick EXCEPT ![d].pc = "audit", ![d].jti = j] \in [Ticks -> Tick]
          /\ [tick EXCEPT ![d] = IdleTick] \in [Ticks -> Tick]
      BY TickType DEF TickPc, TypeWork
    <3>2. tick' \in [Ticks -> Tick]
      BY <3>1
    <3> QED
      BY <1>6, <3>2 DEF Sign, TypeWork
  <2>2. tick[d].cur \in Users
    BY <1>6 DEF Sign
  <2>3. TypeRedis'
    BY <1>6, <2>2 DEF Sign, Park, TypeRedis
  <2>4. TypeHistory'
    BY <1>6, <2>2 DEF Sign, Mishap, TypeHistory
  <2> QED
    BY <1>6, <2>1, <2>3, <2>4, TypeKept, MishapType DEF Sign
<1>7. CASE SignFails(d)
  <2>1. TypeWork'
    BY <1>7, TickType DEF SignFails, TickPc, TypeWork
  <2> QED
    BY <1>7, <2>1, TypeKept, MishapType DEF SignFails
<1>8. CASE Refund(d)
  <2>1. TypeWork'
    BY <1>8, NextUserType DEF Refund, TypeWork
  <2>2. stock' \in Int
    BY <1>8 DEF Refund, TypeRedis
  <2>3. result' \in [Users -> {"none", "WON", "SOLD_OUT"}]
    BY <1>8 DEF Refund, TypeRedis
  <2>4. TypeRedis'
    BY <1>8, <2>2, <2>3 DEF Refund, TypeRedis
  <2> QED
    BY <1>8, <2>1, <2>4, TypeKept, MishapType DEF Refund
<1>9. CASE Audit(d)
  <2>1. TypeWork'
    BY <1>9, NextUserType DEF Audit, TypeWork
  <2>2. tick[d].jti \in Jtis
    BY <1>9 DEF Audit, TicketsGenuine, TicksGenuine, Minted
  <2>3. TypePostgres'
    BY <1>9, <2>2 DEF Audit, TypePostgres
  <2> QED
    BY <1>9, <2>1, <2>3, TypeKept, MishapType DEF Audit
<1>10. CASE BulkSoldOut(d)
  <2>1. TypeWork'
    BY <1>10, TickType DEF BulkSoldOut, TickPc, TypeWork
  <2>2. tick[d].batch \in [Users -> Nat]
    BY DEF TypeWork, Tick
  <2>3. ReAdd(tick[d].batch, queue) \in [Users -> Nat]
    BY <2>2, SortedSetType DEF TypeRedis
  <2>4. TypeRedis'
    BY <1>10, <2>3, NobodyType DEF BulkSoldOut, TypeRedis
  <2> QED
    BY <1>10, <2>1, <2>4, TypeKept, MishapType DEF BulkSoldOut
<1>11. CASE TickFails(d)
  <2>1. TypeWork'
    BY <1>11, TickType DEF TickFails, TickPc, TypeWork
  <2> QED
    BY <1>11, <2>1, TypeKept, MishapType DEF TickFails
<1> QED
  BY <1>1, <1>2, <1>3, <1>4, <1>5, <1>6, <1>7, <1>8, <1>9, <1>10, <1>11 DEF DrainStep

LEMMA TypeRequest ==
  ASSUME TypeOK, TicketsGenuine, NEW r \in Requests, RequestStep(r)
  PROVE  TypeOK'
<1> USE DEF TypeOK
<1> req[r].pc # "idle" => req[r].jti \in Jtis
  BY DEF TicketsGenuine, RequestsGenuine, Minted
<1>1. ASSUME NEW j \in Jtis, VerifyStart(r, j) PROVE TypeOK'
  <2>1. TypeWork'
    BY <1>1, ReqType DEF VerifyStart, ReqPc, TypeWork
  <2>2. TypeFlags'
    BY <1>1, Zenon DEF VerifyStart, TypeFlags
  <2> QED
    BY <1>1, <2>1, <2>2, TypeKept, MishapType DEF VerifyStart
<1>2. ASSUME NEW j \in Jtis, ReleaseStart(r, j) PROVE TypeOK'
  <2>1. TypeWork'
    BY <1>2, ReqType DEF ReleaseStart, ReqPc, TypeWork
  <2> QED
    BY <1>2, <2>1, TypeKept, MishapType DEF ReleaseStart
<1>3. CASE VerifyInsert(r)
  <2>1. TypeWork'
    <3>1. \/ req' = [req EXCEPT ![r].pc = "vDecr"]
          \/ req' = [req EXCEPT ![r] = IdleReq]
      BY <1>3 DEF VerifyInsert
    <3>2. [req EXCEPT ![r].pc = "vDecr"] \in [Requests -> Req]
      BY ReqType DEF TypeWork, ReqPc
    <3>3. [req EXCEPT ![r] = IdleReq] \in [Requests -> Req]
      BY IdleType DEF TypeWork
    <3>4. req' \in [Requests -> Req]
      BY <3>1, <3>2, <3>3
    <3> QED
      BY <1>3, <3>4 DEF VerifyInsert, TypeWork
  <2>2. TypePostgres'
    BY <1>3 DEF VerifyInsert, TypePostgres
  <2>3. TypeHistory'
    BY <1>3 DEF VerifyInsert, Mishap, TypeHistory
  <2> QED
    BY <1>3, <2>1, <2>2, <2>3, TypeKept, MishapType DEF VerifyInsert
<1>4. CASE VerifyDecr(r)
  <2>1. TypeWork'
    BY <1>4, ReqType DEF VerifyDecr, ReqPc, TypeWork
  <2>2. TypeRedis'
    BY <1>4, DecrFloor0Type DEF VerifyDecr, TypeRedis
  <2> QED
    BY <1>4, <2>1, <2>2, TypeKept, MishapType DEF VerifyDecr
<1>5. CASE ReleaseMulti(r)
  <2>1. TypeWork'
    <3>1. \/ req' = [req EXCEPT ![r].pc = "rDecr"]
          \/ req' = [req EXCEPT ![r] = IdleReq]
      BY <1>5 DEF ReleaseMulti
    <3>2. [req EXCEPT ![r].pc = "rDecr"] \in [Requests -> Req]
      BY ReqType DEF TypeWork, ReqPc
    <3>3. [req EXCEPT ![r] = IdleReq] \in [Requests -> Req]
      BY IdleType DEF TypeWork
    <3>4. req' \in [Requests -> Req]
      BY <3>1, <3>2, <3>3
    <3> QED
      BY <1>5, <3>4 DEF ReleaseMulti, TypeWork
  <2>2. TypeRedis'
    BY <1>5 DEF ReleaseMulti, TypeRedis
  <2>3. TypeHistory'
    BY <1>5 DEF ReleaseMulti, Mishap, TypeHistory
  <2> QED
    BY <1>5, <2>1, <2>2, <2>3, TypeKept, MishapType DEF ReleaseMulti
<1>6. CASE ReleaseDecr(r)
  <2>1. TypeWork'
    <3>1. /\ [req EXCEPT ![r].pc = "rRestart"] \in [Requests -> Req]
          /\ [req EXCEPT ![r].pc = "rRow"] \in [Requests -> Req]
          /\ [req EXCEPT ![r] = IdleReq] \in [Requests -> Req]
      BY ReqType DEF TypeWork, ReqPc
    <3>2. \/ req' = [req EXCEPT ![r].pc = "rRestart"]
          \/ req' = [req EXCEPT ![r].pc = "rRow"]
          \/ req' = [req EXCEPT ![r] = IdleReq]
      BY <1>6, Zenon DEF ReleaseDecr
    <3> QED
      BY <1>6, <3>1, <3>2 DEF ReleaseDecr, TypeWork
  <2>2. TypeRedis'
    BY <1>6, DecrFloor0Type DEF ReleaseDecr, TypeRedis
  <2> QED
    BY <1>6, <2>1, <2>2, TypeKept, MishapType DEF ReleaseDecr
<1>7. CASE ReleaseRestart(r)
  <2>1. TypeWork'
    <3>1. /\ [req EXCEPT ![r].pc = "rRow"] \in [Requests -> Req]
          /\ [req EXCEPT ![r] = IdleReq] \in [Requests -> Req]
      BY ReqType DEF TypeWork, ReqPc
    <3>2. req' = [req EXCEPT ![r].pc = "rRow"] \/ req' = [req EXCEPT ![r] = IdleReq]
      BY <1>7 DEF ReleaseRestart
    <3> QED
      BY <1>7, <3>1, <3>2 DEF ReleaseRestart, TypeWork
  <2>2. TypeFlags'
    BY <1>7, Zenon DEF ReleaseRestart, TypeFlags
  <2> QED
    BY <1>7, <2>1, <2>2, TypeKept, MishapType DEF ReleaseRestart
<1>8. CASE ReleaseRow(r)
  <2>1. TypeWork'
    BY <1>8, ReqType DEF ReleaseRow, ReqPc, TypeWork
  <2>2. TypePostgres'
    BY <1>8 DEF ReleaseRow, TypePostgres
  <2> QED
    BY <1>8, <2>1, <2>2, TypeKept, MishapType DEF ReleaseRow
<1> QED
  BY <1>1, <1>2, <1>3, <1>4, <1>5, <1>6, <1>7, <1>8 DEF RequestStep, Handler

LEMMA TypeAdmin ==
  ASSUME TypeOK, AdminNext
  PROVE  TypeOK'
<1> USE DEF TypeOK
<1>1. CASE PausePg
  <2>1. TypeWork'
    BY <1>1 DEF PausePg, AdminStep, AdminPc, TypeWork
  <2>2. TypePostgres'
    BY <1>1 DEF PausePg, TypePostgres
  <2> QED
    BY <1>1, <2>1, <2>2, TypeKept, MishapType DEF PausePg
<1>2. CASE PauseRedis
  <2>1. TypeWork'
    BY <1>2 DEF PauseRedis, AdminStep, AdminPc, TypeWork
  <2>2. TypeRedis'
    BY <1>2 DEF PauseRedis, TypeRedis
  <2> QED
    BY <1>2, <2>1, <2>2, TypeKept, MishapType DEF PauseRedis
<1>3. CASE PauseStop
  <2>1. TypeWork'
    BY <1>3 DEF PauseStop, AdminStep, AdminPc, TypeWork
  <2>2. TypeFlags'
    BY <1>3, Zenon DEF PauseStop, TypeFlags
  <2> QED
    BY <1>3, <2>1, <2>2, TypeKept, MishapType DEF PauseStop
<1>4. CASE ResumePg
  <2>1. TypeWork'
    BY <1>4 DEF ResumePg, AdminStep, AdminPc, TypeWork
  <2>2. TypePostgres'
    BY <1>4 DEF ResumePg, TypePostgres
  <2> QED
    BY <1>4, <2>1, <2>2, TypeKept, MishapType DEF ResumePg
<1>5. CASE ResumeRedis
  <2>1. TypeWork'
    BY <1>5 DEF ResumeRedis, AdminStep, AdminPc, TypeWork
  <2>2. TypeRedis'
    BY <1>5 DEF ResumeRedis, TypeRedis
  <2> QED
    BY <1>5, <2>1, <2>2, TypeKept, MishapType DEF ResumeRedis
<1>6. CASE ResumeWarm
  <2>1. TypeWork'
    BY <1>6 DEF ResumeWarm, AdminStep, AdminPc, TypeWork
  <2>2. TypeFlags'
    BY <1>6, Zenon DEF ResumeWarm, TypeFlags
  <2> QED
    BY <1>6, <2>1, <2>2, TypeKept, MishapType DEF ResumeWarm
<1>7. CASE EndPg
  <2>1. TypeWork'
    BY <1>7 DEF EndPg, AdminStep, AdminPc, TypeWork
  <2>2. TypePostgres'
    BY <1>7 DEF EndPg, TypePostgres
  <2> QED
    BY <1>7, <2>1, <2>2, TypeKept, MishapType DEF EndPg
<1>8. CASE EndRedis
  <2>1. TypeWork'
    BY <1>8 DEF EndRedis, AdminStep, AdminPc, TypeWork
  <2>2. TypeRedis'
    BY <1>8, NobodyType DEF EndRedis, TypeRedis
  <2> QED
    BY <1>8, <2>1, <2>2, TypeKept, MishapType DEF EndRedis
<1>9. CASE EndStop
  <2>1. TypeWork'
    BY <1>9 DEF EndStop, AdminStep, AdminPc, TypeWork
  <2>2. TypeFlags'
    BY <1>9, Zenon DEF EndStop, TypeFlags
  <2> QED
    BY <1>9, <2>1, <2>2, TypeKept, MishapType DEF EndStop
<1>10. CASE AdminFails
  <2>1. TypeWork'
    BY <1>10 DEF AdminFails, AdminPc, TypeWork
  <2> QED
    BY <1>10, <2>1, TypeKept, MishapType DEF AdminFails
<1>11. CASE UpdateCapacity
  <2>1. TypeRedis'
    BY <1>11 DEF UpdateCapacity, TypeRedis
  <2>2. TypeWork'
    BY <1>11 DEF UpdateCapacity, TypeWork, node
  <2>3. UNCHANGED <<drainOn, cached, filling, booting>>
    BY <1>11 DEF UpdateCapacity, node
  <2> QED
    BY <1>11, <2>1, <2>2, <2>3, TypeKept, MishapType DEF UpdateCapacity
<1> QED
  BY <1>1, <1>2, <1>3, <1>4, <1>5, <1>6, <1>7, <1>8, <1>9, <1>10, <1>11 DEF AdminNext

\* Every step keeps the types, from a state whose tickets are genuine.
LEMMA TypeNext ==
  ASSUME TypeOK, TicketsGenuine, [Next]_vars
  PROVE  TypeOK'
<1>1. ASSUME NEW u \in Users, Join(u) PROVE TypeOK'
  <2> PICK ms \in {now, now + 1} : now' = ms /\ queue' = [queue EXCEPT ![u] = ms]
    BY <1>1 DEF Join
  <2>1. ms \in Nat \ {0}
    BY DEF TypeOK, TypeHistory
  <2>2. TypeRedis'
    BY <1>1, <2>1 DEF Join, TypeOK, TypeRedis
  <2>3. TypeHistory'
    BY <1>1, <2>1 DEF Join, TypeOK, TypeHistory
  <2>4. TypeWork'
    BY <1>1 DEF Join, TypeOK, TypeWork, node
  <2>5. UNCHANGED <<drainOn, cached, filling, booting>>
    BY <1>1 DEF Join, node
  <2> QED
    BY <1>1, <2>2, <2>3, <2>4, <2>5, TypeKept, MishapType DEF Join, TypeOK
<1>2. CASE LookupMiss
  <2>1. TypeFlags'
    BY <1>2, Zenon DEF LookupMiss, TypeOK, TypeFlags
  <2>2. TypeWork'
    BY <1>2 DEF LookupMiss, TypeOK, TypeWork
  <2> QED
    BY <1>2, <2>1, <2>2, TypeKept, MishapType DEF LookupMiss, TypeOK
<1>3. CASE LookupFill
  <2>1. TypeFlags'
    BY <1>3, Zenon DEF LookupFill, TypeOK, TypeFlags
  <2>2. TypeWork'
    BY <1>3 DEF LookupFill, TypeOK, TypeWork
  <2> QED
    BY <1>3, <2>1, <2>2, TypeKept, MishapType DEF LookupFill, TypeOK
<1>4. ASSUME NEW d \in Ticks, DrainStep(d) PROVE TypeOK'
  BY <1>4, TypeDrain
<1>5. ASSUME NEW r \in Requests, RequestStep(r) PROVE TypeOK'
  BY <1>5, TypeRequest
<1>6. ASSUME NEW j \in Jtis, Expire(j) PROVE TypeOK'
  <2>1. TypeRedis'
    BY <1>6 DEF Expire, TypeOK, TypeRedis
  <2>2. TypeHistory'
    BY <1>6 DEF Expire, TypeOK, TypeHistory
  <2>3. TypeWork'
    BY <1>6 DEF Expire, TypeOK, TypeWork, node
  <2>4. UNCHANGED <<drainOn, cached, filling, booting>>
    BY <1>6 DEF Expire, node
  <2> QED
    BY <1>6, <2>1, <2>2, <2>3, <2>4, TypeKept, MishapType DEF Expire, TypeOK
<1>7. CASE AdminNext
  BY <1>7, TypeAdmin
<1>8. CASE Crash
  <2>1. TypeFlags'
    BY <1>8, Zenon DEF Crash, TypeFlags
  <2>2. TypeWork'
    BY <1>8, IdleType DEF Crash, TypeWork, AdminPc
  <2>3. mishaps' \in Nat
    BY <1>8, CrashCounts DEF Crash, TypeOK, TypeHistory
  <2> QED
    BY <1>8, <2>1, <2>2, <2>3, TypeKept DEF Crash, TypeOK
<1>9. CASE InitDrainsRead
  <2>1. TypeFlags'
    BY <1>9, Zenon DEF InitDrainsRead, TypeOK, TypeFlags
  <2>2. TypeWork'
    BY <1>9 DEF InitDrainsRead, TypeOK, TypeWork
  <2> QED
    BY <1>9, <2>1, <2>2, TypeKept, MishapType DEF InitDrainsRead, TypeOK
<1>10. CASE InitDrainsStart
  <2>1. TypeFlags'
    BY <1>10, Zenon DEF InitDrainsStart, TypeOK, TypeFlags
  <2>2. TypeWork'
    BY <1>10 DEF InitDrainsStart, TypeOK, TypeWork
  <2> QED
    BY <1>10, <2>1, <2>2, TypeKept, MishapType DEF InitDrainsStart, TypeOK
<1>11. CASE UNCHANGED vars
  BY <1>11, TypeKept, MishapType DEF vars, node, TypeOK, TypeWork
<1> QED
  BY <1>1, <1>2, <1>3, <1>4, <1>5, <1>6, <1>7, <1>8, <1>9, <1>10, <1>11 DEF Next

-----------------------------------------------------------------------------
(* Tickets are genuine.                                                    *)

LEMMA GenuineInit == Init => TicketsGenuine
  BY DEF Init, TicketsGenuine, RowsGenuine, RequestsGenuine, TicksGenuine, IdleReq, IdleTick

\* What a step does not touch stays genuine.
LEMMA GenuineKept ==
  ASSUME TicketsGenuine, UNCHANGED owner
  PROVE  /\ Minted' = Minted
         /\ UNCHANGED <<won, used, released, sold, returned>> => RowsGenuine'
         /\ UNCHANGED req => RequestsGenuine'
         /\ UNCHANGED tick => TicksGenuine'
<1>1. Minted' = Minted
  BY DEF Minted
<1> QED
  BY <1>1 DEF TicketsGenuine, RowsGenuine, RequestsGenuine, TicksGenuine

\* Where a tick goes on to: idle, or the next claim.
LEMMA NextUserGenuine ==
  ASSUME TypeWork, TicketsGenuine, NEW d \in Ticks, NextUser(d), UNCHANGED owner
  PROVE  TicksGenuine'
<1>1. tick'[d].pc \in {"idle", "claim"} /\ \A e \in Ticks \ {d} : tick'[e] = tick[e]
  BY DEF NextUser, IdleTick, TypeWork
<1> QED
  BY <1>1, GenuineKept DEF TicketsGenuine, TicksGenuine

LEMMA GenuineDrain ==
  ASSUME TypeOK, TicketsGenuine, NEW d \in Ticks, DrainStep(d)
  PROVE  TicketsGenuine'
<1> USE DEF TypeOK
<1>1. CASE TickStart(d)
  <2>1. UNCHANGED <<owner, req, won, used, released, sold, returned>>
    BY <1>1 DEF TickStart, history, past, postgres
  <2>2. TicksGenuine'
    BY <1>1, <2>1, GenuineKept DEF TickStart, TicketsGenuine, TicksGenuine, TypeWork, Tick, IdleTick
  <2> QED
    BY <2>1, <2>2, GenuineKept DEF TicketsGenuine
<1>2. CASE Pop(d)
  <2>1. UNCHANGED <<owner, req, won, used, released, sold, returned>>
    BY <1>2 DEF Pop, history, past, postgres
  <2>2. TicksGenuine'
    BY <1>2, <2>1, GenuineKept DEF Pop, TicketsGenuine, TicksGenuine, TypeWork, Tick, IdleTick
  <2> QED
    BY <2>1, <2>2, GenuineKept DEF TicketsGenuine
<1>3. CASE Claim(d)
  <2>1. UNCHANGED <<owner, req, won, used, released, sold, returned>>
    BY <1>3 DEF Claim, history, past, postgres
  <2>2. PICK u \in Users :
         \/ tick' = [tick EXCEPT ![d].pc = "lookup", ![d].cur = u, ![d].batch[u] = 0]
         \/ tick' = [tick EXCEPT ![d].pc = "bulk", ![d].batch[u] = 0]
    BY <1>3 DEF Claim
  <2>3. TicksGenuine'
    <3>1. CASE tick' = [tick EXCEPT ![d].pc = "lookup", ![d].cur = u, ![d].batch[u] = 0]
      BY <2>1, <3>1, GenuineKept DEF TicketsGenuine, TicksGenuine, TypeWork, Tick
    <3>2. CASE tick' = [tick EXCEPT ![d].pc = "bulk", ![d].batch[u] = 0]
      BY <2>1, <3>2, GenuineKept DEF TicketsGenuine, TicksGenuine, TypeWork, Tick
    <3> QED
      BY <2>2, <3>1, <3>2
  <2> QED
    BY <2>1, <2>3, GenuineKept DEF TicketsGenuine
<1>4. CASE Lookup(d)
  <2>1. UNCHANGED <<owner, req, won, used, released, sold, returned>>
    BY <1>4 DEF Lookup, history, past, postgres
  <2>2. TicksGenuine'
    BY <1>4, <2>1, GenuineKept DEF Lookup, TicketsGenuine, TicksGenuine, TypeWork, Tick, IdleTick
  <2> QED
    BY <2>1, <2>2, GenuineKept DEF TicketsGenuine
<1>5. CASE Fill(d)
  <2>1. UNCHANGED <<owner, req, won, used, released, sold, returned>>
    BY <1>5 DEF Fill, history, past, postgres
  <2>2. TicksGenuine'
    BY <1>5, <2>1, GenuineKept DEF Fill, TicketsGenuine, TicksGenuine, TypeWork, Tick, IdleTick
  <2> QED
    BY <2>1, <2>2, GenuineKept DEF TicketsGenuine
<1>6. CASE Sign(d)
  <2> PICK j \in Jtis :
         \/ /\ owner' = [owner EXCEPT ![j] = tick[d].cur]
            /\ tick' \in {[tick EXCEPT ![d].pc = "audit", ![d].jti = j], [tick EXCEPT ![d] = IdleTick]}
         \/ owner' = owner /\ tick' = [tick EXCEPT ![d] = IdleTick]
    BY <1>6 DEF Sign
  <2>1. tick[d].cur \in Users
    BY <1>6 DEF Sign, TicketsGenuine, TicksGenuine
  <2>2. Minted \subseteq Minted' /\ (tick'[d].pc = "audit" => j \in Minted')
    BY <2>1, SaleAssumption DEF Minted, TypeHistory, TypeWork, IdleTick
  <2>3. RowsGenuine'
    BY <1>6, <2>2 DEF Sign, TicketsGenuine, RowsGenuine, postgres
  <2>4. RequestsGenuine'
    BY <1>6, <2>2 DEF Sign, TicketsGenuine, RequestsGenuine
  <2>5. TicksGenuine'
    <3>1. tick'[d].pc = "audit" => tick'[d].jti = j
      BY DEF TypeWork, Tick, IdleTick
    <3>2. tick'[d].pc \in {"audit", "idle"} /\ (tick'[d].pc = "audit" => tick'[d].cur = tick[d].cur)
      BY DEF TypeWork, Tick, IdleTick
    <3>3. \A e \in Ticks \ {d} : tick'[e] = tick[e]
      BY DEF TypeWork
    <3> QED
      BY <2>1, <2>2, <3>1, <3>2, <3>3 DEF TicketsGenuine, TicksGenuine
  <2> QED
    BY <2>3, <2>4, <2>5 DEF TicketsGenuine
<1>7. CASE SignFails(d)
  <2>1. UNCHANGED <<owner, req, won, used, released, sold, returned>>
    BY <1>7 DEF SignFails, history, past, postgres
  <2>2. TicksGenuine'
    BY <1>7, <2>1, GenuineKept DEF SignFails, TicketsGenuine, TicksGenuine, TypeWork, Tick, IdleTick
  <2> QED
    BY <2>1, <2>2, GenuineKept DEF TicketsGenuine
<1>8. CASE Refund(d)
  <2>1. UNCHANGED <<owner, req, won, used, released, sold, returned>> /\ NextUser(d)
    BY <1>8 DEF Refund, history, past, postgres
  <2> QED
    BY <2>1, GenuineKept, NextUserGenuine DEF TicketsGenuine
<1>9. CASE Audit(d)
  <2>1. UNCHANGED <<owner, req, used, released, sold, returned>> /\ NextUser(d)
    BY <1>9 DEF Audit, history, past
  <2>2. RowsGenuine'
    BY <1>9, <2>1, GenuineKept DEF Audit, TicketsGenuine, RowsGenuine, TicksGenuine
  <2> QED
    BY <2>1, <2>2, GenuineKept, NextUserGenuine DEF TicketsGenuine
<1>10. CASE BulkSoldOut(d)
  <2>1. UNCHANGED <<owner, req, won, used, released, sold, returned>>
    BY <1>10 DEF BulkSoldOut, history, past, postgres
  <2>2. TicksGenuine'
    BY <1>10, <2>1, GenuineKept DEF BulkSoldOut, TicketsGenuine, TicksGenuine, TypeWork, Tick, IdleTick
  <2> QED
    BY <2>1, <2>2, GenuineKept DEF TicketsGenuine
<1>11. CASE TickFails(d)
  <2>1. UNCHANGED <<owner, req, won, used, released, sold, returned>>
    BY <1>11 DEF TickFails, history, past, postgres
  <2>2. TicksGenuine'
    BY <1>11, <2>1, GenuineKept DEF TickFails, TicketsGenuine, TicksGenuine, TypeWork, Tick, IdleTick
  <2> QED
    BY <2>1, <2>2, GenuineKept DEF TicketsGenuine
<1> QED
  BY <1>1, <1>2, <1>3, <1>4, <1>5, <1>6, <1>7, <1>8, <1>9, <1>10, <1>11 DEF DrainStep

LEMMA GenuineRequest ==
  ASSUME TypeOK, TicketsGenuine, NEW r \in Requests, RequestStep(r)
  PROVE  TicketsGenuine'
<1> USE DEF TypeOK
<1>1. ASSUME NEW j \in Jtis, VerifyStart(r, j) PROVE TicketsGenuine'
  <2>1. UNCHANGED <<owner, tick, won, used, released, sold, returned>>
    BY <1>1 DEF VerifyStart, history, past, postgres
  <2>2. RequestsGenuine'
    BY <1>1, <2>1, GenuineKept DEF VerifyStart, TicketsGenuine, RequestsGenuine, RowsGenuine, Winning, TypeWork, Req, IdleReq
  <2> QED
    BY <2>1, <2>2, GenuineKept DEF TicketsGenuine
<1>2. ASSUME NEW j \in Jtis, ReleaseStart(r, j) PROVE TicketsGenuine'
  <2>1. UNCHANGED <<owner, tick, won, used, released, sold, returned>>
    BY <1>2 DEF ReleaseStart, history, past, postgres
  <2>2. RequestsGenuine'
    BY <1>2, <2>1, GenuineKept DEF ReleaseStart, TicketsGenuine, RequestsGenuine, RowsGenuine, Winning, TypeWork, Req, IdleReq
  <2> QED
    BY <2>1, <2>2, GenuineKept DEF TicketsGenuine
<1>3. CASE VerifyInsert(r)
  <2>1. UNCHANGED <<owner, tick>>
    BY <1>3 DEF VerifyInsert, history, past, postgres
  <2>2. RequestsGenuine'
    BY <1>3, <2>1, GenuineKept DEF VerifyInsert, TicketsGenuine, RequestsGenuine, RowsGenuine, Winning, TypeWork, Req, IdleReq
  <2>3. RowsGenuine'
    BY <1>3, <2>1, GenuineKept DEF VerifyInsert, TicketsGenuine, RequestsGenuine, RowsGenuine
  <2> QED
    BY <2>1, <2>2, <2>3, GenuineKept DEF TicketsGenuine
<1>4. CASE VerifyDecr(r)
  <2>1. UNCHANGED <<owner, tick, won, used, released, sold, returned>>
    BY <1>4 DEF VerifyDecr, history, past, postgres
  <2>2. RequestsGenuine'
    BY <1>4, <2>1, GenuineKept DEF VerifyDecr, TicketsGenuine, RequestsGenuine, RowsGenuine, Winning, TypeWork, Req, IdleReq
  <2> QED
    BY <2>1, <2>2, GenuineKept DEF TicketsGenuine
<1>5. CASE ReleaseMulti(r)
  <2>1. UNCHANGED <<owner, tick>>
    BY <1>5 DEF ReleaseMulti, history, past, postgres
  <2>2. RequestsGenuine'
    BY <1>5, <2>1, GenuineKept DEF ReleaseMulti, TicketsGenuine, RequestsGenuine, RowsGenuine, Winning, TypeWork, Req, IdleReq
  <2>3. RowsGenuine'
    <3>1. req[r].jti \in Minted
      BY <1>5 DEF ReleaseMulti, TicketsGenuine, RequestsGenuine
    <3> QED
      BY <1>5, <2>1, <3>1, GenuineKept DEF ReleaseMulti, TicketsGenuine, RowsGenuine, postgres, history, past
  <2> QED
    BY <2>1, <2>2, <2>3, GenuineKept DEF TicketsGenuine
<1>6. CASE ReleaseDecr(r)
  <2>1. UNCHANGED <<owner, tick, won, used, released, sold, returned>>
    BY <1>6 DEF ReleaseDecr, history, past, postgres
  <2>2. RequestsGenuine'
    BY <1>6, <2>1, GenuineKept DEF ReleaseDecr, TicketsGenuine, RequestsGenuine, RowsGenuine, Winning, TypeWork, Req, IdleReq
  <2> QED
    BY <2>1, <2>2, GenuineKept DEF TicketsGenuine
<1>7. CASE ReleaseRestart(r)
  <2>1. UNCHANGED <<owner, tick, won, used, released, sold, returned>>
    BY <1>7 DEF ReleaseRestart, history, past, postgres
  <2>2. RequestsGenuine'
    BY <1>7, <2>1, GenuineKept DEF ReleaseRestart, TicketsGenuine, RequestsGenuine, RowsGenuine, Winning, TypeWork, Req, IdleReq
  <2> QED
    BY <2>1, <2>2, GenuineKept DEF TicketsGenuine
<1>8. CASE ReleaseRow(r)
  <2>1. UNCHANGED <<owner, tick>>
    BY <1>8 DEF ReleaseRow, history, past, postgres
  <2>2. RequestsGenuine'
    BY <1>8, <2>1, GenuineKept DEF ReleaseRow, TicketsGenuine, RequestsGenuine, RowsGenuine, Winning, TypeWork, Req, IdleReq
  <2>3. RowsGenuine'
    <3>1. req[r].jti \in Minted
      BY <1>8 DEF ReleaseRow, TicketsGenuine, RequestsGenuine
    <3> QED
      BY <1>8, <2>1, <3>1, GenuineKept DEF ReleaseRow, TicketsGenuine, RowsGenuine, postgres, history, past
  <2> QED
    BY <2>1, <2>2, <2>3, GenuineKept DEF TicketsGenuine
<1> QED
  BY <1>1, <1>2, <1>3, <1>4, <1>5, <1>6, <1>7, <1>8 DEF RequestStep, Handler

LEMMA GenuineNext ==
  ASSUME TypeOK, TicketsGenuine, [Next]_vars
  PROVE  TicketsGenuine'
<1> DEFINE Kept == UNCHANGED <<owner, tick, req, won, used, released, sold, returned>>
<1>1. Kept => TicketsGenuine'
  BY GenuineKept DEF TicketsGenuine
<1> HIDE DEF Kept
<1>2. ASSUME NEW u \in Users, Join(u) PROVE Kept
  BY <1>2 DEF Join, Kept, node, postgres
<1>3. LookupMiss \/ LookupFill \/ InitDrainsRead \/ InitDrainsStart => Kept
  BY DEF LookupMiss, LookupFill, InitDrainsRead, InitDrainsStart, Kept, history, past, postgres
<1>4. ASSUME NEW d \in Ticks, DrainStep(d) PROVE TicketsGenuine'
  BY <1>4, GenuineDrain
<1>5. ASSUME NEW r \in Requests, RequestStep(r) PROVE TicketsGenuine'
  BY <1>5, GenuineRequest
<1>6. ASSUME NEW j \in Jtis, Expire(j) PROVE Kept
  BY <1>6 DEF Expire, Kept, node, postgres
<1>7. AdminNext => Kept
  BY DEF AdminNext, PausePg, PauseRedis, PauseStop, ResumePg, ResumeRedis, ResumeWarm,
         EndPg, EndRedis, EndStop, AdminFails, UpdateCapacity, Kept, history, past, postgres, node
<1>8. CASE Crash
  BY <1>8, GenuineKept DEF Crash, TicketsGenuine, RequestsGenuine, TicksGenuine,
                           IdleTick, IdleReq, history, past, postgres
<1>9. UNCHANGED vars => Kept
  BY DEF vars, Kept, history, past, postgres, node
<1> QED
  BY <1>1, <1>2, <1>3, <1>4, <1>5, <1>6, <1>7, <1>8, <1>9 DEF Next

\* Every variable keeps its type, and no ticket is verified, recorded or given
\* back that was not issued: releases of a made-up jti are refused.
THEOREM TypeCorrect == Spec => [](TypeOK /\ TicketsGenuine)
<1>1. Init => TypeOK /\ TicketsGenuine
  BY TypeInit, GenuineInit
<1>2. TypeOK /\ TicketsGenuine /\ [Next]_vars => TypeOK' /\ TicketsGenuine'
  BY TypeNext, GenuineNext
<1> QED
  BY <1>1, <1>2, PTL DEF Spec

-----------------------------------------------------------------------------
(* Units. Those in stock, those claimed by running ticks and those held by *)
(* tickets are counted; each step moves a unit from one of the three to    *)
(* another, loses it with a mishap, or returns it twice and counts that in *)
(* dup.                                                                    *)

\* What was lost and what was made up, apart: units vanish only with a mishap, and come
\* into being only when one ticket is given back twice.
UnitsExplained ==
  /\ stock >= 0
  /\ stock + Cardinality(Claimed) + Cardinality(Live) <= StockCount + dup
  /\ stock + Cardinality(Claimed) + Cardinality(Live) + mishaps >= StockCount + dup

HoldsUnit == {"lookup", "fill", "sign", "refund"}

LEMMA ElementSize ==
  ASSUME NEW S, IsFiniteSet(S), NEW x
  PROVE  /\ Cardinality(S) \in Nat
         /\ IsFiniteSet(S \cup {x}) /\ IsFiniteSet(S \ {x})
         /\ Cardinality(S \cup {x}) = IF x \in S THEN Cardinality(S) ELSE Cardinality(S) + 1
         /\ Cardinality(S \ {x}) = IF x \in S THEN Cardinality(S) - 1 ELSE Cardinality(S)
  BY FS_CardinalityType, FS_AddElement, FS_RemoveElement

LEMMA UnitsFinite == IsFiniteSet(Claimed) /\ IsFiniteSet(Live)
<1>1. Claimed \subseteq Ticks /\ Live \subseteq Jtis
  BY DEF Claimed, Live, Minted
<1> QED
  BY <1>1, FS_Subset, SaleAssumption

\* One tick moves: it comes to hold a unit, or holds none any more.
LEMMA ClaimedMoves ==
  ASSUME NEW d \in Ticks, \A e \in Ticks \ {d} : tick'[e].pc = tick[e].pc
  PROVE  Claimed' = IF tick'[d].pc \in HoldsUnit THEN Claimed \cup {d} ELSE Claimed \ {d}
  BY DEF Claimed, HoldsUnit

LEMMA LiveKept == UNCHANGED <<owner, returned>> => Live' = Live
  BY DEF Live, Minted

\* The count of mishaps never falls.
LEMMA MishapsGrow ==
  ASSUME TypeOK, [Next]_vars
  PROVE  mishaps' \in Nat /\ mishaps <= mishaps'
<1> DEFINE Grows == mishaps' = mishaps \/ mishaps' = mishaps + 1
<1> USE DEF Mishap
<1>1. ASSUME NEW u \in Users, Join(u) PROVE Grows
  BY <1>1 DEF Join
<1>2. LookupMiss \/ LookupFill \/ InitDrainsRead \/ InitDrainsStart => Grows
  BY DEF LookupMiss, LookupFill, InitDrainsRead, InitDrainsStart, history
<1>3. ASSUME NEW d \in Ticks, DrainStep(d) PROVE Grows
  BY <1>3 DEF DrainStep, TickStart, Pop, Claim, Lookup, Fill, Sign, SignFails, Refund, Audit,
              BulkSoldOut, TickFails, history
<1>4. ASSUME NEW r \in Requests, RequestStep(r) PROVE Grows
  BY <1>4 DEF RequestStep, Handler, VerifyStart, VerifyInsert, VerifyDecr, ReleaseStart, ReleaseMulti,
              ReleaseDecr, ReleaseRestart, ReleaseRow, history
<1>5. ASSUME NEW j \in Jtis, Expire(j) PROVE Grows
  BY <1>5 DEF Expire
<1>6. AdminNext => Grows
  BY DEF AdminNext, PausePg, PauseRedis, PauseStop, ResumePg, ResumeRedis, ResumeWarm,
         EndPg, EndRedis, EndStop, AdminFails, UpdateCapacity, history
<1>7. CASE Crash
  BY <1>7, CrashCounts DEF Crash, TypeOK, TypeHistory
<1>8. CASE UNCHANGED vars
  BY <1>8 DEF vars, history, TypeOK, TypeHistory
<1>9. Grows => mishaps' \in Nat /\ mishaps <= mishaps'
  BY DEF TypeOK, TypeHistory
<1> QED
  BY <1>1, <1>2, <1>3, <1>4, <1>5, <1>6, <1>7, <1>8, <1>9 DEF Next

\* A tick that changes no stock and comes to hold no unit; it loses its own at a mishap.
LEMMA StockKept ==
  ASSUME TypeOK, UnitsExplained, NEW d \in Ticks,
         \A e \in Ticks \ {d} : tick'[e].pc = tick[e].pc,
         \/ (tick'[d].pc \in HoldsUnit <=> tick[d].pc \in HoldsUnit) /\ UNCHANGED mishaps
         \/ tick'[d].pc \notin HoldsUnit /\ mishaps' = mishaps + 1,
         UNCHANGED <<stock, owner, returned, dup>>
  PROVE  UnitsExplained'
<1>1. Cardinality(Claimed) \in Nat /\ Cardinality(Live) \in Nat
  BY UnitsFinite, ElementSize
<1>2. stock \in Int /\ dup \in Nat /\ StockCount \in Nat /\ mishaps \in Nat
  BY SaleAssumption DEF TypeOK, TypeRedis, TypeHistory
<1>3. CASE Claimed' = Claimed /\ mishaps' \in {mishaps, mishaps + 1}
  BY <1>1, <1>2, <1>3, LiveKept DEF UnitsExplained
<1>4. CASE Claimed' = Claimed \ {d} /\ mishaps' = mishaps + 1
  <2>1. Cardinality(Claimed') \in {Cardinality(Claimed), Cardinality(Claimed) - 1}
    BY <1>4, UnitsFinite, ElementSize
  <2> QED
    BY <1>1, <1>2, <1>4, <2>1, LiveKept DEF UnitsExplained
<1>5. (Claimed' = Claimed /\ UNCHANGED mishaps) \/ (Claimed' = Claimed \ {d} /\ mishaps' = mishaps + 1)
  BY ClaimedMoves DEF Claimed, HoldsUnit
<1> QED
  BY <1>3, <1>4, <1>5

\* A step that moves no tick, issues no ticket and returns none.
LEMMA StockFramed ==
  ASSUME TypeOK, UnitsExplained, UNCHANGED <<stock, tick, owner, returned, dup>>,
         mishaps' \in Nat, mishaps <= mishaps'
  PROVE  UnitsExplained'
<1>1. Cardinality(Claimed) \in Nat /\ Cardinality(Live) \in Nat
  BY UnitsFinite, ElementSize
<1>2. stock \in Int /\ dup \in Nat /\ StockCount \in Nat /\ mishaps \in Nat
  BY SaleAssumption DEF TypeOK, TypeRedis, TypeHistory
<1>3. Claimed' = Claimed /\ Live' = Live
  BY LiveKept DEF Claimed
<1> QED
  BY <1>1, <1>2, <1>3 DEF UnitsExplained

LEMMA StockInit == Init => UnitsExplained
<1> SUFFICES ASSUME Init PROVE UnitsExplained
  OBVIOUS
<1>1. Claimed = {} /\ Live = {}
  BY DEF Init, Claimed, Live, Minted, IdleTick
<1> QED
  BY <1>1, FS_EmptySet, SaleAssumption DEF Init, UnitsExplained

LEMMA StockDrain ==
  ASSUME TypeOK, TicketsGenuine, UnitsExplained, NEW d \in Ticks, DrainStep(d)
  PROVE  UnitsExplained'
<1> DEFINE OthersKeep == \A e \in Ticks \ {d} : tick'[e].pc = tick[e].pc
<1> USE DEF TypeOK
<1>sizes. Cardinality(Claimed) \in Nat /\ Cardinality(Live) \in Nat
  BY UnitsFinite, ElementSize
<1>ints. stock \in Int /\ dup \in Nat /\ StockCount \in Nat /\ mishaps \in Nat
  BY SaleAssumption DEF TypeRedis, TypeHistory
<1>1. CASE TickStart(d)
  <2>1. /\ OthersKeep /\ UNCHANGED mishaps
        /\ tick[d].pc \notin HoldsUnit /\ tick'[d].pc \notin HoldsUnit
    BY <1>1 DEF TickStart, TypeWork, Tick, HoldsUnit, history
  <2> QED
    BY <1>1, <2>1, StockKept DEF TickStart, redis, history, past
<1>2. CASE Pop(d)
  <2>1. /\ OthersKeep /\ UNCHANGED mishaps
        /\ tick[d].pc \notin HoldsUnit /\ tick'[d].pc \notin HoldsUnit
    BY <1>2 DEF Pop, TypeWork, Tick, IdleTick, HoldsUnit, history
  <2> QED
    BY <1>2, <2>1, StockKept DEF Pop, history, past
<1>3. CASE Claim(d)
  <2>1. UNCHANGED <<owner, returned, dup, mishaps>>
    BY <1>3 DEF Claim, history, past
  <2> PICK u \in Users :
         \/ /\ InStock /\ stock' = stock - 1
            /\ tick' = [tick EXCEPT ![d].pc = "lookup", ![d].cur = u, ![d].batch[u] = 0]
         \/ /\ stock' = stock
            /\ tick' = [tick EXCEPT ![d].pc = "bulk", ![d].batch[u] = 0]
    BY <1>3 DEF Claim
  <2>2. CASE /\ InStock /\ stock' = stock - 1
             /\ tick' = [tick EXCEPT ![d].pc = "lookup", ![d].cur = u, ![d].batch[u] = 0]
    <3>1. OthersKeep /\ tick'[d].pc \in HoldsUnit
      BY <2>2 DEF TypeWork, Tick, HoldsUnit
    <3>2. d \notin Claimed
      BY <1>3 DEF Claim, Claimed
    <3>3. Claimed' = Claimed \cup {d}
      BY <3>1, ClaimedMoves
    <3>4. Cardinality(Claimed \cup {d}) = Cardinality(Claimed) + 1
      BY <3>2, UnitsFinite, ElementSize
    <3> QED
      BY <1>sizes, <1>ints, <2>1, <2>2, <3>3, <3>4, LiveKept DEF UnitsExplained, InStock
  <2>3. CASE /\ stock' = stock
             /\ tick' = [tick EXCEPT ![d].pc = "bulk", ![d].batch[u] = 0]
    <3>1. OthersKeep /\ tick[d].pc \notin HoldsUnit /\ tick'[d].pc \notin HoldsUnit
      BY <1>3, <2>3 DEF Claim, TypeWork, Tick, HoldsUnit
    <3> QED
      BY <2>1, <2>3, <3>1, StockKept
  <2> QED
    BY <2>2, <2>3
<1>4. CASE Lookup(d)
  <2>1. /\ OthersKeep /\ UNCHANGED mishaps
        /\ tick[d].pc \in HoldsUnit /\ tick'[d].pc \in HoldsUnit
    BY <1>4 DEF Lookup, TypeWork, Tick, HoldsUnit, history
  <2> QED
    BY <1>4, <2>1, StockKept DEF Lookup, redis, history, past
<1>5. CASE Fill(d)
  <2>1. /\ OthersKeep /\ UNCHANGED mishaps
        /\ tick[d].pc \in HoldsUnit /\ tick'[d].pc \in HoldsUnit
    BY <1>5 DEF Fill, TypeWork, Tick, HoldsUnit, history
  <2> QED
    BY <1>5, <2>1, StockKept DEF Fill, redis, history, past
<1>6. CASE Sign(d)
  <2> PICK j \in Jtis :
         /\ owner[j] = NoUser
         /\ \/ owner' = [owner EXCEPT ![j] = tick[d].cur] /\ mishaps' \in {mishaps, mishaps + 1}
            \/ owner' = owner /\ mishaps' = mishaps + 1
         /\ tick' \in {[tick EXCEPT ![d].pc = "audit", ![d].jti = j], [tick EXCEPT ![d] = IdleTick]}
    BY <1>6 DEF Sign, Mishap
  <2>1. OthersKeep /\ tick'[d].pc \notin HoldsUnit
    BY DEF TypeWork, Tick, IdleTick, HoldsUnit
  <2>2. UNCHANGED <<stock, returned, dup>> /\ tick[d].cur \in Users
    BY <1>6 DEF Sign, TicketsGenuine, TicksGenuine
  <2>3. CASE owner' = [owner EXCEPT ![j] = tick[d].cur] /\ mishaps' \in {mishaps, mishaps + 1}
    <3>1. Claimed' = Claimed \ {d} /\ d \in Claimed
      BY <1>6, <2>1, ClaimedMoves DEF Sign, Claimed
    <3>2. Cardinality(Claimed \ {d}) = Cardinality(Claimed) - 1
      BY <3>1, UnitsFinite, ElementSize
    <3>3. j \notin Live /\ j \notin returned
      BY DEF Live, Minted, TicketsGenuine, RowsGenuine
    <3>4. Live' = Live \cup {j}
      BY <2>2, <2>3, <3>3, SaleAssumption DEF Live, Minted, TypeHistory
    <3>5. Cardinality(Live \cup {j}) = Cardinality(Live) + 1
      BY <3>3, UnitsFinite, ElementSize
    <3> QED
      BY <1>sizes, <1>ints, <2>2, <2>3, <3>1, <3>2, <3>4, <3>5 DEF UnitsExplained
  <2>4. CASE owner' = owner /\ mishaps' = mishaps + 1
    BY <2>1, <2>2, <2>4, StockKept
  <2> QED
    BY <2>3, <2>4
<1>7. CASE SignFails(d)
  <2>1. /\ OthersKeep /\ UNCHANGED mishaps
        /\ tick[d].pc \in HoldsUnit /\ tick'[d].pc \in HoldsUnit
    BY <1>7 DEF SignFails, TypeWork, Tick, HoldsUnit, history
  <2> QED
    BY <1>7, <2>1, StockKept DEF SignFails, redis, history, past
<1>8. CASE Refund(d)
  <2>1. /\ UNCHANGED <<owner, returned, dup>>
        /\ \/ stock' = stock + 1 /\ mishaps' \in {mishaps, mishaps + 1}
           \/ stock' = stock /\ mishaps' = mishaps + 1
    BY <1>8 DEF Refund, Mishap, past
  <2>2. OthersKeep /\ tick'[d].pc \notin HoldsUnit
    BY <1>8 DEF Refund, NextUser, TypeWork, Tick, IdleTick, HoldsUnit
  <2>3. Claimed' = Claimed \ {d} /\ d \in Claimed
    BY <1>8, <2>2, ClaimedMoves DEF Refund, Claimed
  <2>4. Cardinality(Claimed \ {d}) = Cardinality(Claimed) - 1
    BY <2>3, UnitsFinite, ElementSize
  <2> QED
    BY <1>sizes, <1>ints, <2>1, <2>3, <2>4, LiveKept DEF UnitsExplained
<1>9. CASE Audit(d)
  <2>1. /\ OthersKeep /\ mishaps' \in {mishaps, mishaps + 1}
        /\ tick[d].pc \notin HoldsUnit /\ tick'[d].pc \notin HoldsUnit
    BY <1>9 DEF Audit, Mishap, NextUser, TypeWork, Tick, IdleTick, HoldsUnit
  <2> QED
    BY <1>9, <2>1, StockKept DEF Audit, redis, history, past
<1>10. CASE BulkSoldOut(d)
  <2>1. /\ OthersKeep /\ UNCHANGED mishaps
        /\ tick[d].pc \notin HoldsUnit /\ tick'[d].pc \notin HoldsUnit
    BY <1>10 DEF BulkSoldOut, TypeWork, Tick, IdleTick, HoldsUnit, history
  <2> QED
    BY <1>10, <2>1, StockKept DEF BulkSoldOut, history, past
<1>11. CASE TickFails(d)
  <2>1. OthersKeep /\ tick'[d].pc \notin HoldsUnit /\ mishaps' = mishaps + 1
    BY <1>11 DEF TickFails, Mishap, TypeWork, Tick, IdleTick, HoldsUnit
  <2> QED
    BY <1>11, <2>1, StockKept DEF TickFails, redis, history, past
<1> QED
  BY <1>1, <1>2, <1>3, <1>4, <1>5, <1>6, <1>7, <1>8, <1>9, <1>10, <1>11 DEF DrainStep

LEMMA StockRequest ==
  ASSUME TypeOK, TicketsGenuine, UnitsExplained, NEW r \in Requests, RequestStep(r),
         mishaps' \in Nat, mishaps <= mishaps'
  PROVE  UnitsExplained'
<1> USE DEF TypeOK
<1>1. ASSUME NEW j \in Jtis, VerifyStart(r, j) \/ ReleaseStart(r, j)
      PROVE  UNCHANGED <<stock, tick, owner, returned, dup>>
  BY <1>1 DEF VerifyStart, ReleaseStart, redis, history, past
<1>2. VerifyInsert(r) \/ VerifyDecr(r) \/ ReleaseDecr(r) \/ ReleaseRestart(r) \/ ReleaseRow(r)
      => UNCHANGED <<stock, tick, owner, returned, dup>>
  BY DEF VerifyInsert, VerifyDecr, ReleaseDecr, ReleaseRestart, ReleaseRow, redis, history, past
<1>3. CASE ReleaseMulti(r)
  <2> DEFINE j == req[r].jti
  <2>1. UNCHANGED <<tick, owner>> /\ Claimed' = Claimed
    BY <1>3 DEF ReleaseMulti, Claimed
  <2>2. j \in Minted
    BY <1>3 DEF ReleaseMulti, TicketsGenuine, RequestsGenuine
  <2>3. Cardinality(Claimed) \in Nat /\ Cardinality(Live) \in Nat
    BY UnitsFinite, ElementSize
  <2>4. stock \in Int /\ dup \in Nat /\ StockCount \in Nat /\ mishaps \in Nat
    BY SaleAssumption DEF TypeRedis, TypeHistory
  <2>5. CASE UNCHANGED <<stock, returned, dup>>
    BY <2>1, <2>5, StockFramed
  <2>6. CASE /\ stock' = stock + 1 /\ returned' = returned \cup {j}
             /\ dup' = IF j \in returned THEN dup + 1 ELSE dup
    <3>1. Live' = Live \ {j} /\ (j \in Live <=> j \notin returned)
      BY <2>1, <2>2, <2>6 DEF Live, Minted
    <3>2. Cardinality(Live \ {j}) = IF j \in Live THEN Cardinality(Live) - 1 ELSE Cardinality(Live)
      BY UnitsFinite, ElementSize
    <3> HIDE DEF j
    <3>3. CASE j \in returned
      BY <2>1, <2>3, <2>4, <2>6, <3>1, <3>2, <3>3 DEF UnitsExplained
    <3>4. CASE j \notin returned
      BY <2>1, <2>3, <2>4, <2>6, <3>1, <3>2, <3>4 DEF UnitsExplained
    <3> QED
      BY <3>3, <3>4
  <2> QED
    BY <1>3, <2>5, <2>6 DEF ReleaseMulti
<1> QED
  BY <1>1, <1>2, <1>3, StockFramed DEF RequestStep, Handler

LEMMA StockNext ==
  ASSUME TypeOK, TicketsGenuine, UnitsExplained, [Next]_vars
  PROVE  UnitsExplained'
<1> DEFINE Framed == UNCHANGED <<stock, tick, owner, returned, dup>>
<1>0. mishaps' \in Nat /\ mishaps <= mishaps'
  BY MishapsGrow
<1>1. Framed => UnitsExplained'
  BY <1>0, StockFramed
<1> HIDE DEF Framed
<1>2. ASSUME NEW u \in Users, Join(u) PROVE Framed
  BY <1>2 DEF Join, Framed, node
<1>3. LookupMiss \/ LookupFill \/ InitDrainsRead \/ InitDrainsStart => Framed
  BY DEF LookupMiss, LookupFill, InitDrainsRead, InitDrainsStart, Framed, redis, history, past
<1>4. ASSUME NEW d \in Ticks, DrainStep(d) PROVE UnitsExplained'
  BY <1>4, StockDrain
<1>5. ASSUME NEW r \in Requests, RequestStep(r) PROVE UnitsExplained'
  BY <1>0, <1>5, StockRequest
<1>6. ASSUME NEW j \in Jtis, Expire(j) PROVE Framed
  BY <1>6 DEF Expire, Framed, node
<1>7. AdminNext => Framed
  BY DEF AdminNext, PausePg, PauseRedis, PauseStop, ResumePg, ResumeRedis, ResumeWarm,
         EndPg, EndRedis, EndStop, AdminFails, UpdateCapacity, Framed, redis, history, past, node
<1>8. CASE Crash
  <2>1. Claimed' = {} /\ UNCHANGED <<stock, owner, returned, dup>>
    BY <1>8 DEF Crash, Claimed, IdleTick, redis, past
  <2>2. Cardinality(Claimed) \in Nat /\ Cardinality(Live) \in Nat /\ Cardinality({}) = 0
    BY UnitsFinite, ElementSize, FS_EmptySet
  <2>3. Cardinality(Claimed) <= Cardinality(BusyTicks)
    <3>1. Claimed \subseteq BusyTicks
      BY DEF Claimed, BusyTicks
    <3> QED
      BY <3>1, CrashCounts, FS_Subset
  <2>4. mishaps' = mishaps + Cardinality(BusyTicks) + Cardinality(BusyRequests)
    BY <1>8 DEF Crash
  <2>5. stock \in Int /\ dup \in Nat /\ StockCount \in Nat /\ mishaps \in Nat
    BY SaleAssumption DEF TypeOK, TypeRedis, TypeHistory
  <2> QED
    BY <2>1, <2>2, <2>3, <2>4, <2>5, CrashCounts, LiveKept DEF UnitsExplained
<1>9. UNCHANGED vars => Framed
  BY DEF vars, Framed, redis, history, past, node
<1> QED
  BY <1>1, <1>2, <1>3, <1>4, <1>5, <1>6, <1>7, <1>8, <1>9 DEF Next

\* Whatever crashes, fails or overlaps: units come into being only when the unit of one
\* ticket goes back to stock twice, and no more than dup counts; they vanish only with a
\* lost call or a process, and no more than mishaps counts.
THEOREM NoOversell == Spec => []UnitsExplained
<1>1. Init => TypeOK /\ TicketsGenuine /\ UnitsExplained
  BY TypeInit, GenuineInit, StockInit
<1>2. TypeOK /\ TicketsGenuine /\ UnitsExplained /\ [Next]_vars
      => TypeOK' /\ TicketsGenuine' /\ UnitsExplained'
  BY TypeNext, GenuineNext, StockNext
<1> QED
  BY <1>1, <1>2, PTL DEF Spec

\* Without lost calls and crashes there is no mishap.
NoLoss == Faults \cap {"io", "crash"} = {}

LEMMA NoMishaps ==
  ASSUME NoLoss
  PROVE  Spec => [](mishaps = 0)
<1>1. Init => mishaps = 0
  BY DEF Init
<1>2. mishaps = 0 /\ [Next]_vars => (mishaps = 0)'
  <2> SUFFICES ASSUME mishaps = 0, [Next]_vars PROVE mishaps' = 0
    OBVIOUS
  <2> ~Mishap /\ ~Crash
    BY DEF NoLoss, Mishap, Crash
  <2>1. ASSUME NEW u \in Users, Join(u) PROVE mishaps' = 0
    BY <2>1 DEF Join
  <2>2. LookupMiss \/ LookupFill \/ InitDrainsRead \/ InitDrainsStart => mishaps' = 0
    BY DEF LookupMiss, LookupFill, InitDrainsRead, InitDrainsStart, history
  <2>3. ASSUME NEW d \in Ticks, DrainStep(d) PROVE mishaps' = 0
    BY <2>3 DEF DrainStep, TickStart, Pop, Claim, Lookup, Fill, Sign, SignFails, Refund, Audit,
                BulkSoldOut, TickFails, history
  <2>4. ASSUME NEW r \in Requests, RequestStep(r) PROVE mishaps' = 0
    BY <2>4 DEF RequestStep, Handler, VerifyStart, VerifyInsert, VerifyDecr, ReleaseStart, ReleaseMulti,
                ReleaseDecr, ReleaseRestart, ReleaseRow, history
  <2>5. ASSUME NEW j \in Jtis, Expire(j) PROVE mishaps' = 0
    BY <2>5 DEF Expire
  <2>6. AdminNext => mishaps' = 0
    BY DEF AdminNext, PausePg, PauseRedis, PauseStop, ResumePg, ResumeRedis, ResumeWarm,
           EndPg, EndRedis, EndStop, AdminFails, UpdateCapacity, history
  <2>7. UNCHANGED vars => mishaps' = 0
    BY DEF vars, history
  <2> QED
    BY <2>1, <2>2, <2>3, <2>4, <2>5, <2>6, <2>7 DEF Next
<1> QED
  BY <1>1, <1>2, PTL DEF Spec

\* Without lost calls and crashes no unit is lost: a claimed one becomes a ticket or goes
\* back, a released one is in stock again.
THEOREM NoUnitLost ==
  ASSUME NoLoss
  PROVE  Spec => []StockConserved
<1>1. TypeOK /\ UnitsExplained /\ mishaps = 0 => StockConserved
  <2>1. Cardinality(Claimed) \in Nat /\ Cardinality(Live) \in Nat
    BY UnitsFinite, ElementSize
  <2> QED
    BY <2>1, SaleAssumption DEF UnitsExplained, StockConserved, TypeOK, TypeRedis, TypeHistory
<1> QED
  BY <1>1, TypeCorrect, NoOversell, NoMishaps, PTL

-----------------------------------------------------------------------------
(* What a step of a drain does to its tick, point by point.                *)

\* A step of one tick leaves the others alone.
OthersStay(d) == \A e \in Ticks \ {d} : tick'[e] = tick[e]

\* Only the place in the code moves.
OnlyPc(d, pc) ==
  /\ OthersStay(d)
  /\ tick'[d].pc = pc /\ tick'[d].cur = tick[d].cur /\ tick'[d].batch = tick[d].batch

\* The tick has ended.
Ended(d) == OthersStay(d) /\ tick'[d] = IdleTick

LEMMA IdleTickFields ==
  /\ IdleTick.pc = "idle" /\ IdleTick.cur = NoUser
  /\ IdleTick.batch \in [Users -> Nat] /\ \A u \in Users : IdleTick.batch[u] = 0
  BY NobodyType DEF IdleTick, Nobody

LEMMA PcMoves ==
  ASSUME TypeWork, NEW d \in Ticks
  PROVE  /\ TickStart(d) => OnlyPc(d, "pop")
         /\ Lookup(d) => \E pc \in {"sign", "fill", "refund"} : OnlyPc(d, pc)
         /\ Fill(d) => OnlyPc(d, "sign")
         /\ SignFails(d) => OnlyPc(d, "refund")
         /\ BulkSoldOut(d) => Ended(d)
         /\ TickFails(d) => Ended(d)
<1> USE DEF TypeWork, Tick, OnlyPc, OthersStay
<1>1. ASSUME NEW pc, tick' = [tick EXCEPT ![d].pc = pc] PROVE OnlyPc(d, pc)
  BY <1>1
<1>2. TickStart(d) => OnlyPc(d, "pop")
  BY <1>1 DEF TickStart
<1>3. Lookup(d) => \E pc \in {"sign", "fill", "refund"} : OnlyPc(d, pc)
  BY <1>1 DEF Lookup
<1>4. Fill(d) => OnlyPc(d, "sign")
  BY <1>1 DEF Fill
<1>5. SignFails(d) => OnlyPc(d, "refund")
  BY <1>1 DEF SignFails
<1>6. BulkSoldOut(d) => Ended(d)
  BY DEF BulkSoldOut, Ended
<1>7. TickFails(d) => Ended(d)
  BY DEF TickFails, Ended
<1> QED
  BY <1>2, <1>3, <1>4, <1>5, <1>6, <1>7

\* ZPOPMIN moves S from the queue to the batch.
LEMMA PopMoves ==
  ASSUME TypeOK, NEW d \in Ticks, Pop(d)
  PROVE  \E S \in SUBSET Members(queue) :
           /\ IsPopMin(queue, RateLimit, S)
           /\ OthersStay(d)
           /\ tick'[d].pc = (IF S = {} THEN "idle" ELSE "claim")
           /\ \A u \in Users : tick'[d].batch[u] = IF u \in S THEN queue[u] ELSE 0
           /\ \A u \in Users : queue'[u] = IF u \in S THEN 0 ELSE queue[u]
<1> PICK S \in SUBSET Users :
      /\ IsPopMin(queue, RateLimit, S)
      /\ queue' = Without(queue, S)
      /\ tick' = [tick EXCEPT ![d] =
           IF S = {} THEN IdleTick ELSE [IdleTick EXCEPT !.pc = "claim", !.batch = Only(queue, S)]]
  BY DEF Pop
<1>1. S \in SUBSET Members(queue)
  BY DEF IsPopMin
<1>2. OthersStay(d) /\ tick'[d].pc = (IF S = {} THEN "idle" ELSE "claim")
  BY DEF OthersStay, TypeOK, TypeWork, IdleTick
<1>3. ASSUME NEW u \in Users PROVE tick'[d].batch[u] = IF u \in S THEN queue[u] ELSE 0
  BY DEF TypeOK, TypeWork, IdleTick, Only, Nobody
<1>4. ASSUME NEW u \in Users PROVE queue'[u] = IF u \in S THEN 0 ELSE queue[u]
  BY DEF Without
<1> QED
  BY <1>1, <1>2, <1>3, <1>4

\* drain-process.lua takes the next user out of the batch.
LEMMA ClaimMoves ==
  ASSUME TypeOK, NEW d \in Ticks, Claim(d)
  PROVE  \E u \in Users :
           /\ IsNext(d, u)
           /\ OthersStay(d)
           /\ \A v \in Users : tick'[d].batch[v] = IF v = u THEN 0 ELSE tick[d].batch[v]
           /\ \/ /\ InStock /\ stock' = stock - 1
                 /\ tick'[d].pc = "lookup" /\ tick'[d].cur = u
                 /\ \A v \in Users : result'[v] = IF v = u THEN "WON" ELSE result[v]
              \/ /\ ~InStock /\ stock' = stock
                 /\ tick'[d].pc = "bulk"
                 /\ \A v \in Users : result'[v] = IF v = u THEN "SOLD_OUT" ELSE result[v]
<1> PICK u \in Users :
      /\ IsNext(d, u)
      /\ \/ /\ InStock
            /\ stock' = stock - 1
            /\ result' = [result EXCEPT ![u] = "WON"]
            /\ tick' = [tick EXCEPT ![d].pc = "lookup", ![d].cur = u, ![d].batch[u] = 0]
         \/ /\ ~InStock
            /\ result' = [result EXCEPT ![u] = "SOLD_OUT"]
            /\ tick' = [tick EXCEPT ![d].pc = "bulk", ![d].batch[u] = 0]
            /\ UNCHANGED stock
  BY DEF Claim
<1>1. OthersStay(d) /\ \A v \in Users : tick'[d].batch[v] = IF v = u THEN 0 ELSE tick[d].batch[v]
  BY DEF OthersStay, TypeOK, TypeWork, Tick
<1>2. CASE /\ InStock /\ stock' = stock - 1
           /\ result' = [result EXCEPT ![u] = "WON"]
           /\ tick' = [tick EXCEPT ![d].pc = "lookup", ![d].cur = u, ![d].batch[u] = 0]
  BY <1>1, <1>2 DEF TypeOK, TypeWork, Tick, TypeRedis
<1>3. CASE /\ ~InStock /\ UNCHANGED stock
           /\ result' = [result EXCEPT ![u] = "SOLD_OUT"]
           /\ tick' = [tick EXCEPT ![d].pc = "bulk", ![d].batch[u] = 0]
  BY <1>1, <1>3 DEF TypeOK, TypeWork, Tick, TypeRedis
<1> QED
  BY <1>2, <1>3

\* A fresh jti is signed for the user in hand; the tick goes to the audit, or its call is
\* lost and the token may not have been parked.
LEMMA SignMoves ==
  ASSUME TypeOK, TicketsGenuine, NEW d \in Ticks, Sign(d)
  PROVE  \E j \in Jtis, parked \in BOOLEAN :
           /\ tick[d].cur \in Users /\ owner[j] = NoUser
           /\ \A i \in Jtis : owner'[i] = IF parked /\ i = j THEN tick[d].cur ELSE owner[i]
           /\ \A v \in Users : ticket'[v] = IF parked /\ v = tick[d].cur THEN j ELSE ticket[v]
           /\ OthersStay(d)
           /\ \/ /\ parked /\ UNCHANGED mishaps
                 /\ tick'[d].pc = "audit" /\ tick'[d].batch = tick[d].batch
                 /\ tick'[d].cur = tick[d].cur
                 /\ outstanding' = outstanding + 1
              \/ /\ "io" \in Faults /\ mishaps' = mishaps + 1
                 /\ tick'[d] = IdleTick
                 /\ outstanding' \in {outstanding, outstanding + 1}
<1> PICK j \in Jtis, parked \in BOOLEAN :
      /\ owner[j] = NoUser
      /\ owner' = IF parked THEN [owner EXCEPT ![j] = tick[d].cur] ELSE owner
      /\ ticket' = IF parked THEN Park(tick[d].cur, j) ELSE ticket
      /\ \/ /\ parked /\ outstanding' = outstanding + 1 /\ UNCHANGED mishaps
            /\ tick' = [tick EXCEPT ![d].pc = "audit", ![d].jti = j]
         \/ /\ "io" \in Faults /\ mishaps' = mishaps + 1
            /\ outstanding' \in {outstanding, outstanding + 1}
            /\ tick' = [tick EXCEPT ![d] = IdleTick]
  BY DEF Sign, Mishap
<1>1. tick[d].cur \in Users
  BY DEF Sign, TicketsGenuine, TicksGenuine
<1>2. /\ \A i \in Jtis : owner'[i] = IF parked /\ i = j THEN tick[d].cur ELSE owner[i]
      /\ \A v \in Users : ticket'[v] = IF parked /\ v = tick[d].cur THEN j ELSE ticket[v]
  BY <1>1 DEF Park, TypeOK, TypeHistory, TypeRedis
<1>3. OthersStay(d)
  BY DEF OthersStay, TypeOK, TypeWork
<1>4. CASE /\ parked /\ outstanding' = outstanding + 1 /\ UNCHANGED mishaps
           /\ tick' = [tick EXCEPT ![d].pc = "audit", ![d].jti = j]
  <2>1. tick'[d].pc = "audit" /\ tick'[d].batch = tick[d].batch /\ tick'[d].cur = tick[d].cur
    BY <1>4 DEF TypeOK, TypeWork, Tick
  <2> QED
    BY <1>1, <1>2, <1>3, <1>4, <2>1
<1>5. CASE /\ "io" \in Faults /\ mishaps' = mishaps + 1
           /\ outstanding' \in {outstanding, outstanding + 1}
           /\ tick' = [tick EXCEPT ![d] = IdleTick]
  <2>1. tick'[d] = IdleTick
    BY <1>5 DEF TypeOK, TypeWork
  <2> QED
    BY <1>1, <1>2, <1>3, <1>5, <2>1
<1> QED
  BY <1>4, <1>5

\* The tick keeps the rest of its batch, or had none left.
LEMMA NextUserMoves ==
  ASSUME TypeOK, NEW d \in Ticks, NextUser(d)
  PROVE  /\ OthersStay(d)
         /\ tick'[d].pc \in {"idle", "claim"}
         /\ \A u \in Users : tick'[d].batch[u] = tick[d].batch[u]
         /\ tick'[d].pc = "idle" => \A u \in Users : tick'[d].batch[u] = 0
<1>0. tick[d] \in Tick /\ tick[d].batch \in [Users -> Nat]
  BY DEF TypeOK, TypeWork, Tick
<1>1. OthersStay(d)
  BY DEF OthersStay, NextUser, TypeOK, TypeWork
<1>2. CASE Members(tick[d].batch) = {}
  <2>1. tick'[d] = IdleTick
    BY <1>2 DEF NextUser, TypeOK, TypeWork
  <2>2. \A u \in Users : tick[d].batch[u] = 0
    BY <1>0, <1>2 DEF Members
  <2> QED
    BY <1>1, <2>1, <2>2, IdleTickFields
<1>3. CASE Members(tick[d].batch) # {}
  <2>1. tick'[d].pc = "claim" /\ tick'[d].batch = tick[d].batch
    BY <1>3 DEF NextUser, IdleTick, TypeOK, TypeWork
  <2> QED
    BY <1>1, <2>1
<1> QED
  BY <1>2, <1>3

\* Who moves a unit.
LEMMA UnitsFramed ==
  ASSUME [Next]_vars
  PROVE  \/ \E d \in Ticks : DrainStep(d)
         \/ \E r \in Requests : ReleaseMulti(r)
         \/ Crash
         \/ UNCHANGED <<stock, tick, owner, returned, dup>>
<1> DEFINE Framed == UNCHANGED <<stock, tick, owner, returned, dup>>
<1>1. ASSUME NEW u \in Users, Join(u) PROVE Framed
  BY <1>1 DEF Join, node
<1>2. LookupMiss \/ LookupFill \/ InitDrainsRead \/ InitDrainsStart => Framed
  BY DEF LookupMiss, LookupFill, InitDrainsRead, InitDrainsStart, redis, history, past
<1>3. ASSUME NEW r \in Requests, RequestStep(r) PROVE Framed \/ ReleaseMulti(r)
  BY <1>3 DEF RequestStep, Handler, VerifyStart, VerifyInsert, VerifyDecr, ReleaseStart,
              ReleaseDecr, ReleaseRestart, ReleaseRow, redis, history, past
<1>4. ASSUME NEW j \in Jtis, Expire(j) PROVE Framed
  BY <1>4 DEF Expire, node
<1>5. AdminNext => Framed
  BY DEF AdminNext, PausePg, PauseRedis, PauseStop, ResumePg, ResumeRedis, ResumeWarm,
         EndPg, EndRedis, EndStop, AdminFails, UpdateCapacity, redis, history, past, node
<1>6. UNCHANGED vars => Framed
  BY DEF vars, redis, history, past, node
<1> QED
  BY <1>1, <1>2, <1>3, <1>4, <1>5, <1>6 DEF Next

LEMMA ClaimedSame ==
  ASSUME NEW d \in Ticks, \A e \in Ticks \ {d} : tick'[e].pc = tick[e].pc,
         tick'[d].pc \in HoldsUnit <=> tick[d].pc \in HoldsUnit
  PROVE  Claimed' = Claimed
  BY DEF Claimed, HoldsUnit
-----------------------------------------------------------------------------
(* An active event has its drain running.                                  *)

\* Where the administrator's request stands tells the official status, and an
\* ended event is ended in Postgres too.
AdminAgrees ==
  /\ admin \in {"pauseRedis", "pauseStop"} => pgStatus = "PAUSED"
  /\ admin \in {"resumeRedis", "resumeWarm"} => pgStatus = "ACTIVE"
  /\ admin \in {"endRedis", "endStop"} => pgStatus = "ENDED"
  /\ status = "ENDED" => pgStatus = "ENDED"

\* Past the restart, and with no resume under way that is to start it.
DrainsRun ==
  NoCallLost /\ pgStatus = "ACTIVE" /\ booting = "done" /\ admin \notin {"resumeRedis", "resumeWarm"} => drainOn

\* Only these actions touch what AdminAgrees and DrainsRun are about.
LEMMA OfficialFramed ==
  ASSUME [Next]_vars
  PROVE  \/ AdminNext \/ Crash \/ InitDrainsRead \/ InitDrainsStart
         \/ /\ UNCHANGED <<pgStatus, status, admin, booting>>
            /\ drainOn' = drainOn \/ drainOn' = TRUE
<1> DEFINE Framed == /\ UNCHANGED <<pgStatus, status, admin, booting>>
                     /\ drainOn' = drainOn \/ drainOn' = TRUE
<1>1. ASSUME NEW u \in Users, Join(u) PROVE Framed
  BY <1>1 DEF Join, postgres, node
<1>2. LookupMiss \/ LookupFill => Framed
  BY DEF LookupMiss, LookupFill, redis, postgres
<1>3. ASSUME NEW d \in Ticks, DrainStep(d) PROVE Framed
  BY <1>3 DEF DrainStep, TickStart, Pop, Claim, Lookup, Fill, Sign, SignFails, Refund, Audit,
              BulkSoldOut, TickFails, redis, postgres
<1>4. ASSUME NEW r \in Requests, RequestStep(r) PROVE Framed
  BY <1>4 DEF RequestStep, Handler, VerifyStart, VerifyInsert, VerifyDecr, ReleaseStart, ReleaseMulti,
              ReleaseDecr, ReleaseRestart, ReleaseRow, redis, postgres
<1>5. ASSUME NEW j \in Jtis, Expire(j) PROVE Framed
  BY <1>5 DEF Expire, postgres, node
<1>6. UNCHANGED vars => Framed
  BY DEF vars, redis, postgres, node
<1> QED
  BY <1>1, <1>2, <1>3, <1>4, <1>5, <1>6 DEF Next

LEMMA AdminAgreesNext ==
  ASSUME AdminAgrees, [Next]_vars
  PROVE  AdminAgrees'
<1>1. CASE AdminNext
  BY <1>1 DEF AdminAgrees, AdminNext, AdminStep, PausePg, PauseRedis, PauseStop, ResumePg,
              ResumeRedis, ResumeWarm, EndPg, EndRedis, EndStop, AdminFails, UpdateCapacity,
              redis, postgres, node
<1>2. CASE Crash \/ InitDrainsRead \/ InitDrainsStart
  BY <1>2 DEF AdminAgrees, Crash, InitDrainsRead, InitDrainsStart, redis, postgres
<1>3. CASE UNCHANGED <<pgStatus, status, admin>>
  BY <1>3 DEF AdminAgrees
<1> QED
  BY <1>1, <1>2, <1>3, OfficialFramed

\* An ended event stays ended, whatever fails.
LEMMA EndedForGood ==
  ASSUME AdminAgrees, [Next]_vars, status = "ENDED"
  PROVE  status' = "ENDED"
<1>1. CASE AdminNext
  BY <1>1 DEF AdminAgrees, AdminNext, AdminStep, PausePg, PauseRedis, PauseStop, ResumePg,
              ResumeRedis, ResumeWarm, EndPg, EndRedis, EndStop, AdminFails, UpdateCapacity,
              redis, postgres, node
<1>2. CASE Crash \/ InitDrainsRead \/ InitDrainsStart
  BY <1>2 DEF Crash, InitDrainsRead, InitDrainsStart, redis
<1> QED
  BY <1>1, <1>2, OfficialFramed

LEMMA DrainsRunNext ==
  ASSUME TypeOK, AdminAgrees, DrainsRun, [Next]_vars
  PROVE  DrainsRun'
<1>1. mishaps \in Nat /\ mishaps' \in Nat /\ mishaps <= mishaps'
  BY MishapsGrow DEF TypeOK, TypeHistory
<1>2. NoCallLost' => NoCallLost
  BY <1>1 DEF NoCallLost
<1>3. AdminFails => ~NoCallLost'
  BY <1>1 DEF AdminFails, Mishap, NoCallLost
<1>4. CASE AdminNext
  BY <1>2, <1>3, <1>4 DEF AdminAgrees, DrainsRun, AdminNext, AdminStep, PausePg, PauseRedis, PauseStop,
              ResumePg, ResumeRedis, ResumeWarm, EndPg, EndRedis, EndStop, UpdateCapacity,
              redis, postgres, node
<1>5. CASE Crash \/ InitDrainsRead \/ InitDrainsStart
  BY <1>2, <1>5 DEF DrainsRun, Crash, InitDrainsRead, InitDrainsStart, redis, postgres
<1>6. CASE /\ UNCHANGED <<pgStatus, admin, booting>>
           /\ drainOn' = drainOn \/ drainOn' = TRUE
  BY <1>2, <1>6 DEF DrainsRun
<1> QED
  BY <1>4, <1>5, <1>6, OfficialFramed

\* As long as no Redis or Postgres call was lost, an active event has its drain running:
\* pauses, resumes, ends, releases and restarts in any order leave none stopped.
THEOREM DrainKeptRunning == Spec => []ActiveIsDrained
<1>1. Init => AdminAgrees /\ DrainsRun
  BY DEF Init, AdminAgrees, DrainsRun
<1>2. TypeOK /\ AdminAgrees /\ DrainsRun /\ [Next]_vars => AdminAgrees' /\ DrainsRun'
  BY AdminAgreesNext, DrainsRunNext
<1>3. DrainsRun => ActiveIsDrained
  BY DEF DrainsRun, ActiveIsDrained
<1> QED
  BY <1>1, <1>2, <1>3, TypeCorrect, PTL DEF Spec

-----------------------------------------------------------------------------
(* Releases and verifications of one ticket.                               *)

\* What a step of a request does to it, point by point.
OthersWait(r) == \A s \in Requests \ {r} : req'[s] = req[s]

\* The request moves on, for the same ticket.
MovesTo(r, pcs) == OthersWait(r) /\ req'[r].pc \in pcs /\ req'[r].jti = req[r].jti

\* The request is answered.
Answered(r) == OthersWait(r) /\ req'[r].pc = "idle"

\* The request ends at a call that was lost.
Cut(r) == Answered(r) /\ "io" \in Faults /\ mishaps' = mishaps + 1

LEMMA RequestMoves ==
  ASSUME TypeOK, NEW r \in Requests
  PROVE  /\ \A j \in Jtis : VerifyStart(r, j) =>
              OthersWait(r) /\ req'[r].pc = "vInsert" /\ req'[r].jti = j
         /\ \A j \in Jtis : ReleaseStart(r, j) =>
              OthersWait(r) /\ req'[r].pc = "rMulti" /\ req'[r].jti = j
         /\ VerifyInsert(r) => MovesTo(r, {"vDecr"}) \/ Answered(r)
         /\ VerifyDecr(r) => Answered(r)
         /\ ReleaseMulti(r) => MovesTo(r, {"rDecr"}) \/ Cut(r)
         /\ ReleaseDecr(r) => MovesTo(r, {"rRestart", "rRow"}) \/ Cut(r)
         /\ ReleaseRestart(r) => MovesTo(r, {"rRow"}) \/ Cut(r)
         /\ ReleaseRow(r) => Answered(r)
<1> USE DEF TypeOK, TypeWork, Req, OthersWait
<1>1. ASSUME NEW pc, NEW j, req' = [req EXCEPT ![r] = [pc |-> pc, jti |-> j]]
      PROVE  OthersWait(r) /\ req'[r].pc = pc /\ req'[r].jti = j
  BY <1>1
<1>2. ASSUME NEW pcs, NEW pc \in pcs, req' = [req EXCEPT ![r].pc = pc] PROVE MovesTo(r, pcs)
  BY <1>2 DEF MovesTo
<1>3. ASSUME req' = [req EXCEPT ![r] = IdleReq] PROVE Answered(r)
  BY <1>3 DEF Answered, IdleReq
<1>4. ASSUME NEW j \in Jtis, VerifyStart(r, j)
      PROVE  OthersWait(r) /\ req'[r].pc = "vInsert" /\ req'[r].jti = j
  BY <1>1, <1>4 DEF VerifyStart
<1>5. ASSUME NEW j \in Jtis, ReleaseStart(r, j)
      PROVE  OthersWait(r) /\ req'[r].pc = "rMulti" /\ req'[r].jti = j
  BY <1>1, <1>5 DEF ReleaseStart
<1>6. VerifyInsert(r) => MovesTo(r, {"vDecr"}) \/ Answered(r)
  BY <1>2, <1>3 DEF VerifyInsert
<1>7. VerifyDecr(r) => Answered(r)
  BY <1>3 DEF VerifyDecr
<1>8. ReleaseMulti(r) => MovesTo(r, {"rDecr"}) \/ Cut(r)
  BY <1>2, <1>3 DEF ReleaseMulti, Mishap, Cut
<1>9. ReleaseDecr(r) => MovesTo(r, {"rRestart", "rRow"}) \/ Cut(r)
  <2>1. CASE req' = [req EXCEPT ![r].pc = "rRestart"] \/ req' = [req EXCEPT ![r].pc = "rRow"]
    BY <1>2, <2>1
  <2> QED
    BY <1>3, <2>1 DEF ReleaseDecr, Mishap, Cut
<1>10. ReleaseRestart(r) => MovesTo(r, {"rRow"}) \/ Cut(r)
  BY <1>2, <1>3 DEF ReleaseRestart, Mishap, Cut
<1>11. ReleaseRow(r) => Answered(r)
  BY <1>3 DEF ReleaseRow
<1> QED
  BY <1>4, <1>5, <1>6, <1>7, <1>8, <1>9, <1>10, <1>11

\* Who moves a request, or what is returned, sold and written in a TicketRelease row.
LEMMA RequestsFramed ==
  ASSUME [Next]_vars
  PROVE  \/ \E r \in Requests : RequestStep(r)
         \/ Crash
         \/ UNCHANGED <<req, released, returned, sold, dup>>
<1> DEFINE Framed == UNCHANGED <<req, released, returned, sold, dup>>
<1>1. ASSUME NEW u \in Users, Join(u) PROVE Framed
  BY <1>1 DEF Join, node, postgres
<1>2. LookupMiss \/ LookupFill \/ InitDrainsRead \/ InitDrainsStart => Framed
  BY DEF LookupMiss, LookupFill, InitDrainsRead, InitDrainsStart, postgres, history, past
<1>3. ASSUME NEW d \in Ticks, DrainStep(d) PROVE Framed
  BY <1>3 DEF DrainStep, TickStart, Pop, Claim, Lookup, Fill, Sign, SignFails, Refund, Audit,
              BulkSoldOut, TickFails, postgres, history, past
<1>4. ASSUME NEW j \in Jtis, Expire(j) PROVE Framed
  BY <1>4 DEF Expire, node, postgres
<1>5. AdminNext => Framed
  BY DEF AdminNext, PausePg, PauseRedis, PauseStop, ResumePg, ResumeRedis, ResumeWarm,
         EndPg, EndRedis, EndStop, AdminFails, UpdateCapacity, postgres, history, past, node
<1>6. UNCHANGED vars => Framed
  BY DEF vars, postgres, history, past, node
<1> QED
  BY <1>1, <1>2, <1>3, <1>4, <1>5, <1>6 DEF Next

-----------------------------------------------------------------------------
(* releaseTicket gives a unit back once, or once more with each mishap.    *)

LEMMA ImageSize ==
  ASSUME NEW S, IsFiniteSet(S), NEW T, NEW f, \A t \in T : \E s \in S : f[s] = t
  PROVE  IsFiniteSet(T) /\ Cardinality(T) <= Cardinality(S) /\ Cardinality(T) \in Nat
<1> DEFINE R == {s \in S : f[s] \in T}
           g == [s \in R |-> f[s]]
<1>1. R \subseteq S /\ IsFiniteSet(R) /\ Cardinality(R) <= Cardinality(S)
  BY FS_Subset
<1>2. g \in Surjection(R, T)
  BY DEF Surjection
<1>3. IsFiniteSet(T) /\ Cardinality(T) <= Cardinality(R)
  BY <1>1, <1>2, FS_Surjection
<1> QED
  BY <1>1, <1>3, FS_CardinalityType

\* No two releases are on one ticket; one about to give the unit back does so for a
\* ticket with no row.
ReleasesApart == \A r, s \in Requests :
  r # s /\ req[r].pc \in Releasing /\ req[s].pc \in Releasing => req[r].jti # req[s].jti

ReleasesFresh == \A r \in Requests : req[r].pc = "rMulti" => req[r].jti \notin released

\* Tickets given back without a row, and with no release on the way to it: the client's
\* retry is not seen as a duplicate. Each cost a mishap, and each unit made up another.
Repeatable == {j \in returned \ released :
  \A r \in Requests : req[r].pc \in {"rDecr", "rRestart", "rRow"} => req[r].jti # j}

RepeatsCounted == dup + Cardinality(Repeatable) <= mishaps

ReleasesInv == ReleasesApart /\ ReleasesFresh /\ RepeatsCounted

LEMMA RepeatableFinite ==
  ASSUME TypeOK
  PROVE  IsFiniteSet(Repeatable) /\ Cardinality(Repeatable) \in Nat
<1>1. Repeatable \subseteq Jtis
  BY DEF Repeatable, TypeOK, TypeHistory
<1> QED
  BY <1>1, SaleAssumption, FS_Subset, FS_CardinalityType

\* One more ticket may become repeatable where a mishap is counted, and none elsewhere.
LEMMA RepeatsKept ==
  ASSUME TypeOK, RepeatsCounted, UNCHANGED dup, mishaps' \in Nat, mishaps <= mishaps',
         \/ Repeatable' \subseteq Repeatable
         \/ mishaps' = mishaps + 1 /\ \E j \in Jtis : Repeatable' \subseteq Repeatable \cup {j}
  PROVE  RepeatsCounted'
<1>1. dup \in Nat /\ mishaps \in Nat /\ Cardinality(Repeatable) \in Nat /\ IsFiniteSet(Repeatable)
  BY RepeatableFinite DEF TypeOK, TypeHistory
<1>2. CASE Repeatable' \subseteq Repeatable
  <2>1. Cardinality(Repeatable') <= Cardinality(Repeatable) /\ Cardinality(Repeatable') \in Nat
    BY <1>1, <1>2, FS_Subset, FS_CardinalityType
  <2> QED
    BY <1>1, <2>1 DEF RepeatsCounted
<1>3. ASSUME mishaps' = mishaps + 1, NEW j \in Jtis, Repeatable' \subseteq Repeatable \cup {j}
      PROVE  RepeatsCounted'
  <2>1. /\ IsFiniteSet(Repeatable \cup {j})
        /\ Cardinality(Repeatable \cup {j}) \in {Cardinality(Repeatable), Cardinality(Repeatable) + 1}
    BY <1>1, ElementSize
  <2>2. Cardinality(Repeatable') <= Cardinality(Repeatable \cup {j}) /\ Cardinality(Repeatable') \in Nat
    BY <1>3, <2>1, FS_Subset, FS_CardinalityType
  <2> QED
    BY <1>1, <1>3, <2>1, <2>2 DEF RepeatsCounted
<1> QED
  BY <1>2, <1>3

LEMMA RepeatsMulti ==
  ASSUME TypeOK, TicketsGenuine, ReleasesInv, NEW r \in Requests, ReleaseMulti(r),
         mishaps' \in Nat, mishaps <= mishaps'
  PROVE  RepeatsCounted'
<1> DEFINE j == req[r].jti
<1> USE DEF OthersWait
<1>1. req[r].pc = "rMulti" /\ UNCHANGED released /\ j \in Jtis
  BY DEF ReleaseMulti, postgres, TicketsGenuine, RequestsGenuine, Minted
<1>2. \A s \in Requests : req[s].pc \in {"rDecr", "rRestart", "rRow"} => req[s].jti # j
  BY <1>1 DEF ReleasesInv, ReleasesApart, Releasing
<1>3. j \in Repeatable <=> j \in returned
  BY <1>1, <1>2 DEF Repeatable, ReleasesInv, ReleasesFresh
<1>4. dup \in Nat /\ mishaps \in Nat /\ Cardinality(Repeatable) \in Nat /\ IsFiniteSet(Repeatable)
  BY RepeatableFinite DEF TypeOK, TypeHistory
<1>5. \/ UNCHANGED <<returned, dup>> /\ Cut(r)
      \/ /\ returned' = returned \cup {j} /\ dup' = (IF j \in returned THEN dup + 1 ELSE dup)
         /\ MovesTo(r, {"rDecr"}) \/ Cut(r)
  <2>1. UNCHANGED <<returned, dup>> \/
        (returned' = returned \cup {j} /\ dup' = (IF j \in returned THEN dup + 1 ELSE dup))
    BY DEF ReleaseMulti
  <2>2. MovesTo(r, {"rDecr"}) => returned' = returned \cup {j} /\ dup' = (IF j \in returned THEN dup + 1 ELSE dup)
    BY DEF ReleaseMulti, MovesTo, IdleReq, TypeOK, TypeWork
  <2> QED
    BY <2>1, <2>2, RequestMoves
<1> HIDE DEF j
<1>6. CASE UNCHANGED <<returned, dup>> /\ Cut(r)
  <2>1. Repeatable' \subseteq Repeatable
    BY <1>1, <1>6 DEF Repeatable, Cut, Answered
  <2> QED
    BY <1>6, <2>1, RepeatsKept DEF ReleasesInv
<1>7. CASE returned' = returned \cup {j} /\ dup' = (IF j \in returned THEN dup + 1 ELSE dup)
           /\ MovesTo(r, {"rDecr"})
  <2>1. Repeatable' \subseteq Repeatable \ {j}
    BY <1>1, <1>7 DEF Repeatable, MovesTo, j
  <2>2. Cardinality(Repeatable') <= Cardinality(Repeatable \ {j}) /\ Cardinality(Repeatable') \in Nat
    BY <1>4, <2>1, ElementSize, FS_Subset, FS_CardinalityType
  <2>3. Cardinality(Repeatable \ {j}) =
          IF j \in Repeatable THEN Cardinality(Repeatable) - 1 ELSE Cardinality(Repeatable)
    BY <1>4, ElementSize
  <2> QED
    BY <1>3, <1>4, <1>7, <2>2, <2>3 DEF ReleasesInv, RepeatsCounted
<1>8. CASE returned' = returned \cup {j} /\ dup' = (IF j \in returned THEN dup + 1 ELSE dup) /\ Cut(r)
  <2>1. Repeatable' \subseteq Repeatable \cup {j}
    BY <1>1, <1>8 DEF Repeatable, Cut, Answered
  <2>2. /\ Cardinality(Repeatable') <= Cardinality(Repeatable \cup {j})
        /\ Cardinality(Repeatable') \in Nat
    BY <1>4, <2>1, ElementSize, FS_Subset, FS_CardinalityType
  <2>3. Cardinality(Repeatable \cup {j}) =
          IF j \in Repeatable THEN Cardinality(Repeatable) ELSE Cardinality(Repeatable) + 1
    BY <1>4, ElementSize
  <2> QED
    BY <1>3, <1>4, <1>8, <2>2, <2>3 DEF ReleasesInv, RepeatsCounted, Cut
<1> QED
  BY <1>5, <1>6, <1>7, <1>8

LEMMA ReleasesRequest ==
  ASSUME "overlap" \notin ClientMay, TypeOK, TicketsGenuine, ReleasesInv,
         NEW r \in Requests, RequestStep(r), mishaps' \in Nat, mishaps <= mishaps'
  PROVE  ReleasesInv'
<1> USE DEF ReleasesInv, ReleasesApart, ReleasesFresh, OthersWait, Releasing
<1>jti. req[r].pc # "idle" => req[r].jti \in Jtis
  BY DEF TicketsGenuine, RequestsGenuine, Minted
<1>1. ASSUME NEW j \in Jtis, VerifyStart(r, j) PROVE ReleasesInv'
  <2>1. UNCHANGED <<dup, released, returned>> /\ req[r].pc = "idle"
    BY <1>1 DEF VerifyStart, postgres, history, past
  <2>2. OthersWait(r) /\ req'[r].pc = "vInsert"
    BY <1>1, RequestMoves
  <2>3. Repeatable' \subseteq Repeatable
    BY <2>1, <2>2 DEF Repeatable
  <2> QED
    BY <2>1, <2>2, <2>3, RepeatsKept
<1>2. ASSUME NEW j \in Jtis, ReleaseStart(r, j) PROVE ReleasesInv'
  <2>1. UNCHANGED <<dup, released, returned>> /\ req[r].pc = "idle" /\ j \notin released
    BY <1>2 DEF ReleaseStart, postgres, history, past, AlreadyReleased
  <2>2. OthersWait(r) /\ req'[r].pc = "rMulti" /\ req'[r].jti = j
    BY <1>2, RequestMoves
  <2>3. \A s \in Requests : req[s].pc \in Releasing => req[s].jti # j
    BY <1>2 DEF ReleaseStart, Calls
  <2>4. Repeatable' \subseteq Repeatable
    BY <2>1, <2>2 DEF Repeatable
  <2> QED
    BY <2>1, <2>2, <2>3, <2>4, RepeatsKept
<1>3. CASE VerifyInsert(r) \/ VerifyDecr(r)
  <2>1. UNCHANGED <<dup, released, returned>> /\ req[r].pc \in {"vInsert", "vDecr"}
    BY <1>3 DEF VerifyInsert, VerifyDecr, postgres, past
  <2>2. OthersWait(r) /\ req'[r].pc \in {"vDecr", "idle"}
    BY <1>3, RequestMoves DEF MovesTo, Answered
  <2>3. Repeatable' \subseteq Repeatable
    BY <2>1, <2>2 DEF Repeatable
  <2> QED
    BY <2>1, <2>2, <2>3, RepeatsKept
<1>4. CASE ReleaseMulti(r)
  <2>1. UNCHANGED released /\ req[r].pc = "rMulti"
    BY <1>4 DEF ReleaseMulti, postgres
  <2>2. OthersWait(r) /\ req'[r].pc \in {"rDecr", "idle"} /\ (req'[r].pc # "idle" => req'[r].jti = req[r].jti)
    BY <1>4, RequestMoves DEF MovesTo, Answered, Cut
  <2> QED
    BY <1>4, <2>1, <2>2, RepeatsMulti
<1>5. CASE ReleaseDecr(r) \/ ReleaseRestart(r)
  <2>1. UNCHANGED <<dup, released, returned>> /\ req[r].pc \in {"rDecr", "rRestart"}
    BY <1>5 DEF ReleaseDecr, ReleaseRestart, postgres, past
  <2>2. MovesTo(r, {"rRestart", "rRow"}) \/ Cut(r)
    BY <1>5, RequestMoves DEF MovesTo
  <2>3. CASE MovesTo(r, {"rRestart", "rRow"})
    <3>1. Repeatable' \subseteq Repeatable
      BY <2>1, <2>3 DEF Repeatable, MovesTo
    <3> QED
      BY <2>1, <2>3, <3>1, RepeatsKept DEF MovesTo
  <2>4. CASE Cut(r)
    <3>1. Repeatable' \subseteq Repeatable \cup {req[r].jti}
      BY <2>1, <2>4 DEF Repeatable, Cut, Answered
    <3> QED
      BY <1>jti, <2>1, <2>4, <3>1, RepeatsKept DEF Cut, Answered
  <2> QED
    BY <2>2, <2>3, <2>4
<1>6. CASE ReleaseRow(r)
  <2>1. /\ UNCHANGED <<dup, returned>> /\ req[r].pc = "rRow"
        /\ \/ released' = released \cup {req[r].jti}
           \/ released' = released /\ mishaps' = mishaps + 1
    BY <1>6 DEF ReleaseRow, Mishap, past
  <2>2. OthersWait(r) /\ req'[r].pc = "idle"
    BY <1>6, RequestMoves DEF Answered
  <2>3. ReleasesApart' /\ ReleasesFresh'
    BY <2>1, <2>2
  <2>4. CASE released' = released \cup {req[r].jti}
    <3>1. Repeatable' \subseteq Repeatable
      BY <2>1, <2>2, <2>4 DEF Repeatable
    <3> QED
      BY <2>1, <2>3, <3>1, RepeatsKept
  <2>5. CASE released' = released /\ mishaps' = mishaps + 1
    <3>1. Repeatable' \subseteq Repeatable \cup {req[r].jti}
      BY <2>1, <2>2, <2>5 DEF Repeatable
    <3> QED
      BY <1>jti, <2>1, <2>3, <2>5, <3>1, RepeatsKept
  <2> QED
    BY <2>1, <2>4, <2>5
<1> QED
  BY <1>1, <1>2, <1>3, <1>4, <1>5, <1>6 DEF RequestStep, Handler

\* A crash makes repeatable what the releases it cuts off had given back.
LEMMA ReleasesCrash ==
  ASSUME TypeOK, ReleasesInv, Crash
  PROVE  ReleasesInv'
<1> DEFINE CutOff == {j \in Jtis : \E r \in BusyRequests : req[r].jti = j}
<1>1. UNCHANGED <<dup, released, returned>> /\ \A r \in Requests : req'[r] = IdleReq
  BY DEF Crash, postgres, past
<1>2. ReleasesApart' /\ ReleasesFresh'
  BY <1>1 DEF ReleasesApart, ReleasesFresh, Releasing, IdleReq
<1>3. Repeatable' \subseteq Repeatable \cup CutOff
  BY <1>1 DEF Repeatable, BusyRequests, TypeOK, TypeHistory
<1>4. IsFiniteSet(CutOff) /\ Cardinality(CutOff) <= Cardinality(BusyRequests) /\ Cardinality(CutOff) \in Nat
  <2> DEFINE f == [r \in Requests |-> req[r].jti]
  <2>1. \A j \in CutOff : \E r \in BusyRequests : f[r] = j
    BY DEF BusyRequests
  <2> HIDE DEF f, CutOff
  <2> QED
    BY <2>1, CrashCounts, ImageSize
<1> HIDE DEF CutOff
<1>5. dup \in Nat /\ mishaps \in Nat /\ Cardinality(Repeatable) \in Nat /\ IsFiniteSet(Repeatable)
  BY RepeatableFinite DEF TypeOK, TypeHistory
<1>6. /\ IsFiniteSet(Repeatable \cup CutOff)
      /\ Cardinality(Repeatable \cup CutOff) <= Cardinality(Repeatable) + Cardinality(CutOff)
  <2>1. /\ IsFiniteSet(Repeatable \cup CutOff)
        /\ Cardinality(Repeatable \cup CutOff) =
             Cardinality(Repeatable) + Cardinality(CutOff) - Cardinality(Repeatable \cap CutOff)
    BY <1>4, <1>5, FS_Union
  <2>2. Cardinality(Repeatable \cap CutOff) \in Nat
    BY <1>4, FS_Intersection, FS_CardinalityType
  <2> QED
    BY <1>4, <1>5, <2>1, <2>2
<1>7. /\ Cardinality(Repeatable') <= Cardinality(Repeatable \cup CutOff)
      /\ Cardinality(Repeatable') \in Nat /\ Cardinality(Repeatable \cup CutOff) \in Nat
  BY <1>3, <1>6, FS_Subset, FS_CardinalityType
<1>8. mishaps' = mishaps + Cardinality(BusyTicks) + Cardinality(BusyRequests)
  BY DEF Crash
<1>9. RepeatsCounted'
  BY <1>1, <1>4, <1>5, <1>6, <1>7, <1>8, CrashCounts DEF ReleasesInv, RepeatsCounted
<1> QED
  BY <1>2, <1>9 DEF ReleasesInv

LEMMA ReleasesInit == Init => ReleasesInv
<1> SUFFICES ASSUME Init PROVE ReleasesInv
  OBVIOUS
<1>1. ReleasesApart /\ ReleasesFresh
  BY DEF Init, ReleasesApart, ReleasesFresh, IdleReq, Releasing
<1>2. Repeatable = {} /\ dup = 0 /\ mishaps = 0
  BY DEF Init, Repeatable
<1> QED
  BY <1>1, <1>2, FS_EmptySet DEF ReleasesInv, RepeatsCounted

LEMMA ReleasesNext ==
  ASSUME "overlap" \notin ClientMay, TypeOK, TicketsGenuine, ReleasesInv, [Next]_vars
  PROVE  ReleasesInv'
<1>1. mishaps' \in Nat /\ mishaps <= mishaps'
  BY MishapsGrow
<1>2. CASE UNCHANGED <<req, released, returned, sold, dup>>
  <2>1. Repeatable' = Repeatable
    BY <1>2 DEF Repeatable
  <2> QED
    BY <1>1, <1>2, <2>1, RepeatsKept DEF ReleasesInv, ReleasesApart, ReleasesFresh
<1> QED
  BY <1>1, <1>2, RequestsFramed, ReleasesRequest, ReleasesCrash

\* What the releases keep to, whatever fails or crashes.
LEMMA ReleasesKept ==
  ASSUME "overlap" \notin ClientMay
  PROVE  Spec => []ReleasesInv
<1>1. TypeOK /\ TicketsGenuine /\ ReleasesInv /\ [Next]_vars => ReleasesInv'
  BY ReleasesNext
<1> QED
  BY <1>1, ReleasesInit, TypeCorrect, PTL DEF Spec

\* When callers do not overlap their releases of one ticket, the inventory is off by no
\* more than the calls that were lost and the work that crashes cut off: each loses a unit,
\* or lets releaseTicket return one again when the client retries.
THEOREM UnitsOffByMishaps ==
  ASSUME "overlap" \notin ClientMay
  PROVE  Spec => []UnitsWithinMishaps
<1>1. TypeOK /\ UnitsExplained /\ ReleasesInv => UnitsWithinMishaps
  <2> SUFFICES ASSUME TypeOK, UnitsExplained, ReleasesInv PROVE UnitsWithinMishaps
    OBVIOUS
  <2>1. Cardinality(Claimed) \in Nat /\ Cardinality(Live) \in Nat /\ Cardinality(Repeatable) \in Nat
    BY UnitsFinite, ElementSize, RepeatableFinite
  <2>2. stock \in Int /\ dup \in Nat /\ mishaps \in Nat /\ StockCount \in Nat
    BY SaleAssumption DEF TypeOK, TypeRedis, TypeHistory
  <2> QED
    BY <2>1, <2>2 DEF UnitsExplained, ReleasesInv, RepeatsCounted, UnitsWithinMishaps
<1> QED
  BY <1>1, TypeCorrect, NoOversell, ReleasesKept, PTL

\* releaseTicket returns the unit of a ticket at most once, when callers do not overlap
\* their releases of it and no call or process is lost between the MULTI and the row.
THEOREM OneReturn ==
  ASSUME "overlap" \notin ClientMay, NoLoss
  PROVE  Spec => []ReturnedOnce
<1>1. TypeOK /\ ReleasesInv /\ mishaps = 0 => ReturnedOnce
  BY RepeatableFinite DEF ReleasesInv, RepeatsCounted, ReturnedOnce, TypeOK, TypeHistory
<1> QED
  BY <1>1, TypeCorrect, ReleasesKept, NoMishaps, PTL

-----------------------------------------------------------------------------
(* The places of a user: in the queue, in a batch, in the hands of a tick, *)
(* and the tickets the user owns. A user has one, and one more for each    *)
(* time the queue accepted them again while a drain held them.             *)

InQueue(u) == queue[u] > 0
InBatch(d, u) == tick[d].batch[u] > 0
Waits(u) == InQueue(u) \/ \E d \in Ticks : InBatch(d, u)

\* A tick that has popped nobody yet has no batch.
BatchesIdle ==
  \A d \in Ticks : tick[d].pc \in {"idle", "pop"} => \A u \in Users : ~InBatch(d, u)

LEMMA BatchesIdleInit == Init => BatchesIdle
  BY IdleTickFields DEF Init, BatchesIdle, InBatch

LEMMA BatchesIdleDrain ==
  ASSUME TypeOK, TicketsGenuine, BatchesIdle, NEW d \in Ticks, DrainStep(d)
  PROVE  BatchesIdle'
<1> USE DEF InBatch, OthersStay, BatchesIdle
<1>0. TypeWork
  BY DEF TypeOK
<1>1. CASE TickStart(d) \/ Lookup(d) \/ Fill(d) \/ SignFails(d)
  <2>1. \E pc : OnlyPc(d, pc) /\ (pc \in {"idle", "pop"} => tick[d].pc \in {"idle", "pop"})
    BY <1>0, <1>1, PcMoves DEF TickStart
  <2> QED
    BY <2>1 DEF OnlyPc
<1>2. CASE TickFails(d) \/ BulkSoldOut(d)
  BY <1>0, <1>2, PcMoves, IdleTickFields DEF Ended
<1>3. CASE Pop(d)
  BY <1>3, PopMoves
<1>4. CASE Claim(d)
  BY <1>4, ClaimMoves
<1>5. CASE Sign(d)
  BY <1>5, SignMoves, IdleTickFields
<1>6. CASE Refund(d) \/ Audit(d)
  <2>1. NextUser(d)
    BY <1>6 DEF Refund, Audit
  <2> QED
    BY <2>1, NextUserMoves
<1> QED
  BY <1>1, <1>2, <1>3, <1>4, <1>5, <1>6 DEF DrainStep

\* Who touches the queue, the ticks, the results and the tickets.
LEMMA PlacesFramed ==
  ASSUME [Next]_vars
  PROVE  \/ \E u \in Users : Join(u)
         \/ \E d \in Ticks : DrainStep(d)
         \/ /\ EndRedis /\ queue' = Nobody /\ status' = "ENDED"
            /\ result' = [u \in Users |-> "none"]
            /\ UNCHANGED <<tick, owner, joins, now, rejoins>>
         \/ Crash
         \/ UNCHANGED <<queue, tick, result, owner, joins, now, rejoins>>
<1> DEFINE Framed == UNCHANGED <<queue, tick, result, owner, joins, now, rejoins>>
<1>1. LookupMiss \/ LookupFill \/ InitDrainsRead \/ InitDrainsStart => Framed
  BY DEF LookupMiss, LookupFill, InitDrainsRead, InitDrainsStart, redis, history, past
<1>2. ASSUME NEW r \in Requests, RequestStep(r) PROVE Framed
  BY <1>2 DEF RequestStep, Handler, VerifyStart, VerifyInsert, VerifyDecr, ReleaseStart, ReleaseMulti,
              ReleaseDecr, ReleaseRestart, ReleaseRow, redis, history, past
<1>3. ASSUME NEW j \in Jtis, Expire(j) PROVE Framed
  BY <1>3 DEF Expire, node
<1>4. CASE AdminNext
  <2>1. CASE EndRedis
    BY <2>1 DEF EndRedis, history, past
  <2>2. CASE ~EndRedis
    BY <1>4, <2>2 DEF AdminNext, PausePg, PauseRedis, PauseStop, ResumePg, ResumeRedis,
       ResumeWarm, EndPg, EndStop, AdminFails, UpdateCapacity, redis, history, past, node
  <2> QED
    BY <2>1, <2>2
<1>5. UNCHANGED vars => Framed
  BY DEF vars, redis, history, past, node
<1> QED
  BY <1>1, <1>2, <1>3, <1>4, <1>5 DEF Next

LEMMA BatchesIdleNext ==
  ASSUME TypeOK, TicketsGenuine, BatchesIdle, [Next]_vars
  PROVE  BatchesIdle'
<1>1. ASSUME NEW d \in Ticks, DrainStep(d) PROVE BatchesIdle'
  BY <1>1, BatchesIdleDrain
<1>2. CASE Crash
  BY <1>2, IdleTickFields DEF Crash, BatchesIdle, InBatch
<1>3. CASE UNCHANGED tick
  BY <1>3 DEF BatchesIdle, InBatch
<1>4. ASSUME NEW u \in Users, Join(u) PROVE UNCHANGED tick
  BY <1>4 DEF Join, node
<1> QED
  BY <1>1, <1>2, <1>3, <1>4, PlacesFramed

\* The queue accepts a user it does not know.
LEMMA JoinMoves ==
  ASSUME TypeOK, NEW u \in Users, Join(u)
  PROVE  /\ UNCHANGED <<tick, result, owner, status, stock, ticket, outstanding, cap>>
         /\ ~InQueue(u) /\ InQueue(u)' /\ result[u] = "none" /\ status = "ACTIVE"
         /\ \A v \in Users \ {u} : queue'[v] = queue[v]
         /\ now' \in {now, now + 1} /\ queue'[u] = now'
         /\ admitted < QueueCap /\ admitted' = admitted + 1
         /\ joins' = [joins EXCEPT ![u] = @ + 1]
         /\ \A v \in Users : rejoins'[v] =
              IF v = u /\ \E d \in Ticks : InBatch(d, u) THEN rejoins[v] + 1 ELSE rejoins[v]
<1>1. PICK ms \in {now, now + 1} : now' = ms /\ queue' = [queue EXCEPT ![u] = ms]
  BY DEF Join
<1>2. ms > 0 /\ queue \in [Users -> Nat]
  BY DEF TypeOK, TypeHistory, TypeRedis
<1>3. /\ queue'[u] = ms /\ \A v \in Users \ {u} : queue'[v] = queue[v]
      /\ InQueue(u)'
  BY <1>1, <1>2 DEF InQueue
<1>4. ~InQueue(u) /\ result[u] = "none"
  BY DEF Join, KnownUser, InQueue
<1>5. \A v \in Users : rejoins'[v] =
        IF v = u /\ \E d \in Ticks : InBatch(d, u) THEN rejoins[v] + 1 ELSE rejoins[v]
  BY DEF Join, InTicks, InBatch, TypeOK, TypeHistory
<1> QED
  BY <1>1, <1>3, <1>4, <1>5 DEF Join, DoorOpen, node

\* Results are set by a claim, a refund or the bulk script, and never wiped.
LEMMA DrainResults ==
  ASSUME TypeOK, TicketsGenuine, NEW d \in Ticks, DrainStep(d)
  PROVE  /\ UNCHANGED result \/ Claim(d) \/ Refund(d) \/ BulkSoldOut(d)
         /\ \A u \in Users : result'[u] = "none" => result[u] = "none"
         /\ Refund(d) => /\ tick[d].cur \in Users
                         /\ \A u \in Users \ {tick[d].cur} : result'[u] = result[u]
         /\ BulkSoldOut(d) => \/ UNCHANGED result
                              \/ /\ queue' = Nobody
                                 /\ \A u \in Users : result'[u] =
                                      IF InBatch(d, u) \/ InQueue(u) THEN "SOLD_OUT" ELSE result[u]
<1>0. result \in [Users -> {"none", "WON", "SOLD_OUT"}]
  BY DEF TypeOK, TypeRedis
<1>1. TickStart(d) \/ Pop(d) \/ Lookup(d) \/ Fill(d) \/ Sign(d) \/ SignFails(d) \/ Audit(d) \/ TickFails(d)
      => UNCHANGED result
  BY DEF TickStart, Pop, Lookup, Fill, Sign, SignFails, Audit, TickFails, redis
<1>2. Claim(d) => \A u \in Users : result'[u] = "none" => result[u] = "none"
  BY ClaimMoves
<1>3. Refund(d) => /\ tick[d].cur \in Users
                   /\ \A u \in Users \ {tick[d].cur} : result'[u] = result[u]
                   /\ \A u \in Users : result'[u] = "none" => result[u] = "none"
  BY <1>0 DEF Refund, TicketsGenuine, TicksGenuine
<1>4. BulkSoldOut(d) => \/ UNCHANGED result
                        \/ /\ queue' = Nobody
                           /\ \A u \in Users : result'[u] =
                                IF InBatch(d, u) \/ InQueue(u) THEN "SOLD_OUT" ELSE result[u]
  BY DEF BulkSoldOut, InBatch, InQueue
<1>5. BulkSoldOut(d) => \A u \in Users : result'[u] = "none" => result[u] = "none"
  BY <1>4
<1> QED
  BY <1>1, <1>2, <1>3, <1>4, <1>5 DEF DrainStep

\* Only the end of the event wipes results.
LEMMA ResultsKept ==
  ASSUME TypeOK, TicketsGenuine, [Next]_vars, NEW u \in Users, result'[u] = "none"
  PROVE  result[u] = "none" \/ status' = "ENDED"
<1>1. ASSUME NEW v \in Users, Join(v) PROVE UNCHANGED result
  BY <1>1 DEF Join
<1>2. Crash => UNCHANGED result
  BY DEF Crash, redis
<1> QED
  BY <1>1, <1>2, DrainResults, PlacesFramed

LEMMA AtMostOne ==
  ASSUME NEW S, \A x, y \in S : x = y
  PROVE  Cardinality(S) <= 1
<1>1. CASE S = {}
  <2>1. Cardinality(S) = 0
    BY <1>1, FS_EmptySet, Zenon
  <2> QED
    BY <2>1
<1>2. CASE S # {}
  <2>1. PICK x \in S : S = {x}
    BY <1>2
  <2>2. Cardinality(S) = 1
    BY <2>1, FS_Singleton, Zenon
  <2> QED
    BY <2>2
<1> QED
  BY <1>1, <1>2

\* The tick works on a winner who has no ticket yet.
WorksOn(d, u) == tick[d].pc \in HoldsUnit /\ tick[d].cur = u

One(there) == IF there THEN 1 ELSE 0

BatchesOf(u) == {d \in Ticks : InBatch(d, u)}
WorkOn(u) == {d \in Ticks : WorksOn(d, u)}

PlacesCounted == \A u \in Users :
  Cardinality(BatchesOf(u)) + Cardinality(WorkOn(u)) + Cardinality(TicketsOf(u)) + One(InQueue(u))
    <= 1 + rejoins[u]

\* While the event lasts, who has no answer has no ticket and is not being worked on.
Newcomers == \A u \in Users :
  result[u] = "none" /\ status # "ENDED" => TicketsOf(u) = {} /\ WorkOn(u) = {}

PlacesInv == BatchesIdle /\ AdminAgrees /\ Newcomers /\ PlacesCounted

\* Every tick that holds a unit held it before, for the same user.
WorkFewer ==
  /\ UNCHANGED owner
  /\ \A e \in Ticks : tick'[e].pc \in HoldsUnit =>
       tick[e].pc \in HoldsUnit /\ tick'[e].cur = tick[e].cur

LEMMA DrainWork ==
  ASSUME TypeOK, TicketsGenuine, NEW d \in Ticks, DrainStep(d)
  PROVE  WorkFewer \/ Claim(d) \/ Sign(d)
<1> USE DEF WorkFewer, OthersStay, HoldsUnit
<1>0. TypeWork
  BY DEF TypeOK
<1>1. CASE TickStart(d) \/ Lookup(d) \/ Fill(d) \/ SignFails(d)
  <2>1. UNCHANGED owner
    BY <1>1 DEF TickStart, Lookup, Fill, SignFails, history, past
  <2>2. \E pc : OnlyPc(d, pc) /\ (pc \in HoldsUnit => tick[d].pc \in HoldsUnit)
    <3>1. CASE TickStart(d)
      BY <1>0, <3>1, PcMoves
    <3>2. CASE Lookup(d) \/ Fill(d) \/ SignFails(d)
      <4>1. tick[d].pc \in HoldsUnit
        BY <3>2 DEF Lookup, Fill, SignFails
      <4> QED
        BY <1>0, <3>2, <4>1, PcMoves
    <3> QED
      BY <1>1, <3>1, <3>2
  <2> QED
    BY <2>1, <2>2 DEF OnlyPc
<1>2. CASE TickFails(d) \/ BulkSoldOut(d)
  <2>1. UNCHANGED owner
    BY <1>2 DEF TickFails, BulkSoldOut, history, past
  <2> QED
    BY <1>0, <1>2, <2>1, PcMoves, IdleTickFields DEF Ended
<1>3. CASE Pop(d)
  BY <1>3, PopMoves DEF Pop, history, past
<1>4. CASE Refund(d) \/ Audit(d)
  <2>1. NextUser(d) /\ UNCHANGED owner
    BY <1>4 DEF Refund, Audit, history, past
  <2> QED
    BY <2>1, NextUserMoves
<1> QED
  BY <1>1, <1>2, <1>3, <1>4 DEF DrainStep

\* What one tick and the queue hold of a user.
InHand(d, u) == One(InBatch(d, u)) + One(WorksOn(d, u)) + One(InQueue(u))

LEMMA PlacesFinite ==
  ASSUME NEW u \in Users
  PROVE  /\ IsFiniteSet(BatchesOf(u)) /\ IsFiniteSet(WorkOn(u)) /\ IsFiniteSet(TicketsOf(u))
         /\ Cardinality(BatchesOf(u)) \in Nat /\ Cardinality(WorkOn(u)) \in Nat
         /\ Cardinality(TicketsOf(u)) \in Nat
<1>1. BatchesOf(u) \subseteq Ticks /\ WorkOn(u) \subseteq Ticks /\ TicketsOf(u) \subseteq Jtis
  BY DEF BatchesOf, WorkOn, TicketsOf, Minted
<1> QED
  BY <1>1, SaleAssumption, FS_Subset, FS_CardinalityType

\* A step of a drain changes whom it works on only by a claim, a signature or their end.
LEMMA DrainHands ==
  ASSUME TypeOK, TicketsGenuine, BatchesIdle, NEW d \in Ticks, DrainStep(d), ~Sign(d), NEW u \in Users
  PROVE  OthersStay(d) /\ UNCHANGED owner /\ InHand(d, u)' <= InHand(d, u)
<1> USE DEF InQueue, InBatch, WorksOn, InHand, One, HoldsUnit
<1>0. TypeWork /\ queue \in [Users -> Nat] /\ \A e \in Ticks : tick[e].batch \in [Users -> Nat]
  BY DEF TypeOK, TypeRedis, TypeWork, Tick
<1>1. CASE TickStart(d) \/ Lookup(d) \/ Fill(d) \/ SignFails(d)
  <2>1. UNCHANGED <<queue, owner>>
    BY <1>1 DEF TickStart, Lookup, Fill, SignFails, redis, history, past
  <2>2. \E pc : OnlyPc(d, pc) /\ (pc \in HoldsUnit => tick[d].pc \in HoldsUnit)
    <3>1. CASE TickStart(d)
      BY <1>0, <3>1, PcMoves
    <3>2. CASE Lookup(d) \/ Fill(d) \/ SignFails(d)
      <4>1. tick[d].pc \in HoldsUnit
        BY <3>2 DEF Lookup, Fill, SignFails
      <4> QED
        BY <1>0, <3>2, <4>1, PcMoves
    <3> QED
      BY <1>1, <3>1, <3>2
  <2> QED
    BY <2>1, <2>2 DEF OnlyPc
<1>2. CASE TickFails(d)
  <2>1. UNCHANGED <<queue, owner>>
    BY <1>2 DEF TickFails, redis, past
  <2> QED
    BY <1>0, <1>2, <2>1, PcMoves, IdleTickFields DEF Ended
<1>3. CASE Pop(d)
  <2>1. ~InBatch(d, u) /\ UNCHANGED owner
    BY <1>3 DEF Pop, BatchesIdle, history, past
  <2>2. PICK S \in SUBSET Members(queue) :
          /\ OthersStay(d) /\ tick'[d].pc \in {"idle", "claim"}
          /\ \A v \in Users : tick'[d].batch[v] = IF v \in S THEN queue[v] ELSE 0
          /\ \A v \in Users : queue'[v] = IF v \in S THEN 0 ELSE queue[v]
    BY <1>3, PopMoves
  <2> QED
    BY <2>1, <2>2
<1>4. CASE Claim(d)
  <2>1. UNCHANGED <<queue, owner>> /\ tick[d].pc = "claim"
    BY <1>4 DEF Claim, history, past
  <2>2. PICK v \in Users :
          /\ InBatch(d, v) /\ OthersStay(d)
          /\ \A w \in Users : tick'[d].batch[w] = IF w = v THEN 0 ELSE tick[d].batch[w]
          /\ tick'[d].pc = "bulk" \/ (tick'[d].pc = "lookup" /\ tick'[d].cur = v)
    BY <1>4, ClaimMoves DEF IsNext
  <2> QED
    BY <2>1, <2>2
<1>5. CASE Refund(d) \/ Audit(d)
  <2>1. UNCHANGED <<queue, owner>> /\ NextUser(d)
    BY <1>5 DEF Refund, Audit, redis, past
  <2>2. /\ OthersStay(d) /\ tick'[d].pc \in {"idle", "claim"}
        /\ tick'[d].batch[u] = tick[d].batch[u]
    BY <2>1, NextUserMoves
  <2> QED
    BY <2>1, <2>2
<1>6. CASE BulkSoldOut(d)
  <2>1. OthersStay(d) /\ tick'[d].pc = "idle" /\ tick'[d].batch[u] = 0 /\ UNCHANGED owner
    BY <1>0, <1>6, PcMoves, IdleTickFields DEF Ended, BulkSoldOut, history, past
  <2>2. CASE queue' = Nobody
    BY <2>1, <2>2 DEF Nobody
  <2>3. CASE queue' = ReAdd(tick[d].batch, queue)
    BY <1>0, <2>1, <2>3 DEF ReAdd
  <2> QED
    BY <1>6, <2>2, <2>3 DEF BulkSoldOut
<1> QED
  BY <1>1, <1>2, <1>3, <1>4, <1>5, <1>6 DEF DrainStep

LEMMA ElementMoves ==
  ASSUME NEW S, IsFiniteSet(S), NEW x, NEW T, NEW there \in BOOLEAN,
         T = IF there THEN S \cup {x} ELSE S \ {x}
  PROVE  /\ Cardinality(S) \in Nat /\ Cardinality(T) \in Nat
         /\ Cardinality(T) = Cardinality(S) + One(there) - One(x \in S)
<1>1. /\ Cardinality(S) \in Nat /\ Cardinality(T) \in Nat
      /\ Cardinality(S \cup {x}) = IF x \in S THEN Cardinality(S) ELSE Cardinality(S) + 1
      /\ Cardinality(S \ {x}) = IF x \in S THEN Cardinality(S) - 1 ELSE Cardinality(S)
  BY ElementSize, FS_CardinalityType
<1>2. CASE there
  BY <1>1, <1>2 DEF One
<1>3. CASE ~there
  BY <1>1, <1>3 DEF One
<1> QED
  BY <1>2, <1>3

\* What is in the hands of the other ticks stays there.
LEMMA HandsSize ==
  ASSUME NEW d \in Ticks, NEW u \in Users, OthersStay(d)
  PROVE  /\ Cardinality(BatchesOf(u)') = Cardinality(BatchesOf(u)) + One(InBatch(d, u)') - One(InBatch(d, u))
         /\ Cardinality(WorkOn(u)') = Cardinality(WorkOn(u)) + One(WorksOn(d, u)') - One(WorksOn(d, u))
         /\ Cardinality(BatchesOf(u)') \in Nat /\ Cardinality(WorkOn(u)') \in Nat
<1> USE DEF OthersStay
<1>1. BatchesOf(u)' = IF InBatch(d, u)' THEN BatchesOf(u) \cup {d} ELSE BatchesOf(u) \ {d}
  BY DEF BatchesOf, InBatch
<1>2. WorkOn(u)' = IF WorksOn(d, u)' THEN WorkOn(u) \cup {d} ELSE WorkOn(u) \ {d}
  BY DEF WorkOn, WorksOn
<1>3. (d \in BatchesOf(u)) = InBatch(d, u) /\ (d \in WorkOn(u)) = WorksOn(d, u)
  BY DEF BatchesOf, WorkOn, InBatch, WorksOn
<1>4. InBatch(d, u)' \in BOOLEAN /\ WorksOn(d, u)' \in BOOLEAN
  BY DEF InBatch, WorksOn
<1> QED
  BY <1>1, <1>2, <1>3, <1>4, PlacesFinite, ElementMoves

\* Steps of the drains other than Sign leave the tickets alone.
LEMMA PlacesDrain ==
  ASSUME TypeOK, TicketsGenuine, PlacesInv, NEW d \in Ticks, DrainStep(d), ~Sign(d), NEW u \in Users
  PROVE  /\ TicketsOf(u)' = TicketsOf(u) /\ UNCHANGED rejoins
         /\ Cardinality(BatchesOf(u)') + Cardinality(WorkOn(u)') + Cardinality(TicketsOf(u)')
              + One(InQueue(u)') <= 1 + rejoins'[u]
<1>1. OthersStay(d) /\ UNCHANGED owner /\ InHand(d, u)' <= InHand(d, u)
  BY DrainHands DEF PlacesInv
<1>2. TicketsOf(u)' = TicketsOf(u)
  BY <1>1 DEF TicketsOf, Minted
<1>3. UNCHANGED rejoins /\ rejoins[u] \in Nat
  BY DEF DrainStep, TickStart, Pop, Claim, Lookup, Fill, Sign, SignFails, Refund, Audit,
         BulkSoldOut, TickFails, history, past, TypeOK, TypeHistory
<1>4. Cardinality(BatchesOf(u)) + Cardinality(WorkOn(u)) + Cardinality(TicketsOf(u)) + One(InQueue(u))
        <= 1 + rejoins[u]
  BY DEF PlacesInv, PlacesCounted
<1>5. /\ Cardinality(BatchesOf(u)') = Cardinality(BatchesOf(u)) + One(InBatch(d, u)') - One(InBatch(d, u))
      /\ Cardinality(WorkOn(u)') = Cardinality(WorkOn(u)) + One(WorksOn(d, u)') - One(WorksOn(d, u))
  BY <1>1, HandsSize
<1> QED
  BY <1>1, <1>2, <1>3, <1>4, <1>5, PlacesFinite DEF InHand, One

\* A signature takes the winner out of the tick's hands, with a ticket or none.
LEMMA PlacesSign ==
  ASSUME TypeOK, TicketsGenuine, PlacesInv, NEW d \in Ticks, Sign(d), NEW u \in Users
  PROVE  /\ TicketsOf(u)' = TicketsOf(u) \/ WorksOn(d, u)
         /\ OthersStay(d)
         /\ Cardinality(BatchesOf(u)') + Cardinality(WorkOn(u)') + Cardinality(TicketsOf(u)')
              + One(InQueue(u)') <= 1 + rejoins'[u]
<1>1. UNCHANGED <<queue, rejoins>> /\ rejoins[u] \in Nat /\ tick[d].pc = "sign"
  BY DEF Sign, TypeOK, TypeHistory
<1>2. PICK j \in Jtis, parked \in BOOLEAN :
        /\ tick[d].cur \in Users /\ owner[j] = NoUser
        /\ \A i \in Jtis : owner'[i] = IF parked /\ i = j THEN tick[d].cur ELSE owner[i]
        /\ OthersStay(d)
        /\ tick'[d].pc \notin HoldsUnit
        /\ tick'[d].batch = tick[d].batch \/ tick'[d] = IdleTick
  BY SignMoves, IdleTickFields DEF HoldsUnit
<1>3. TicketsOf(u)' = IF parked /\ tick[d].cur = u THEN TicketsOf(u) \cup {j} ELSE TicketsOf(u)
  BY <1>2, SaleAssumption DEF TicketsOf, Minted
<1>4. One(InBatch(d, u)') <= One(InBatch(d, u)) /\ One(WorksOn(d, u)') = 0
  BY <1>2, IdleTickFields DEF One, InBatch, WorksOn
<1>5. Cardinality(TicketsOf(u)') <= Cardinality(TicketsOf(u)) + One(WorksOn(d, u))
      /\ Cardinality(TicketsOf(u)') \in Nat
  <2>1. CASE parked /\ tick[d].cur = u
    <3>1. WorksOn(d, u)
      BY <1>1, <2>1 DEF WorksOn, HoldsUnit
    <3>2. Cardinality(TicketsOf(u) \cup {j}) \in {Cardinality(TicketsOf(u)), Cardinality(TicketsOf(u)) + 1}
      BY PlacesFinite, ElementSize
    <3> QED
      BY <1>3, <2>1, <3>1, <3>2, PlacesFinite DEF One
  <2>2. CASE ~(parked /\ tick[d].cur = u)
    BY <1>3, <2>2, PlacesFinite DEF One
  <2> QED
    BY <2>1, <2>2
<1>6. Cardinality(BatchesOf(u)) + Cardinality(WorkOn(u)) + Cardinality(TicketsOf(u)) + One(InQueue(u))
        <= 1 + rejoins[u]
  BY DEF PlacesInv, PlacesCounted
<1>7. /\ Cardinality(BatchesOf(u)') = Cardinality(BatchesOf(u)) + One(InBatch(d, u)') - One(InBatch(d, u))
      /\ Cardinality(WorkOn(u)') = Cardinality(WorkOn(u)) + One(WorksOn(d, u)') - One(WorksOn(d, u))
  BY <1>2, HandsSize
<1>8. One(InQueue(u)') = One(InQueue(u))
  BY <1>1 DEF InQueue
<1>9. TicketsOf(u)' = TicketsOf(u) \/ WorksOn(d, u)
  BY <1>1, <1>3 DEF WorksOn, HoldsUnit
<1> QED
  BY <1>1, <1>2, <1>4, <1>5, <1>6, <1>7, <1>8, <1>9, PlacesFinite DEF One

\* A join gives the user one place more: the first, or one that rejoins counts.
LEMMA PlacesJoin ==
  ASSUME TypeOK, TicketsGenuine, PlacesInv, NEW v \in Users, Join(v), NEW u \in Users
  PROVE  /\ TicketsOf(u)' = TicketsOf(u) /\ WorkOn(u)' = WorkOn(u)
         /\ Cardinality(BatchesOf(u)') + Cardinality(WorkOn(u)') + Cardinality(TicketsOf(u)')
              + One(InQueue(u)') <= 1 + rejoins'[u]
<1>1. /\ UNCHANGED <<tick, owner>> /\ ~InQueue(v) /\ result[v] = "none" /\ status = "ACTIVE"
      /\ \A w \in Users \ {v} : queue'[w] = queue[w]
      /\ rejoins'[u] = IF u = v /\ \E d \in Ticks : InBatch(d, v) THEN rejoins[u] + 1 ELSE rejoins[u]
  BY JoinMoves
<1>2. BatchesOf(u)' = BatchesOf(u) /\ WorkOn(u)' = WorkOn(u) /\ TicketsOf(u)' = TicketsOf(u)
  BY <1>1 DEF BatchesOf, WorkOn, TicketsOf, Minted, InBatch, WorksOn
<1>3. Cardinality(BatchesOf(u)) + Cardinality(WorkOn(u)) + Cardinality(TicketsOf(u)) + One(InQueue(u))
        <= 1 + rejoins[u] /\ rejoins[u] \in Nat
  BY DEF PlacesInv, PlacesCounted, TypeOK, TypeHistory
<1>4. CASE u # v
  <2>1. One(InQueue(u)') = One(InQueue(u))
    BY <1>1, <1>4 DEF InQueue
  <2> QED
    BY <1>1, <1>2, <1>3, <1>4, <2>1
<1>5. CASE u = v /\ \E d \in Ticks : InBatch(d, v)
  <2>1. One(InQueue(u)') <= 1 /\ One(InQueue(u)') \in Nat /\ One(InQueue(u)) = 0
    BY <1>1, <1>5 DEF One
  <2> QED
    BY <1>1, <1>2, <1>3, <1>5, <2>1, PlacesFinite
<1>6. CASE u = v /\ ~\E d \in Ticks : InBatch(d, v)
  <2>1. BatchesOf(u) = {}
    BY <1>6 DEF BatchesOf
  <2>2. TicketsOf(u) = {} /\ WorkOn(u) = {}
    BY <1>1, <1>6 DEF PlacesInv, Newcomers
  <2>3. One(InQueue(u)') <= 1 /\ One(InQueue(u)') \in Nat
    BY DEF One
  <2> QED
    BY <1>1, <1>2, <1>3, <1>6, <2>1, <2>2, <2>3, FS_EmptySet
<1> QED
  BY <1>2, <1>4, <1>5, <1>6

\* No step but these gives a user a place.
LEMMA PlacesNext ==
  ASSUME TypeOK, TicketsGenuine, PlacesInv, [Next]_vars
  PROVE  PlacesCounted'
<1> SUFFICES ASSUME NEW u \in Users
             PROVE  Cardinality(BatchesOf(u)') + Cardinality(WorkOn(u)') + Cardinality(TicketsOf(u)')
                      + One(InQueue(u)') <= 1 + rejoins'[u]
  BY DEF PlacesCounted
<1>1. Cardinality(BatchesOf(u)) + Cardinality(WorkOn(u)) + Cardinality(TicketsOf(u)) + One(InQueue(u))
        <= 1 + rejoins[u] /\ rejoins[u] \in Nat
  BY DEF PlacesInv, PlacesCounted, TypeOK, TypeHistory
<1>2. CASE UNCHANGED <<tick, owner, rejoins>> /\ (queue' = Nobody \/ UNCHANGED queue)
  <2>1. BatchesOf(u)' = BatchesOf(u) /\ WorkOn(u)' = WorkOn(u) /\ TicketsOf(u)' = TicketsOf(u)
    BY <1>2 DEF BatchesOf, WorkOn, TicketsOf, Minted, InBatch, WorksOn
  <2>2. One(InQueue(u)') \in {0, One(InQueue(u))} /\ One(InQueue(u)) \in Nat
    BY <1>2 DEF InQueue, One, Nobody
  <2> QED
    BY <1>1, <1>2, <2>1, <2>2, PlacesFinite
<1>3. CASE Crash
  <2>1. UNCHANGED <<owner, queue, rejoins>> /\ \A d \in Ticks : tick'[d] = IdleTick
    BY <1>3 DEF Crash, redis, past
  <2>2. BatchesOf(u)' = {} /\ WorkOn(u)' = {} /\ TicketsOf(u)' = TicketsOf(u)
    BY <2>1, IdleTickFields DEF BatchesOf, WorkOn, TicketsOf, Minted, InBatch, WorksOn, HoldsUnit
  <2>3. One(InQueue(u)') = One(InQueue(u))
    BY <2>1 DEF InQueue
  <2> QED
    BY <1>1, <2>1, <2>2, <2>3, PlacesFinite, FS_EmptySet DEF One
<1>4. ASSUME NEW d \in Ticks, DrainStep(d)
      PROVE  Cardinality(BatchesOf(u)') + Cardinality(WorkOn(u)') + Cardinality(TicketsOf(u)')
               + One(InQueue(u)') <= 1 + rejoins'[u]
  BY <1>4, PlacesDrain, PlacesSign
<1> QED
  BY <1>2, <1>3, <1>4, PlacesJoin, PlacesFramed

\* Who comes into the hands of a tick as a winner has an answer.
LEMMA NewcomersNext ==
  ASSUME TypeOK, TicketsGenuine, PlacesInv, [Next]_vars
  PROVE  Newcomers'
<1> SUFFICES ASSUME NEW u \in Users, result'[u] = "none", status' # "ENDED"
             PROVE  TicketsOf(u)' = {} /\ WorkOn(u)' = {}
  BY DEF Newcomers
<1>1. status # "ENDED" /\ result[u] = "none"
  BY EndedForGood, ResultsKept DEF PlacesInv
<1>2. TicketsOf(u) = {} /\ WorkOn(u) = {} /\ \A d \in Ticks : ~WorksOn(d, u)
  BY <1>1 DEF PlacesInv, Newcomers, WorkOn
<1>3. ASSUME NEW d \in Ticks, DrainStep(d) PROVE TicketsOf(u)' = {} /\ WorkOn(u)' = {}
  <2>1. TicketsOf(u)' = {} /\ OthersStay(d)
    BY <1>2, <1>3, PlacesDrain, PlacesSign, DrainHands DEF PlacesInv
  <2>2. ~WorksOn(d, u)'
    <3>1. CASE Claim(d)
      BY <3>1, ClaimMoves DEF WorksOn, HoldsUnit
    <3>2. CASE Sign(d)
      BY <3>2, SignMoves, IdleTickFields DEF WorksOn, HoldsUnit
    <3>3. CASE ~Claim(d) /\ ~Sign(d)
      BY <1>2, <1>3, <3>3, DrainWork DEF WorkFewer, WorksOn
    <3> QED
      BY <3>1, <3>2, <3>3
  <2>3. WorkOn(u)' = {}
    BY <1>2, <2>1, <2>2 DEF WorkOn, WorksOn, OthersStay
  <2> QED
    BY <2>1, <2>3
<1>4. CASE Crash
  BY <1>2, <1>4, IdleTickFields DEF Crash, past, WorkOn, WorksOn, HoldsUnit, TicketsOf, Minted
<1>5. CASE UNCHANGED <<tick, owner>>
  BY <1>2, <1>5 DEF WorkOn, WorksOn, TicketsOf, Minted
<1> QED
  BY <1>2, <1>3, <1>4, <1>5, PlacesJoin, PlacesFramed

LEMMA PlacesInvInit == Init => PlacesInv
<1> SUFFICES ASSUME Init PROVE PlacesInv
  OBVIOUS
<1>1. BatchesIdle /\ AdminAgrees
  BY BatchesIdleInit DEF Init, AdminAgrees
<1>2. ASSUME NEW u \in Users
      PROVE  BatchesOf(u) = {} /\ WorkOn(u) = {} /\ TicketsOf(u) = {} /\ One(InQueue(u)) = 0
             /\ rejoins[u] = 0
  BY IdleTickFields DEF Init, BatchesOf, WorkOn, TicketsOf, Minted, InBatch, WorksOn, HoldsUnit,
     InQueue, One, Nobody
<1>3. Newcomers
  BY <1>2 DEF Newcomers
<1>4. PlacesCounted
  BY <1>2, FS_EmptySet DEF PlacesCounted
<1> QED
  BY <1>1, <1>3, <1>4 DEF PlacesInv

LEMMA PlacesInvNext ==
  ASSUME TypeOK, TicketsGenuine, PlacesInv, [Next]_vars
  PROVE  PlacesInv'
  BY BatchesIdleNext, AdminAgreesNext, NewcomersNext, PlacesNext DEF PlacesInv

LEMMA PlacesKept == Spec => []PlacesInv
<1>1. TypeOK /\ TicketsGenuine /\ PlacesInv /\ [Next]_vars => PlacesInv'
  BY PlacesInvNext
<1> QED
  BY <1>1, PlacesInvInit, TypeCorrect, PTL DEF Spec

\* A user is given one ticket for an event, and one more for each time the queue accepted
\* them again while a drain held them: over all failures, pauses and restarts, and even
\* when the end of the event wipes the results.
THEOREM OneTicket == Spec => []OneTicketPerUser
<1>1. PlacesInv /\ TypeOK => OneTicketPerUser
  <2> SUFFICES ASSUME PlacesInv, TypeOK, NEW u \in Users PROVE Cardinality(TicketsOf(u)) <= 1 + rejoins[u]
    BY DEF OneTicketPerUser
  <2>1. Cardinality(BatchesOf(u)) + Cardinality(WorkOn(u)) + Cardinality(TicketsOf(u)) + One(InQueue(u))
          <= 1 + rejoins[u] /\ rejoins[u] \in Nat
    BY DEF PlacesInv, PlacesCounted, TypeOK, TypeHistory
  <2> QED
    BY <2>1, PlacesFinite DEF One
<1> QED
  BY <1>1, TypeCorrect, PlacesKept, PTL

-----------------------------------------------------------------------------
(* Every accepted user is answered or still waits, but for those whom a    *)
(* mishap cost their place: a batch of them for each.                      *)

LEMMA InTicksFinite == IsFiniteSet(InTicks)
<1>1. InTicks \subseteq Users
  BY DEF InTicks
<1> QED
  BY <1>1, FS_Subset, SaleAssumption

LEMMA SubsetSize ==
  ASSUME NEW S, IsFiniteSet(S), NEW T, T \subseteq S
  PROVE  Cardinality(T) \in Nat /\ Cardinality(S) \in Nat /\ Cardinality(T) <= Cardinality(S)
  BY FS_Subset, FS_CardinalityType

LEMMA MembersFinite == \A q : IsFiniteSet(Members(q)) /\ Cardinality(Members(q)) \in Nat
<1> TAKE q
<1>1. Members(q) \subseteq Users
  BY DEF Members
<1> QED
  BY <1>1, FS_Subset, FS_CardinalityType, SaleAssumption

\* What ZPOPMIN takes is a batch.
LEMMA PoppedSize ==
  ASSUME NEW q, NEW S, IsPopMin(q, RateLimit, S)
  PROVE  IsFiniteSet(S) /\ Cardinality(S) \in Nat /\ Cardinality(S) <= RateLimit
<1>1. Cardinality(Members(q)) \in Nat /\ RateLimit \in Nat
  BY MembersFinite, SaleAssumption
<1>2. IsFiniteSet(S)
  BY MembersFinite, FS_Subset DEF IsPopMin
<1> QED
  BY <1>1, <1>2 DEF IsPopMin

\* A tick has no more users in hand than it popped.
BatchSizes == \A d \in Ticks : Cardinality(Members(tick[d].batch)) <= RateLimit

LEMMA BatchSizesInit == Init => BatchSizes
<1> SUFFICES ASSUME Init, NEW d \in Ticks PROVE Cardinality(Members(tick[d].batch)) <= RateLimit
  BY DEF BatchSizes
<1>1. Members(tick[d].batch) = {}
  BY IdleTickFields DEF Init, Members
<1> QED
  BY <1>1, FS_EmptySet, SaleAssumption

LEMMA BatchSizesNext ==
  ASSUME TypeOK, TicketsGenuine, BatchesIdle, BatchSizes, [Next]_vars
  PROVE  BatchSizes'
<1> SUFFICES ASSUME NEW e \in Ticks PROVE Cardinality(Members(tick'[e].batch)) <= RateLimit
  BY DEF BatchSizes, Members
<1>1. ASSUME Members(tick'[e].batch) \subseteq Members(tick[e].batch)
      PROVE  Cardinality(Members(tick'[e].batch)) <= RateLimit
  <2>1. /\ Cardinality(Members(tick'[e].batch)) <= Cardinality(Members(tick[e].batch))
        /\ Cardinality(Members(tick'[e].batch)) \in Nat /\ Cardinality(Members(tick[e].batch)) \in Nat
    BY <1>1, MembersFinite, SubsetSize
  <2> QED
    BY <2>1, SaleAssumption DEF BatchSizes
<1>2. ASSUME NEW d \in Ticks, DrainStep(d)
      PROVE  Cardinality(Members(tick'[e].batch)) <= RateLimit
  <2> USE DEF OthersStay
  <2>0. TypeWork
    BY DEF TypeOK
  <2>1. CASE Pop(d) /\ e = d
    <3>1. PICK S \in SUBSET Members(queue) :
            /\ IsPopMin(queue, RateLimit, S)
            /\ \A u \in Users : tick'[d].batch[u] = IF u \in S THEN queue[u] ELSE 0
      BY <2>1, PopMoves
    <3>2. Members(tick'[e].batch) = S
      BY <2>1, <3>1 DEF Members
    <3> QED
      BY <3>1, <3>2, PoppedSize
  <2>2. CASE Pop(d) /\ e # d
    BY <1>1, <2>2, PopMoves
  <2>3. CASE TickStart(d) \/ Lookup(d) \/ Fill(d) \/ SignFails(d)
    <3>1. \E pc : OnlyPc(d, pc)
      BY <2>0, <2>3, PcMoves
    <3> QED
      BY <1>1, <3>1 DEF OnlyPc
  <2>4. CASE BulkSoldOut(d) \/ TickFails(d)
    <3>1. Ended(d)
      BY <2>0, <2>4, PcMoves
    <3> QED
      BY <1>1, <3>1, IdleTickFields DEF Ended, Members
  <2>5. CASE Claim(d)
    <3>1. OthersStay(d) /\ \A v \in Users : tick'[d].batch[v] \in {0, tick[d].batch[v]}
      BY <2>5, ClaimMoves
    <3> QED
      BY <1>1, <3>1 DEF Members
  <2>6. CASE Sign(d)
    <3>1. OthersStay(d) /\ (tick'[d].batch = tick[d].batch \/ tick'[d] = IdleTick)
      BY <2>6, SignMoves
    <3> QED
      BY <1>1, <3>1, IdleTickFields DEF Members
  <2>7. CASE Refund(d) \/ Audit(d)
    <3>1. NextUser(d)
      BY <2>7 DEF Refund, Audit
    <3> QED
      BY <1>1, <3>1, NextUserMoves DEF Members
  <2> QED
    BY <1>2, <2>1, <2>2, <2>3, <2>4, <2>5, <2>6, <2>7 DEF DrainStep
<1>3. CASE Crash
  <2>1. Members(tick'[e].batch) = {}
    BY <1>3, IdleTickFields DEF Crash, Members
  <2> QED
    BY <2>1, <1>1
<1>4. ASSUME NEW u \in Users, Join(u) PROVE UNCHANGED tick
  BY <1>4, JoinMoves
<1> QED
  BY <1>1, <1>2, <1>3, <1>4, PlacesFramed

\* The users in the hands of ticks, counted by batches.
LEMMA HeldSize ==
  ASSUME TypeOK, BatchesIdle, BatchSizes
  PROVE  /\ Cardinality(InTicks) \in Nat /\ Cardinality(BusyTicks) \in Nat
         /\ Cardinality(InTicks) <= RateLimit * Cardinality(BusyTicks)
<1> DEFINE B(d) == Members(tick[d].batch)
           Slots == 1..RateLimit
           pick == [d \in Ticks |-> CHOOSE f : \A u \in B(d) : \E i \in Slots : f[i] = u]
           held == [s \in BusyTicks \X Slots |-> pick[s[1]][s[2]]]
<1>1. IsFiniteSet(BusyTicks) /\ IsFiniteSet(Slots) /\ Cardinality(Slots) = RateLimit /\ RateLimit \in Nat
  <2>1. BusyTicks \subseteq Ticks
    BY DEF BusyTicks
  <2>2. IsFiniteSet(BusyTicks)
    BY <2>1, SaleAssumption, FS_Subset
  <2>3. RateLimit \in Nat \ {0}
    BY SaleAssumption
  <2>4. /\ IsFiniteSet(1..RateLimit)
        /\ Cardinality(1..RateLimit) = IF 1 > RateLimit THEN 0 ELSE RateLimit - 1 + 1
    BY <2>3, FS_Interval
  <2> QED
    BY <2>2, <2>3, <2>4
<1>2. ASSUME NEW d \in Ticks PROVE \A u \in B(d) : \E i \in Slots : pick[d][i] = u
  <2>1. Cardinality(B(d)) \in Nat /\ Cardinality(B(d)) <= RateLimit
    BY MembersFinite DEF BatchSizes
  <2>2. PICK f : f \in Bijection(1..Cardinality(B(d)), B(d))
    BY MembersFinite, FS_CardinalityType DEF ExistsBijection
  <2>3. \A u \in B(d) : \E i \in 1..Cardinality(B(d)) : f[i] = u
    BY <2>2 DEF Bijection, Surjection
  <2>4. \A u \in B(d) : \E i \in Slots : f[i] = u
    BY <1>1, <2>1, <2>3
  <2> QED
    BY <2>4
<1>3. \A u \in InTicks : \E s \in BusyTicks \X Slots : held[s] = u
  <2> SUFFICES ASSUME NEW u \in InTicks PROVE \E s \in BusyTicks \X Slots : held[s] = u
    OBVIOUS
  <2>1. PICK d \in Ticks : u \in B(d)
    BY DEF InTicks, Members
  <2>2. d \in BusyTicks
    BY <2>1 DEF BusyTicks, BatchesIdle, InBatch, Members
  <2>3. PICK i \in Slots : pick[d][i] = u
    BY <1>2, <2>1
  <2>4. <<d, i>> \in BusyTicks \X Slots /\ held[<<d, i>>] = u
    BY <2>2, <2>3
  <2> QED
    BY <2>4
<1>4. IsFiniteSet(BusyTicks \X Slots) /\ Cardinality(BusyTicks \X Slots) = Cardinality(BusyTicks) * RateLimit
  BY <1>1, FS_Product
<1> HIDE DEF Slots, held
<1>5. Cardinality(InTicks) \in Nat /\ Cardinality(InTicks) <= Cardinality(BusyTicks \X Slots)
  BY <1>3, <1>4, ImageSize
<1>6. Cardinality(BusyTicks) \in Nat
  BY <1>1, FS_CardinalityType
<1> QED
  BY <1>1, <1>4, <1>5, <1>6

\* Who waits before a step of a drain waits or is answered after, but for the users of a
\* tick that ends at a lost call.
LEMMA DrainAnswers ==
  ASSUME TypeOK, TicketsGenuine, BatchesIdle, NEW d \in Ticks, DrainStep(d),
         NEW u \in Users, Waits(u)
  PROVE  \/ Waits(u)' \/ result'[u] # "none"
         \/ InBatch(d, u) /\ mishaps' = mishaps + 1
<1> USE DEF Waits, InQueue, InBatch, OthersStay
<1>0. TypeWork /\ queue \in [Users -> Nat] /\ \A e \in Ticks : tick[e].batch \in [Users -> Nat]
  BY DEF TypeOK, TypeRedis, TypeWork, Tick
<1>1. CASE TickStart(d) \/ Lookup(d) \/ Fill(d) \/ SignFails(d)
  <2>1. UNCHANGED queue
    BY <1>1 DEF TickStart, Lookup, Fill, SignFails, redis
  <2>2. \E pc : OnlyPc(d, pc)
    BY <1>0, <1>1, PcMoves
  <2> QED
    BY <2>1, <2>2 DEF OnlyPc
<1>2. CASE Pop(d)
  <2>1. ~InBatch(d, u)
    BY <1>2 DEF Pop, BatchesIdle
  <2> QED
    BY <1>2, <2>1, PopMoves
<1>3. CASE Claim(d)
  <2>1. UNCHANGED queue
    BY <1>3 DEF Claim
  <2> QED
    BY <1>3, <2>1, ClaimMoves
<1>4. CASE Sign(d)
  <2>1. UNCHANGED queue
    BY <1>4 DEF Sign
  <2> QED
    BY <1>4, <2>1, SignMoves
<1>5. CASE Refund(d) \/ Audit(d)
  <2>1. UNCHANGED queue /\ NextUser(d)
    BY <1>5 DEF Refund, Audit, redis
  <2> QED
    BY <2>1, NextUserMoves
<1>6. CASE BulkSoldOut(d)
  <2>1. Ended(d)
    BY <1>0, <1>6, PcMoves
  <2>2. CASE queue' = ReAdd(tick[d].batch, queue)
    <3>1. InQueue(u)' <=> InQueue(u) \/ InBatch(d, u)
      BY <1>0, <2>2 DEF ReAdd
    <3> QED
      BY <2>1, <3>1 DEF Ended
  <2>3. CASE result' = [v \in Users |->
               IF tick[d].batch[v] > 0 \/ queue[v] > 0 THEN "SOLD_OUT" ELSE result[v]]
    BY <2>1, <2>3 DEF Ended
  <2> QED
    BY <1>6, <2>2, <2>3 DEF BulkSoldOut
<1>7. CASE TickFails(d)
  <2>1. Ended(d) /\ UNCHANGED queue /\ mishaps' = mishaps + 1
    BY <1>0, <1>7, PcMoves DEF TickFails, Mishap, redis
  <2> QED
    BY <2>1 DEF Ended
<1> QED
  BY <1>1, <1>2, <1>3, <1>4, <1>5, <1>6, <1>7 DEF DrainStep

\* The forgotten users grow by no more than X.
LEMMA ForgottenGrow ==
  ASSUME TypeOK, NEW X, Forgotten' \subseteq Forgotten \cup X, IsFiniteSet(X)
  PROVE  /\ Cardinality(Forgotten) \in Nat /\ Cardinality(Forgotten') \in Nat /\ Cardinality(X) \in Nat
         /\ Cardinality(Forgotten') <= Cardinality(Forgotten) + Cardinality(X)
<1>1. IsFiniteSet(Forgotten)
  <2>1. Forgotten \subseteq Users
    BY DEF Forgotten
  <2> QED
    BY <2>1, SaleAssumption, FS_Subset
<1>2. /\ IsFiniteSet(Forgotten \cup X)
      /\ Cardinality(Forgotten \cup X) =
           Cardinality(Forgotten) + Cardinality(X) - Cardinality(Forgotten \cap X)
  BY <1>1, FS_Union
<1>3. IsFiniteSet(Forgotten \cap X)
  BY <1>1, FS_Subset
<1>4. /\ Cardinality(Forgotten) \in Nat /\ Cardinality(X) \in Nat /\ Cardinality(Forgotten \cap X) \in Nat
      /\ Cardinality(Forgotten') \in Nat
      /\ Cardinality(Forgotten') <= Cardinality(Forgotten \cup X)
  BY <1>1, <1>2, <1>3, FS_CardinalityType, SubsetSize
<1> QED
  BY <1>2, <1>4

LEMMA TimesGrows ==
  ASSUME NEW b \in Nat, NEW m \in Nat, NEW n \in Nat, NEW k \in Nat, m + n <= k
  PROVE  b * m \in Nat /\ b * n \in Nat /\ b * k \in Nat /\ b * m + b * n <= b * k
<1>1. k - (m + n) \in Nat /\ k = m + n + (k - (m + n))
  OBVIOUS
<1>2. PICK r \in Nat : k = m + n + r
  BY <1>1
<1>3. b * k = b * m + b * n + b * r
  BY <1>2
<1>4. b * m \in Nat /\ b * n \in Nat /\ b * r \in Nat /\ b * k \in Nat
  OBVIOUS
<1> QED
  BY <1>3, <1>4

LEMMA Forgets ==
  ASSUME TypeOK
  PROVE  \A u \in Users : u \in Forgotten <=> joins[u] > 0 /\ ~Waits(u) /\ result[u] = "none"
BY DEF Forgotten, Waits, InQueue, InBatch, InTicks, TypeOK, TypeRedis

LEMMA ForgottenNext ==
  ASSUME TypeOK, TypeOK', TicketsGenuine, AdminAgrees, BatchesIdle, BatchSizes, LostWithMishaps, [Next]_vars
  PROVE  LostWithMishaps'
<1> SUFFICES ASSUME status' # "ENDED"
             PROVE  Cardinality(Forgotten') <= RateLimit * mishaps'
  BY DEF LostWithMishaps, Forgotten
<1>0. /\ Cardinality(Forgotten) <= RateLimit * mishaps
      /\ RateLimit \in Nat /\ mishaps \in Nat /\ mishaps' \in Nat /\ mishaps <= mishaps'
      /\ joins \in [Users -> Nat]
  BY EndedForGood, MishapsGrow, SaleAssumption DEF LostWithMishaps, TypeOK, TypeHistory
<1>t. \A u \in Users : u \in Forgotten' <=> joins'[u] > 0 /\ ~Waits(u)' /\ result'[u] = "none"
  BY DEF Forgotten, Waits, InQueue, InBatch, InTicks, TypeOK, TypeRedis
<1>1. ASSUME NEW X, Forgotten' \subseteq Forgotten \cup X, IsFiniteSet(X), NEW n \in Nat,
             Cardinality(X) <= RateLimit * n, mishaps + n <= mishaps'
      PROVE  Cardinality(Forgotten') <= RateLimit * mishaps'
  <2>1. /\ Cardinality(Forgotten) \in Nat /\ Cardinality(Forgotten') \in Nat /\ Cardinality(X) \in Nat
        /\ Cardinality(Forgotten') <= Cardinality(Forgotten) + Cardinality(X)
    BY <1>1, ForgottenGrow
  <2>2. n \in Nat /\ mishaps + n <= mishaps' /\ Cardinality(X) <= RateLimit * n
    BY <1>1
  <2>3. /\ RateLimit * mishaps \in Nat /\ RateLimit * n \in Nat /\ RateLimit * mishaps' \in Nat
        /\ RateLimit * mishaps + RateLimit * n <= RateLimit * mishaps'
    <3>1. RateLimit \in Nat /\ mishaps \in Nat /\ mishaps' \in Nat
      BY <1>0
    <3>2. n \in Nat /\ mishaps + n <= mishaps'
      BY <2>2
    <3> QED
      BY <3>1, <3>2, TimesGrows
  <2> QED
    BY <1>0, <2>1, <2>2, <2>3
<1>2. ASSUME Forgotten' \subseteq Forgotten
      PROVE  Cardinality(Forgotten') <= RateLimit * mishaps'
  <2>1. Forgotten' \subseteq Forgotten \cup {} /\ IsFiniteSet({}) /\ Cardinality({}) = 0
    BY <1>2, FS_EmptySet
  <2> QED
    BY <1>0, <1>1, <2>1
<1>3. ASSUME NEW v \in Users, Join(v) PROVE Cardinality(Forgotten') <= RateLimit * mishaps'
  <2>1. /\ UNCHANGED <<tick, result>> /\ InQueue(v)' /\ \A w \in Users \ {v} : queue'[w] = queue[w]
        /\ \A w \in Users \ {v} : joins'[w] = joins[w]
    BY <1>0, <1>3, JoinMoves
  <2>2. Forgotten' \subseteq Forgotten
    BY <1>t, <2>1, Forgets DEF Forgotten, Waits, InQueue, InBatch
  <2> QED
    BY <1>2, <2>2
<1>4. ASSUME NEW d \in Ticks, DrainStep(d) PROVE Cardinality(Forgotten') <= RateLimit * mishaps'
  <2>1. UNCHANGED joins
    BY <1>4 DEF DrainStep, TickStart, Pop, Claim, Lookup, Fill, Sign, SignFails, Refund, Audit,
                BulkSoldOut, TickFails, history, past
  <2>2. \A u \in Users : u \in Forgotten' => u \in Forgotten \/ (InBatch(d, u) /\ mishaps' = mishaps + 1)
    BY <1>4, <1>t, <2>1, Forgets, DrainAnswers, DrainResults
  <2>3. Forgotten' \subseteq Users
    BY DEF Forgotten
  <2>4. CASE mishaps' = mishaps + 1
    <3>1. Forgotten' \subseteq Forgotten \cup Members(tick[d].batch)
      BY <2>2, <2>3 DEF InBatch, Members
    <3>2. /\ IsFiniteSet(Members(tick[d].batch)) /\ Cardinality(Members(tick[d].batch)) <= RateLimit * 1
      BY <1>0, MembersFinite DEF BatchSizes
    <3> QED
      BY <1>0, <1>1, <2>4, <3>1, <3>2
  <2>5. CASE mishaps' # mishaps + 1
    BY <1>2, <2>2, <2>3, <2>5
  <2> QED
    BY <2>4, <2>5
<1>5. CASE Crash
  <2>1. /\ Cardinality(BusyTicks) \in Nat
        /\ mishaps' = mishaps + Cardinality(BusyTicks) + Cardinality(BusyRequests)
        /\ Cardinality(BusyRequests) \in Nat
        /\ UNCHANGED <<queue, result, joins>>
    BY <1>5, CrashCounts, HeldSize DEF Crash, redis, past
  <2>2. Forgotten' \subseteq Forgotten \cup InTicks
    BY <2>1 DEF Forgotten
  <2>3. mishaps + Cardinality(BusyTicks) <= mishaps'
    BY <1>0, <2>1
  <2> QED
    BY <1>1, <2>1, <2>2, <2>3, HeldSize, InTicksFinite
<1>6. CASE UNCHANGED <<queue, tick, result, joins>>
  <2>1. Forgotten' \subseteq Forgotten
    BY <1>6 DEF Forgotten, InTicks
  <2> QED
    BY <1>2, <2>1
<1> QED
  BY <1>3, <1>4, <1>5, <1>6, PlacesFramed

\* Each lost call and each tick that a crash cuts off costs at most the users of one batch
\* their place; no overlap of drains, releases, joins and administrators drops one.
THEOREM LostOnlyWithMishaps == Spec => []LostWithMishaps
<1> DEFINE Inv == AdminAgrees /\ BatchesIdle /\ BatchSizes /\ LostWithMishaps
<1>1. Init => Inv
  <2> SUFFICES ASSUME Init PROVE LostWithMishaps /\ AdminAgrees
    BY BatchesIdleInit, BatchSizesInit
  <2>1. Forgotten = {} /\ mishaps = 0
    BY DEF Init, Forgotten
  <2> QED
    BY <2>1, FS_EmptySet, SaleAssumption DEF Init, AdminAgrees, LostWithMishaps
<1>2. TypeOK /\ TypeOK' /\ TicketsGenuine /\ Inv /\ [Next]_vars => Inv'
  BY AdminAgreesNext, BatchesIdleNext, BatchSizesNext, ForgottenNext
<1> QED
  BY <1>1, <1>2, TypeCorrect, PTL DEF Spec

LEMMA NoEndNext ==
  ASSUME "end" \notin AdminOps, status # "ENDED", admin \notin {"endRedis", "endStop"}, [Next]_vars
  PROVE  status' # "ENDED" /\ admin' \notin {"endRedis", "endStop"}
<1>1. CASE AdminNext
  BY <1>1 DEF AdminNext, AdminStep, PausePg, PauseRedis, PauseStop, ResumePg, ResumeRedis,
     ResumeWarm, EndPg, EndRedis, EndStop, AdminFails, UpdateCapacity, node, redis
<1>2. CASE Crash \/ InitDrainsRead \/ InitDrainsStart
  BY <1>2 DEF Crash, InitDrainsRead, InitDrainsStart, redis
<1> QED
  BY <1>1, <1>2, OfficialFramed

\* Without lost calls, crashes and an end, a user the queue accepted is in the queue,
\* in a running tick, or answered.
THEOREM NobodyForgotten ==
  ASSUME NoLoss, "end" \notin AdminOps
  PROVE  Spec => []NobodyLost
<1> DEFINE NoEnd == status # "ENDED" /\ admin \notin {"endRedis", "endStop"}
<1>1. Init => NoEnd
  BY DEF Init
<1>2. NoEnd /\ [Next]_vars => NoEnd'
  BY NoEndNext
<1>3. TypeOK /\ NoEnd /\ mishaps = 0 /\ LostWithMishaps => NobodyLost
  <2> SUFFICES ASSUME LostWithMishaps, status # "ENDED", mishaps = 0 PROVE Forgotten = {}
    BY DEF NobodyLost
  <2>1. IsFiniteSet(Forgotten)
    <3>1. Forgotten \subseteq Users
      BY DEF Forgotten
    <3> QED
      BY <3>1, SaleAssumption, FS_Subset
  <2>2. Cardinality(Forgotten) \in Nat /\ Cardinality(Forgotten) <= 0
    BY <2>1, FS_CardinalityType, SaleAssumption DEF LostWithMishaps
  <2> QED
    BY <2>1, <2>2, FS_EmptySet
<1> QED
  BY <1>1, <1>2, <1>3, TypeCorrect, LostOnlyWithMishaps, NoMishaps, PTL DEF Spec

-----------------------------------------------------------------------------
(* A winner has a ticket to fetch.                                         *)

TicketsOwned == \A u \in Users : ticket[u] # NoJti => owner[ticket[u]] = u

UnitFor(d, u) == tick[d].pc \in HoldsUnit /\ tick[d].cur = u

WinnersHold == \A u \in Users : result[u] = "WON" =>
  \/ \E d \in Ticks : UnitFor(d, u)
  \/ ticket[u] # NoJti
  \/ \E j \in expired : owner[j] = u

\* Who touches tickets.
LEMMA TicketsFramed ==
  ASSUME [Next]_vars
  PROVE  \/ \E d \in Ticks : DrainStep(d) /\ UNCHANGED expired
         \/ \E j \in Jtis : Expire(j)
         \/ UNCHANGED <<ticket, owner, expired>>
<1> DEFINE Framed == UNCHANGED <<ticket, owner, expired>>
<1>1. ASSUME NEW u \in Users, Join(u) PROVE Framed
  BY <1>1 DEF Join
<1>2. LookupMiss \/ LookupFill \/ InitDrainsRead \/ InitDrainsStart \/ Crash => Framed
  BY DEF LookupMiss, LookupFill, InitDrainsRead, InitDrainsStart, Crash, redis, history, past
<1>3. ASSUME NEW r \in Requests, RequestStep(r) PROVE Framed
  BY <1>3 DEF RequestStep, Handler, VerifyStart, VerifyInsert, VerifyDecr, ReleaseStart, ReleaseMulti,
              ReleaseDecr, ReleaseRestart, ReleaseRow, redis, history, past
<1>4. ASSUME NEW d \in Ticks, DrainStep(d) PROVE UNCHANGED expired
  BY <1>4 DEF DrainStep, TickStart, Pop, Claim, Lookup, Fill, Sign, SignFails, Refund, Audit,
              BulkSoldOut, TickFails, history, past
<1>5. AdminNext => Framed
  BY DEF AdminNext, PausePg, PauseRedis, PauseStop, ResumePg, ResumeRedis, ResumeWarm,
         EndPg, EndRedis, EndStop, AdminFails, UpdateCapacity, redis, history, past
<1>6. UNCHANGED vars => Framed
  BY DEF vars, redis, history, past
<1> QED
  BY <1>1, <1>2, <1>3, <1>4, <1>5, <1>6 DEF Next

LEMMA DrainTickets ==
  ASSUME NEW d \in Ticks, DrainStep(d), ~Sign(d)
  PROVE  UNCHANGED <<ticket, owner>>
  BY DEF DrainStep, TickStart, Pop, Claim, Lookup, Fill, SignFails, Refund, Audit,
         BulkSoldOut, TickFails, redis, history, past

LEMMA ExpireMoves ==
  ASSUME TypeOK, NEW j \in Jtis, Expire(j)
  PROVE  /\ UNCHANGED <<owner, result, tick>> /\ expired' = expired \cup {j}
         /\ \A u \in Users : ticket'[u] = IF ticket[u] = j THEN NoJti ELSE ticket[u]
  BY DEF Expire, TypeOK, TypeRedis, node

LEMMA TicketsOwnedNext ==
  ASSUME TypeOK, TicketsGenuine, TicketsOwned, [Next]_vars
  PROVE  TicketsOwned'
<1> USE DEF TicketsOwned
<1>0. ticket \in [Users -> Jtis \cup {NoJti}]
  BY DEF TypeOK, TypeRedis
<1>1. ASSUME NEW d \in Ticks, Sign(d) PROVE TicketsOwned'
  <2>1. PICK j \in Jtis, parked \in BOOLEAN :
          /\ tick[d].cur \in Users /\ owner[j] = NoUser
          /\ \A i \in Jtis : owner'[i] = IF parked /\ i = j THEN tick[d].cur ELSE owner[i]
          /\ \A v \in Users : ticket'[v] = IF parked /\ v = tick[d].cur THEN j ELSE ticket[v]
    BY <1>1, SignMoves
  <2> QED
    BY <1>0, <2>1, SaleAssumption
<1>2. ASSUME NEW d \in Ticks, DrainStep(d), ~Sign(d) PROVE TicketsOwned'
  BY <1>2, DrainTickets
<1>3. ASSUME NEW j \in Jtis, Expire(j) PROVE TicketsOwned'
  BY <1>3, ExpireMoves
<1>4. CASE UNCHANGED <<ticket, owner>>
  BY <1>4
<1> QED
  BY <1>1, <1>2, <1>3, <1>4, TicketsFramed

LEMMA WinnersHoldDrain ==
  ASSUME "io" \notin Faults, TypeOK, TicketsGenuine, WinnersHold, NEW d \in Ticks, DrainStep(d),
         UNCHANGED expired
  PROVE  WinnersHold'
<1> USE DEF OthersStay, UnitFor
<1> SUFFICES ASSUME NEW u \in Users, result'[u] = "WON"
             PROVE  \/ \E e \in Ticks : UnitFor(e, u)'
                    \/ ticket'[u] # NoJti
                    \/ \E j \in expired : owner'[j] = u
  BY DEF WinnersHold
<1>0. TypeWork
  BY DEF TypeOK
<1>1. CASE Claim(d)
  <2>1. PICK v \in Users :
          /\ OthersStay(d)
          /\ \/ /\ tick'[d].pc = "lookup" /\ tick'[d].cur = v
                /\ \A w \in Users : result'[w] = IF w = v THEN "WON" ELSE result[w]
             \/ \A w \in Users : result'[w] = IF w = v THEN "SOLD_OUT" ELSE result[w]
    BY <1>1, ClaimMoves
  <2>2. CASE u = v
    BY <2>1, <2>2 DEF HoldsUnit
  <2>3. CASE u # v
    <3>1. result[u] = "WON" /\ UNCHANGED <<ticket, owner>>
      BY <1>1, <2>1, <2>3 DEF Claim, history, past
    <3>2. tick[d].pc \notin HoldsUnit
      BY <1>1 DEF Claim, HoldsUnit
    <3> QED
      BY <2>1, <3>1, <3>2 DEF WinnersHold
  <2> QED
    BY <2>2, <2>3
<1>2. CASE Sign(d)
  <2>1. PICK j \in Jtis :
          /\ tick[d].cur \in Users /\ owner[j] = NoUser
          /\ \A i \in Jtis : owner'[i] = IF i = j THEN tick[d].cur ELSE owner[i]
          /\ \A v \in Users : ticket'[v] = IF v = tick[d].cur THEN j ELSE ticket[v]
          /\ OthersStay(d)
    BY <1>2, SignMoves
  <2>2. UNCHANGED result
    BY <1>2 DEF Sign
  <2>3. CASE u = tick[d].cur
    BY <2>1, <2>3, SaleAssumption
  <2>4. CASE u # tick[d].cur
    <3>1. expired \subseteq Jtis /\ u # NoUser
      BY SaleAssumption DEF TypeOK, TypeHistory
    <3> QED
      BY <2>1, <2>2, <2>4, <3>1 DEF WinnersHold
  <2> QED
    BY <2>3, <2>4
<1>3. CASE Refund(d)
  <2>1. OthersStay(d) /\ UNCHANGED <<ticket, owner>>
    BY <1>3, NextUserMoves DEF Refund, history, past
  <2>2. u # tick[d].cur /\ result[u] = "WON"
    BY <1>3 DEF Refund, Mishap, TicketsGenuine, TicksGenuine, TypeOK, TypeRedis
  <2> QED
    BY <2>1, <2>2 DEF WinnersHold
<1>4. CASE TickStart(d) \/ Lookup(d) \/ Fill(d) \/ SignFails(d)
  <2>1. UNCHANGED <<result, ticket, owner>>
    BY <1>4 DEF TickStart, Lookup, Fill, SignFails, redis, history, past
  <2>2. \E pc : OnlyPc(d, pc) /\ (tick[d].pc \in HoldsUnit => pc \in HoldsUnit)
    <3>1. CASE TickStart(d)
      <4>1. tick[d].pc \notin HoldsUnit
        BY <3>1 DEF TickStart, HoldsUnit
      <4> QED
        BY <1>0, <3>1, <4>1, PcMoves
    <3>2. CASE Lookup(d) \/ Fill(d) \/ SignFails(d)
      BY <1>0, <3>2, PcMoves DEF HoldsUnit
    <3> QED
      BY <1>4, <3>1, <3>2
  <2> QED
    BY <2>1, <2>2 DEF WinnersHold, OnlyPc
<1>5. CASE Pop(d) \/ Audit(d) \/ BulkSoldOut(d)
  <2>1. tick[d].pc \notin HoldsUnit /\ UNCHANGED <<ticket, owner>>
    BY <1>5 DEF Pop, Audit, BulkSoldOut, HoldsUnit, redis, history, past
  <2>2. OthersStay(d)
    BY <1>0, <1>5, PopMoves, NextUserMoves, PcMoves DEF Audit, Ended
  <2>3. result[u] = "WON"
    BY <1>5 DEF Pop, Audit, BulkSoldOut, redis
  <2> QED
    BY <2>1, <2>2, <2>3 DEF WinnersHold
<1>6. CASE TickFails(d)
  BY <1>6 DEF TickFails, Mishap
<1> QED
  BY <1>1, <1>2, <1>3, <1>4, <1>5, <1>6 DEF DrainStep

LEMMA WinnersHoldNext ==
  ASSUME NoLoss, TypeOK, TicketsGenuine, TicketsOwned, WinnersHold, [Next]_vars
  PROVE  WinnersHold'
<1>1. ASSUME NEW d \in Ticks, DrainStep(d), UNCHANGED expired PROVE WinnersHold'
  BY <1>1, WinnersHoldDrain DEF NoLoss
<1>2. ASSUME NEW j \in Jtis, Expire(j) PROVE WinnersHold'
  BY <1>2, ExpireMoves DEF WinnersHold, TicketsOwned, UnitFor
<1>3. ASSUME UNCHANGED <<ticket, owner, expired>>, ~(\E d \in Ticks : DrainStep(d)) PROVE WinnersHold'
  <2>1. ~Crash
    BY DEF Crash, NoLoss
  <2>2. ASSUME NEW u \in Users, Join(u) PROVE UNCHANGED <<tick, result>>
    BY <2>2 DEF Join, node
  <2>3. UNCHANGED tick /\ (UNCHANGED result \/ result' = [u \in Users |-> "none"])
    BY <1>3, <2>1, <2>2, PlacesFramed
  <2> QED
    BY <1>3, <2>3 DEF WinnersHold, UnitFor
<1> QED
  BY <1>1, <1>2, <1>3, TicketsFramed

\* Without lost calls and crashes a winner that no tick is working on has a ticket
\* to fetch, or had one for 20 minutes: no overlap of two drains takes it away.
THEOREM WinnersServed ==
  ASSUME NoLoss
  PROVE  Spec => []WinnerHasTicket
<1>1. Init => TicketsOwned /\ WinnersHold
  BY DEF Init, TicketsOwned, WinnersHold
<1>2. TypeOK /\ TicketsGenuine /\ TicketsOwned /\ WinnersHold /\ [Next]_vars
      => TicketsOwned' /\ WinnersHold'
  BY TicketsOwnedNext, WinnersHoldNext
<1>3. WinnersHold => WinnerHasTicket
  BY DEF WinnersHold, WinnerHasTicket, UnitFor
<1> QED
  BY <1>1, <1>2, <1>3, TypeCorrect, PTL DEF Spec

-----------------------------------------------------------------------------
(* First come, first served, with one drain at a time.                     *)

OneDrain == \E d \in Ticks : Ticks = {d}

\* Scores are join times, and whoever is popped came no later than who still waits.
PoppedFirst == \A d \in Ticks, u \in Users :
  /\ queue[u] <= now /\ tick[d].batch[u] <= now
  /\ InBatch(d, u) => \A v \in Users : InQueue(v) => tick[d].batch[u] <= queue[v]

LEMMA PoppedFirstInit == Init => PoppedFirst
  BY IdleTickFields DEF Init, Nobody, PoppedFirst, InBatch, InQueue

LEMMA PoppedFirstDrain ==
  ASSUME OneDrain, TypeOK, TicketsGenuine, BatchesIdle, PoppedFirst, NEW d \in Ticks, DrainStep(d)
  PROVE  PoppedFirst'
<1> USE DEF PoppedFirst, InQueue, InBatch, OthersStay
<1>0. /\ TypeWork /\ queue \in [Users -> Nat] /\ \A e \in Ticks : tick[e].batch \in [Users -> Nat]
      /\ now \in Nat /\ \A u \in Users : u \in Nat
  BY SaleAssumption DEF TypeOK, TypeRedis, TypeWork, Tick, TypeHistory
<1>1. Ticks = {d}
  BY DEF OneDrain
<1>2. now' = now
  BY DEF DrainStep, TickStart, Pop, Claim, Lookup, Fill, Sign, SignFails, Refund, Audit,
         BulkSoldOut, TickFails, history, past
<1> SUFFICES ASSUME NEW u \in Users
             PROVE  /\ queue'[u] <= now /\ tick'[d].batch[u] <= now
                    /\ InBatch(d, u)' => \A v \in Users : InQueue(v)' => tick'[d].batch[u] <= queue'[v]
  BY <1>1, <1>2
<1>3. CASE UNCHANGED queue /\ \A v \in Users : tick'[d].batch[v] \in {0, tick[d].batch[v]}
  BY <1>0, <1>3
<1>4. CASE TickStart(d) \/ Lookup(d) \/ Fill(d) \/ SignFails(d)
  <2>1. UNCHANGED queue
    BY <1>4 DEF TickStart, Lookup, Fill, SignFails, redis
  <2>2. \E pc : OnlyPc(d, pc)
    BY <1>0, <1>4, PcMoves
  <2> QED
    BY <1>3, <2>1, <2>2 DEF OnlyPc
<1>5. CASE Claim(d)
  BY <1>3, <1>5, ClaimMoves DEF Claim
<1>6. CASE Sign(d)
  BY <1>3, <1>6, SignMoves, IdleTickFields DEF Sign
<1>7. CASE Refund(d) \/ Audit(d)
  <2>1. UNCHANGED queue /\ NextUser(d)
    BY <1>7 DEF Refund, Audit, redis
  <2> QED
    BY <1>3, <2>1, NextUserMoves
<1>8. CASE TickFails(d)
  <2>1. UNCHANGED queue
    BY <1>8 DEF TickFails, redis
  <2> QED
    BY <1>0, <1>3, <1>8, <2>1, PcMoves, IdleTickFields DEF Ended
<1>9. CASE Pop(d)
  <2>1. PICK S \in SUBSET Members(queue) :
          /\ IsPopMin(queue, RateLimit, S)
          /\ \A v \in Users : tick'[d].batch[v] = IF v \in S THEN queue[v] ELSE 0
          /\ \A v \in Users : queue'[v] = IF v \in S THEN 0 ELSE queue[v]
    BY <1>9, PopMoves
  <2>2. \A v \in S, w \in Members(queue) \ S : queue[v] <= queue[w]
    BY <1>0, <2>1 DEF IsPopMin, Before, Members
  <2> QED
    BY <1>0, <2>1, <2>2 DEF Members
<1>10. CASE BulkSoldOut(d)
  <2>1. \A v \in Users : tick'[d].batch[v] = 0
    BY <1>0, <1>10, PcMoves, IdleTickFields DEF Ended
  <2>2. queue'[u] \in {0, queue[u], tick[d].batch[u]}
    BY <1>10 DEF BulkSoldOut, ReAdd, Nobody
  <2> QED
    BY <1>0, <2>1, <2>2
<1> QED
  BY <1>4, <1>5, <1>6, <1>7, <1>8, <1>9, <1>10 DEF DrainStep

LEMMA PoppedFirstNext ==
  ASSUME OneDrain, TypeOK, TicketsGenuine, BatchesIdle, PoppedFirst, [Next]_vars
  PROVE  PoppedFirst'
<1> USE DEF PoppedFirst, InQueue, InBatch
<1>0. /\ queue \in [Users -> Nat] /\ \A e \in Ticks : tick[e].batch \in [Users -> Nat]
      /\ now \in Nat
  BY DEF TypeOK, TypeRedis, TypeWork, Tick, TypeHistory
<1>1. ASSUME NEW u \in Users, Join(u) PROVE PoppedFirst'
  BY <1>0, <1>1, JoinMoves
<1>2. ASSUME NEW d \in Ticks, DrainStep(d) PROVE PoppedFirst'
  BY <1>2, PoppedFirstDrain
<1>3. CASE queue' = Nobody /\ UNCHANGED <<tick, now>>
  BY <1>0, <1>3 DEF Nobody
<1>4. CASE Crash
  <2>1. UNCHANGED <<queue, now>> /\ \A d \in Ticks : tick'[d] = IdleTick
    BY <1>4 DEF Crash, redis, history, past
  <2> QED
    BY <1>0, <2>1, IdleTickFields
<1>5. CASE UNCHANGED <<queue, tick, now>>
  BY <1>5
<1> QED
  BY <1>1, <1>2, <1>3, <1>4, <1>5, PlacesFramed

\* Only a claim makes a winner.
LEMMA WinsByClaim ==
  ASSUME TypeOK, TicketsGenuine, [Next]_vars, NEW u \in Users, result[u] # "WON", result'[u] = "WON"
  PROVE  \E d \in Ticks : Claim(d) /\ IsNext(d, u)
<1>1. ASSUME NEW v \in Users, Join(v) PROVE UNCHANGED result
  BY <1>1 DEF Join
<1>2. Crash => UNCHANGED result
  BY DEF Crash, redis
<1>3. PICK d \in Ticks : DrainStep(d)
  BY <1>1, <1>2, PlacesFramed
<1>4. ~Refund(d) /\ ~BulkSoldOut(d)
  BY DEF Refund, BulkSoldOut, TypeOK, TypeRedis
<1>5. Claim(d)
  BY <1>3, <1>4, DrainResults
<1> QED
  BY <1>5, ClaimMoves

\* With one drain at a time nobody who came earlier and still waits is overtaken by a
\* winner, through sold-out phases that put the queue back, failures and restarts.
THEOREM FirstComeFirstServed ==
  ASSUME OneDrain
  PROVE  Spec => ServedInOrder
<1> DEFINE Inv == TypeOK /\ TicketsGenuine /\ BatchesIdle /\ PoppedFirst
<1>1. Init => Inv
  BY TypeInit, GenuineInit, BatchesIdleInit, PoppedFirstInit
<1>2. Inv /\ [Next]_vars => Inv'
  BY TypeNext, GenuineNext, BatchesIdleNext, PoppedFirstNext
<1>3. ASSUME Inv, [Next]_vars
      PROVE  \A u \in Users : result[u] = "none" /\ result'[u] = "WON"
               => \E d \in Ticks :
                    /\ tick[d].batch[u] > 0
                    /\ \A v \in Users, e \in Ticks :
                         /\ queue[v] > 0 => queue[v] >= tick[d].batch[u]
                         /\ tick[e].batch[v] > 0 => tick[e].batch[v] >= tick[d].batch[u]
  <2> SUFFICES ASSUME NEW u \in Users, result[u] = "none", result'[u] = "WON"
               PROVE  \E d \in Ticks :
                        /\ tick[d].batch[u] > 0
                        /\ \A v \in Users, e \in Ticks :
                             /\ queue[v] > 0 => queue[v] >= tick[d].batch[u]
                             /\ tick[e].batch[v] > 0 => tick[e].batch[v] >= tick[d].batch[u]
    OBVIOUS
  <2>1. PICK d \in Ticks : IsNext(d, u)
    BY <1>3, WinsByClaim
  <2>2. Ticks = {d}
    BY DEF OneDrain
  <2>3. queue \in [Users -> Nat] /\ tick[d].batch \in [Users -> Nat]
    BY <1>3 DEF TypeOK, TypeRedis, TypeWork, Tick
  <2>4. \A v \in Users : tick[d].batch[v] > 0 => tick[d].batch[v] >= tick[d].batch[u]
    BY <2>1, <2>3 DEF IsNext, Members, Before
  <2>5. tick[d].batch[u] > 0 /\ \A v \in Users : queue[v] > 0 => queue[v] >= tick[d].batch[u]
    BY <1>3, <2>1, <2>3 DEF IsNext, PoppedFirst, InBatch, InQueue
  <2> QED
    BY <2>2, <2>4, <2>5
<1> HIDE DEF Inv
<1> QED
  BY <1>1, <1>2, <1>3, PTL DEF Spec, ServedInOrder

-----------------------------------------------------------------------------
(* A user is turned away only when nothing is in stock.                    *)

\* Winners cannot be downgraded while the cache holds the event.
NoDowngrade == cached /\ \A d \in Ticks : tick[d].pc \notin {"fill", "refund"}

LEMMA NoDowngradeNext ==
  ASSUME Faults \subseteq {"io"}, admin # "endStop", TypeOK, TicketsGenuine, NoDowngrade, [Next]_vars
  PROVE  NoDowngrade'
<1> USE DEF NoDowngrade
<1>0. TypeWork /\ ~Crash /\ ~EndStop
  BY DEF TypeOK, Crash, EndStop, AdminStep
<1>1. ASSUME NEW u \in Users, Join(u) PROVE UNCHANGED <<cached, tick>>
  BY <1>1 DEF Join, node
<1>2. LookupMiss \/ LookupFill => cached' \in {cached, TRUE} /\ UNCHANGED tick
  BY DEF LookupMiss, LookupFill
<1>3. InitDrainsRead \/ InitDrainsStart => UNCHANGED <<cached, tick>>
  BY DEF InitDrainsRead, InitDrainsStart
<1>4. ASSUME NEW d \in Ticks, DrainStep(d) PROVE NoDowngrade'
  <2>1. ~Fill(d) /\ ~SignFails(d) /\ ~Refund(d)
    BY DEF Fill, SignFails, Refund
  <2>2. UNCHANGED cached
    BY <1>4, <2>1 DEF DrainStep, TickStart, Pop, Claim, Lookup, Sign, Audit, BulkSoldOut, TickFails
  <2>3. OthersStay(d) /\ tick'[d].pc \notin {"fill", "refund"}
    <3>1. CASE TickStart(d) \/ BulkSoldOut(d) \/ TickFails(d)
      BY <1>0, <3>1, PcMoves, IdleTickFields DEF OnlyPc, Ended
    <3>2. CASE Lookup(d)
      BY <1>0, <3>2 DEF Lookup, OthersStay, TypeWork, Tick
    <3>3. CASE Pop(d) \/ Claim(d) \/ Sign(d) \/ Audit(d)
      BY <3>3, PopMoves, ClaimMoves, SignMoves, NextUserMoves, IdleTickFields DEF Audit
    <3> QED
      BY <1>4, <2>1, <3>1, <3>2, <3>3 DEF DrainStep
  <2> QED
    BY <2>2, <2>3 DEF OthersStay
<1>5. ASSUME NEW r \in Requests, RequestStep(r) PROVE UNCHANGED <<cached, tick>>
  BY <1>5 DEF RequestStep, Handler, VerifyStart, VerifyInsert, VerifyDecr, ReleaseStart, ReleaseMulti,
              ReleaseDecr, ReleaseRestart, ReleaseRow
<1>6. ASSUME NEW j \in Jtis, Expire(j) PROVE UNCHANGED <<cached, tick>>
  BY <1>6 DEF Expire, node
<1>7. AdminNext => cached' \in {cached, TRUE} /\ UNCHANGED tick
  BY <1>0 DEF AdminNext, PausePg, PauseRedis, PauseStop, ResumePg, ResumeRedis, ResumeWarm,
         EndPg, EndRedis, AdminFails, UpdateCapacity, node
<1>8. UNCHANGED vars => UNCHANGED <<cached, tick>>
  BY DEF vars, node
<1>9. CASE cached' \in {cached, TRUE} /\ UNCHANGED tick
  BY <1>9
<1> QED
  BY <1>0, <1>1, <1>2, <1>3, <1>4, <1>5, <1>6, <1>7, <1>8, <1>9 DEF Next

LEMMA NoneLeft ==
  ASSUME NEW S, IsFiniteSet(S), Cardinality(S) <= 1, NEW x \in S
  PROVE  S = {x} /\ Cardinality(S) = 1
<1>1. Cardinality(S) \in Nat /\ Cardinality(S \ {x}) = Cardinality(S) - 1 /\ IsFiniteSet(S \ {x})
      /\ Cardinality(S \ {x}) \in Nat
  BY ElementSize, FS_CardinalityType
<1>2. Cardinality(S \ {x}) = 0 /\ Cardinality(S) = 1
  BY <1>1
<1>3. S \ {x} = {}
  BY <1>1, <1>2, FS_EmptySet
<1> QED
  BY <1>2, <1>3

\* Who never joined again in the hands of a drain has one place only.
LEMMA PlaceAlone ==
  ASSUME TypeOK, PlacesInv, NEW u \in Users, rejoins[u] = 0
  PROVE  /\ \A d, e \in Ticks : InBatch(d, u) /\ InBatch(e, u) => d = e
         /\ InQueue(u) => \A d \in Ticks : ~InBatch(d, u)
         /\ \A d \in Ticks : WorksOn(d, u) => ~Waits(u)
<1>0. /\ IsFiniteSet(BatchesOf(u)) /\ IsFiniteSet(WorkOn(u))
      /\ Cardinality(BatchesOf(u)) \in Nat /\ Cardinality(WorkOn(u)) \in Nat
      /\ Cardinality(TicketsOf(u)) \in Nat /\ One(InQueue(u)) \in {0, 1}
  BY PlacesFinite DEF One
<1>1. Cardinality(BatchesOf(u)) + Cardinality(WorkOn(u)) + One(InQueue(u)) <= 1
  <2>1. Cardinality(BatchesOf(u)) + Cardinality(WorkOn(u)) + Cardinality(TicketsOf(u)) + One(InQueue(u))
          <= 1 + rejoins[u]
    BY DEF PlacesInv, PlacesCounted
  <2> QED
    BY <1>0, <2>1
<1>2. \A d \in BatchesOf(u) : BatchesOf(u) = {d} /\ Cardinality(BatchesOf(u)) = 1
  BY <1>0, <1>1, NoneLeft
<1>3. \A d \in WorkOn(u) : Cardinality(WorkOn(u)) = 1
  BY <1>0, <1>1, NoneLeft
<1>4. InQueue(u) => One(InQueue(u)) = 1
  BY DEF One
<1>5. \A d \in Ticks : /\ InBatch(d, u) <=> d \in BatchesOf(u)
                       /\ WorksOn(d, u) <=> d \in WorkOn(u)
  BY DEF BatchesOf, WorkOn
<1>6. ASSUME InQueue(u), NEW d \in Ticks, InBatch(d, u) PROVE FALSE
  <2>1. One(InQueue(u)) = 1 /\ Cardinality(BatchesOf(u)) = 1
    BY <1>2, <1>4, <1>5, <1>6
  <2> QED
    BY <1>0, <1>1, <2>1
<1>7. ASSUME NEW d \in Ticks, WorksOn(d, u) PROVE ~Waits(u)
  <2>1. Cardinality(WorkOn(u)) = 1
    BY <1>3, <1>5, <1>7
  <2>2. Cardinality(BatchesOf(u)) = 0 /\ One(InQueue(u)) = 0
    BY <1>0, <1>1, <2>1
  <2> QED
    BY <1>2, <1>4, <1>5, <2>2 DEF Waits
<1> QED
  BY <1>2, <1>5, <1>6, <1>7

\* A drain has nobody wait who did not.
LEMMA NoNewWaits ==
  ASSUME TypeOK, TicketsGenuine, NEW d \in Ticks, DrainStep(d), NEW u \in Users,
         Waits(u)'
  PROVE  Waits(u)
<1> USE DEF Waits, InQueue, InBatch, OthersStay
<1>0. TypeWork /\ queue \in [Users -> Nat] /\ \A e \in Ticks : tick[e].batch \in [Users -> Nat]
  BY DEF TypeOK, TypeRedis, TypeWork, Tick
<1>1. CASE TickStart(d) \/ Lookup(d) \/ Fill(d) \/ SignFails(d)
  <2>1. UNCHANGED queue
    BY <1>1 DEF TickStart, Lookup, Fill, SignFails, redis
  <2>2. \E pc : OnlyPc(d, pc)
    BY <1>0, <1>1, PcMoves
  <2> QED
    BY <2>1, <2>2 DEF OnlyPc
<1>2. CASE TickFails(d)
  <2>1. UNCHANGED queue
    BY <1>2 DEF TickFails, redis
  <2> QED
    BY <1>0, <1>2, <2>1, PcMoves, IdleTickFields DEF Ended
<1>3. CASE Pop(d)
  BY <1>0, <1>3, PopMoves DEF Members
<1>4. CASE Claim(d)
  <2>1. UNCHANGED queue
    BY <1>4 DEF Claim
  <2>2. OthersStay(d) /\ \A v \in Users : tick'[d].batch[v] \in {0, tick[d].batch[v]}
    BY <1>4, ClaimMoves
  <2> QED
    BY <2>1, <2>2
<1>5. CASE Sign(d)
  <2>1. UNCHANGED queue
    BY <1>5 DEF Sign
  <2>2. OthersStay(d) /\ (tick'[d].batch = tick[d].batch \/ tick'[d] = IdleTick)
    BY <1>5, SignMoves
  <2> QED
    BY <2>1, <2>2, IdleTickFields
<1>6. CASE Refund(d) \/ Audit(d)
  <2>1. UNCHANGED queue /\ NextUser(d)
    BY <1>6 DEF Refund, Audit, redis
  <2> QED
    BY <2>1, NextUserMoves
<1>7. CASE BulkSoldOut(d)
  <2>1. Ended(d)
    BY <1>0, <1>7, PcMoves
  <2>2. CASE queue' = Nobody
    BY <2>1, <2>2, IdleTickFields DEF Ended, Nobody
  <2>3. CASE queue' = ReAdd(tick[d].batch, queue)
    BY <1>0, <2>1, <2>3, IdleTickFields DEF Ended, ReAdd
  <2> QED
    BY <1>7, <2>2, <2>3 DEF BulkSoldOut
<1> QED
  BY <1>1, <1>2, <1>3, <1>4, <1>5, <1>6, <1>7 DEF DrainStep

\* Who waits has no answer, but for those who joined again in the hands of a drain.
WaitingFresh == \A u \in Users : Waits(u) => result[u] = "none" \/ rejoins[u] > 0

\* Who is answered by a step waited before it, and does not wait any more.
LEMMA AnsweredOnce ==
  ASSUME TypeOK, TicketsGenuine, PlacesInv, NEW d \in Ticks, DrainStep(d), ~Refund(d),
         NEW u \in Users, result'[u] # result[u]
  PROVE  Waits(u) /\ (rejoins[u] = 0 => ~Waits(u)')
<1> USE DEF Waits, InQueue, InBatch, OthersStay
<1>0. TypeWork /\ queue \in [Users -> Nat] /\ \A e \in Ticks : tick[e].batch \in [Users -> Nat]
  BY DEF TypeOK, TypeRedis, TypeWork, Tick
<1>1. CASE Claim(d)
  <2>1. IsNext(d, u) /\ OthersStay(d) /\ tick'[d].batch[u] = 0
    BY <1>1, ClaimMoves
  <2>2. InBatch(d, u) /\ UNCHANGED queue
    BY <1>1, <2>1 DEF IsNext, Claim
  <2> QED
    BY <2>1, <2>2, PlaceAlone
<1>2. CASE BulkSoldOut(d)
  <2>1. Ended(d)
    BY <1>0, <1>2, PcMoves
  <2>2. queue' = Nobody /\ (InBatch(d, u) \/ InQueue(u))
    BY <1>2, DrainResults
  <2> QED
    BY <2>1, <2>2, PlaceAlone, IdleTickFields DEF Ended, Nobody
<1> QED
  BY <1>1, <1>2, DrainResults

LEMMA WaitingFreshNext ==
  ASSUME Faults \subseteq {"io"}, TypeOK, TicketsGenuine, PlacesInv, NoDowngrade, WaitingFresh, [Next]_vars
  PROVE  WaitingFresh'
<1> SUFFICES ASSUME NEW u \in Users, Waits(u)', result'[u] # "none", rejoins'[u] = 0
             PROVE  FALSE
  <2>1. \A u \in Users : rejoins'[u] \in Nat
    BY TypeNext DEF TypeOK, TypeHistory
  <2> QED
    BY <2>1 DEF WaitingFresh
<1>0. rejoins[u] \in Nat
  BY DEF TypeOK, TypeHistory
<1>1. ASSUME NEW v \in Users, Join(v) PROVE FALSE
  <2>1. /\ UNCHANGED <<tick, result>> /\ result[v] = "none"
        /\ \A w \in Users \ {v} : queue'[w] = queue[w]
        /\ rejoins'[u] \in {rejoins[u], rejoins[u] + 1}
    BY <1>1, JoinMoves
  <2> QED
    BY <1>0, <2>1 DEF WaitingFresh, Waits, InQueue, InBatch
<1>2. ASSUME NEW d \in Ticks, DrainStep(d) PROVE FALSE
  <2>1. ~Refund(d)
    BY DEF Refund, NoDowngrade
  <2>2. UNCHANGED rejoins
    BY <1>2 DEF DrainStep, TickStart, Pop, Claim, Lookup, Fill, Sign, SignFails, Refund, Audit,
                BulkSoldOut, TickFails, history, past
  <2>3. Waits(u)
    BY <1>2, NoNewWaits
  <2> QED
    BY <1>0, <1>2, <2>1, <2>2, <2>3, AnsweredOnce DEF WaitingFresh
<1>3. ~Crash
  BY DEF Crash
<1>4. CASE UNCHANGED <<queue, tick, result, rejoins>>
  BY <1>0, <1>4 DEF WaitingFresh, Waits, InQueue, InBatch
<1>5. CASE result' = [v \in Users |-> "none"]
  BY <1>5
<1> QED
  BY <1>1, <1>2, <1>3, <1>4, <1>5, PlacesFramed

\* Who is told SOLD_OUT had no answer yet, and stock was empty.
LEMMA TurnedAwayStep ==
  ASSUME TypeOK, TicketsGenuine, PlacesInv, WaitingFresh, NoDowngrade, [Next]_vars,
         NEW u \in Users, result[u] # "SOLD_OUT", result'[u] = "SOLD_OUT"
  PROVE  stock <= 0 /\ (result[u] = "none" \/ rejoins[u] > 0)
<1>0. stock \in Int
  BY DEF TypeOK, TypeRedis
<1>1. ASSUME NEW v \in Users, Join(v) PROVE UNCHANGED result
  BY <1>1 DEF Join
<1>2. Crash => UNCHANGED result
  BY DEF Crash, redis
<1>3. PICK d \in Ticks : DrainStep(d)
  BY <1>1, <1>2, PlacesFramed
<1>4. ~Refund(d)
  BY DEF Refund, NoDowngrade
<1>5. Waits(u)
  BY <1>3, <1>4, AnsweredOnce
<1>6. ~InStock \/ ~StockBack
  <2>1. CASE Claim(d)
    BY <2>1, ClaimMoves
  <2>2. CASE BulkSoldOut(d)
    BY <2>2 DEF BulkSoldOut
  <2> QED
    BY <1>3, <1>4, <2>1, <2>2, DrainResults
<1> QED
  BY <1>0, <1>5, <1>6 DEF InStock, StockBack, WaitingFresh

\* Before an end, and while signing works and nothing crashes, a user is turned away
\* only when nothing is in stock, even if calls are lost; and no winner is downgraded who
\* did not join again in the hands of a drain.
THEOREM SoldOutMeansEmpty ==
  ASSUME Faults \subseteq {"io"}, "end" \notin AdminOps
  PROVE  Spec => TurnedAwayWhenEmpty
<1> DEFINE NoEnd == status # "ENDED" /\ admin \notin {"endRedis", "endStop"}
<1> DEFINE Inv == TypeOK /\ TicketsGenuine /\ PlacesInv /\ NoEnd /\ NoDowngrade /\ WaitingFresh
<1>1. Init => Inv
  <2>1. Init => NoDowngrade /\ NoEnd /\ WaitingFresh
    BY IdleTickFields DEF Init, NoDowngrade, WaitingFresh, Waits, InQueue, InBatch, Nobody
  <2> QED
    BY <2>1, TypeInit, GenuineInit, PlacesInvInit
<1>2. NoEnd /\ [Next]_vars => NoEnd'
  BY NoEndNext
<1>3. Inv /\ [Next]_vars => Inv'
  BY <1>2, TypeNext, GenuineNext, PlacesInvNext, NoDowngradeNext, WaitingFreshNext
<1>4. ASSUME Inv, [Next]_vars
      PROVE  \A u \in Users : result[u] # "SOLD_OUT" /\ result'[u] = "SOLD_OUT"
               => stock <= 0 /\ (result[u] = "none" \/ rejoins[u] > 0)
  BY <1>4, TurnedAwayStep
<1> HIDE DEF Inv
<1> QED
  BY <1>1, <1>3, <1>4, PTL DEF Spec, TurnedAwayWhenEmpty

-----------------------------------------------------------------------------
(* The gate on outstanding tickets, with one drain at a time. The counter  *)
(* in Redis keeps to the gate; the tickets that wait for their owner keep  *)
(* to the counter, but for what makes it undercount them.                  *)

\* A tick past the check of the gate found it open.
GateSeenOpen == \A d \in Ticks : tick[d].pc = "pop" /\ cap # NoCap => outstanding < cap

CounterOvershoot == cap # NoCap =>
  outstanding + Cardinality(InTicks) + Cardinality(Claimed) < cap + RateLimit

GateInv == CounterOvershoot /\ GateSeenOpen

\* Fewer users and units in the hands of ticks, and no more tickets outstanding.
LEMMA GateFewer ==
  ASSUME TypeOK, CounterOvershoot, InTicks' \subseteq InTicks, Claimed' \subseteq Claimed,
         outstanding' \in Nat, outstanding' <= outstanding, cap' = cap
  PROVE  CounterOvershoot'
<1>1. /\ Cardinality(InTicks') \in Nat /\ Cardinality(InTicks) \in Nat
      /\ Cardinality(InTicks') <= Cardinality(InTicks)
  BY InTicksFinite, SubsetSize
<1>2. /\ Cardinality(Claimed') \in Nat /\ Cardinality(Claimed) \in Nat
      /\ Cardinality(Claimed') <= Cardinality(Claimed)
  BY UnitsFinite, SubsetSize
<1>3. outstanding \in Nat /\ cap \in Nat \cup {NoCap} /\ RateLimit \in Nat
  BY SaleAssumption DEF TypeOK, TypeRedis
<1> QED
  BY <1>1, <1>2, <1>3 DEF CounterOvershoot

\* Outside the drain no ticket comes to be outstanding.
LEMMA GateFramed ==
  ASSUME "capacity" \notin AdminOps, TypeOK, [Next]_vars
  PROVE  \/ \E d \in Ticks : DrainStep(d)
         \/ /\ outstanding' \in Nat /\ outstanding' <= outstanding /\ cap' = cap
            /\ UNCHANGED tick \/ Crash
<1> DEFINE Framed == /\ outstanding' \in Nat /\ outstanding' <= outstanding /\ cap' = cap
                     /\ UNCHANGED tick
<1>0. outstanding \in Nat
  BY DEF TypeOK, TypeRedis
<1>1. ASSUME NEW u \in Users, Join(u) PROVE Framed
  BY <1>0, <1>1 DEF Join, node
<1>2. LookupMiss \/ LookupFill \/ InitDrainsRead \/ InitDrainsStart => Framed
  BY <1>0 DEF LookupMiss, LookupFill, InitDrainsRead, InitDrainsStart, redis
<1>3. ASSUME NEW r \in Requests, RequestStep(r) PROVE Framed
  BY <1>0, <1>3 DEF RequestStep, Handler, VerifyStart, VerifyInsert, VerifyDecr, ReleaseStart, ReleaseMulti,
              ReleaseDecr, ReleaseRestart, ReleaseRow, DecrFloor0, redis
<1>4. ASSUME NEW j \in Jtis, Expire(j) PROVE Framed
  BY <1>0, <1>4 DEF Expire, node
<1>5. AdminNext => Framed
  BY <1>0 DEF AdminNext, PausePg, PauseRedis, PauseStop, ResumePg, ResumeRedis, ResumeWarm,
         EndPg, EndRedis, EndStop, AdminFails, UpdateCapacity, redis
<1>6. UNCHANGED vars => Framed
  BY <1>0 DEF vars, redis, node
<1>7. Crash => outstanding' \in Nat /\ outstanding' <= outstanding /\ cap' = cap
  BY <1>0 DEF Crash, redis
<1> QED
  BY <1>1, <1>2, <1>3, <1>4, <1>5, <1>6, <1>7 DEF Next

LEMMA GateDrain ==
  ASSUME OneDrain, TypeOK, TicketsGenuine, BatchesIdle, GateInv, NEW d \in Ticks, DrainStep(d)
  PROVE  GateInv'
<1> USE DEF GateInv, OthersStay
<1>0. Ticks = {d} /\ TypeWork /\ InTicks = Members(tick[d].batch)
  BY DEF OneDrain, TypeOK, InTicks, Members
<1>1. InTicks' = Members(tick'[d].batch)
  BY <1>0 DEF InTicks, Members
<1>nat. /\ outstanding \in Nat /\ cap \in Nat \cup {NoCap} /\ RateLimit \in Nat
        /\ Cardinality(InTicks) \in Nat /\ Cardinality(Claimed) \in Nat
  BY SaleAssumption, InTicksFinite, UnitsFinite, SubsetSize DEF TypeOK, TypeRedis
<1>2. CASE /\ UNCHANGED <<outstanding, cap>> /\ tick'[d].pc # "pop"
           /\ \A u \in Users : tick'[d].batch[u] \in {0, tick[d].batch[u]}
           /\ tick'[d].pc \in HoldsUnit => tick[d].pc \in HoldsUnit
  <2>1. InTicks' \subseteq InTicks /\ Claimed' \subseteq Claimed
    BY <1>0, <1>1, <1>2 DEF Members, Claimed, HoldsUnit
  <2>2. CounterOvershoot'
    BY <1>2, <1>nat, <2>1, GateFewer
  <2> QED
    BY <1>0, <1>2, <2>2 DEF GateSeenOpen
<1>3. CASE TickStart(d)
  <2>1. OnlyPc(d, "pop") /\ UNCHANGED <<outstanding, cap>>
    BY <1>0, <1>3, PcMoves DEF TickStart, redis
  <2>2. InTicks' = InTicks /\ Claimed' \subseteq Claimed
    BY <1>0, <1>1, <2>1 DEF OnlyPc, Claimed
  <2>3. CounterOvershoot'
    BY <1>nat, <2>1, <2>2, GateFewer
  <2>4. cap # NoCap => outstanding < cap
    BY <1>3, <1>nat DEF TickStart, Gated
  <2> QED
    BY <1>0, <2>1, <2>3, <2>4 DEF GateSeenOpen
<1>4. CASE Lookup(d) \/ Fill(d) \/ SignFails(d)
  <2>1. tick[d].pc \in HoldsUnit /\ UNCHANGED <<outstanding, cap>>
    BY <1>4 DEF Lookup, Fill, SignFails, HoldsUnit, redis
  <2>2. \E pc \in HoldsUnit : OnlyPc(d, pc)
    BY <1>0, <1>4, PcMoves DEF HoldsUnit
  <2> QED
    BY <1>2, <2>1, <2>2 DEF OnlyPc, HoldsUnit
<1>5. CASE Pop(d)
  <2>1. PICK S \in SUBSET Members(queue) :
          /\ IsPopMin(queue, RateLimit, S)
          /\ tick'[d].pc \in {"idle", "claim"}
          /\ \A u \in Users : tick'[d].batch[u] = IF u \in S THEN queue[u] ELSE 0
    BY <1>5, PopMoves
  <2>2. InTicks' = S
    BY <1>1, <2>1 DEF Members
  <2>3. Cardinality(S) \in Nat /\ Cardinality(S) <= RateLimit
    BY <2>1, PoppedSize
  <2>4. Claimed' = {}
    BY <1>0, <2>1 DEF Claimed
  <2>5. cap # NoCap => outstanding < cap
    BY <1>5 DEF Pop, GateSeenOpen
  <2>6. CounterOvershoot'
    BY <1>5, <1>nat, <2>2, <2>3, <2>4, <2>5, FS_EmptySet DEF Pop, CounterOvershoot
  <2> QED
    BY <1>0, <2>1, <2>6 DEF GateSeenOpen
<1>6. CASE Claim(d)
  <2>1. PICK u \in Users :
          /\ tick[d].batch[u] > 0
          /\ \A v \in Users : tick'[d].batch[v] = IF v = u THEN 0 ELSE tick[d].batch[v]
          /\ tick'[d].pc \in {"lookup", "bulk"}
    BY <1>6, ClaimMoves DEF IsNext
  <2>2. u \in InTicks /\ InTicks' = InTicks \ {u}
    BY <1>0, <1>1, <2>1 DEF Members
  <2>3. Cardinality(InTicks \ {u}) = Cardinality(InTicks) - 1
    BY <2>2, InTicksFinite, ElementSize
  <2>4. Claimed' = Claimed \cup {d} \/ Claimed' = Claimed \ {d}
    BY <1>6, ClaimMoves, ClaimedMoves
  <2>5. Cardinality(Claimed') \in Nat /\ Cardinality(Claimed') <= Cardinality(Claimed) + 1
    <3>1. Cardinality(Claimed \cup {d}) = IF d \in Claimed THEN Cardinality(Claimed) ELSE Cardinality(Claimed) + 1
      BY UnitsFinite, ElementSize
    <3>2. Cardinality(Claimed \ {d}) = IF d \in Claimed THEN Cardinality(Claimed) - 1 ELSE Cardinality(Claimed)
      BY UnitsFinite, ElementSize
    <3>3. Cardinality(Claimed') \in Nat
      <4>1. Claimed' \subseteq Ticks
        BY DEF Claimed
      <4> QED
        BY <4>1, SaleAssumption, FS_Subset, FS_CardinalityType
    <3> QED
      BY <1>nat, <2>4, <3>1, <3>2, <3>3
  <2>6. CounterOvershoot'
    BY <1>6, <1>nat, <2>2, <2>3, <2>5 DEF Claim, CounterOvershoot
  <2> QED
    BY <1>0, <2>1, <2>6 DEF GateSeenOpen
<1>7. CASE Sign(d)
  <2>1. /\ outstanding' \in {outstanding, outstanding + 1}
        /\ tick'[d].pc \in {"audit", "idle"}
        /\ \A u \in Users : tick'[d].batch[u] \in {0, tick[d].batch[u]}
    BY <1>7, SignMoves, IdleTickFields
  <2>2. d \in Claimed /\ Claimed' = Claimed \ {d}
    BY <1>0, <1>7, <2>1 DEF Sign, Claimed
  <2>3. Cardinality(Claimed \ {d}) = Cardinality(Claimed) - 1
    BY <2>2, UnitsFinite, ElementSize
  <2>4. InTicks' \subseteq InTicks
    BY <1>0, <1>1, <2>1 DEF Members
  <2>5. Cardinality(InTicks') \in Nat /\ Cardinality(InTicks') <= Cardinality(InTicks)
    BY <2>4, InTicksFinite, SubsetSize
  <2>6. CounterOvershoot'
    BY <1>7, <1>nat, <2>1, <2>2, <2>3, <2>5 DEF Sign, CounterOvershoot
  <2> QED
    BY <1>0, <2>1, <2>6 DEF GateSeenOpen
<1>8. CASE Refund(d) \/ Audit(d)
  <2>1. NextUser(d) /\ UNCHANGED <<outstanding, cap>>
    BY <1>8 DEF Refund, Audit, redis
  <2>2. tick'[d].pc \in {"idle", "claim"} /\ \A u \in Users : tick'[d].batch[u] = tick[d].batch[u]
    BY <2>1, NextUserMoves
  <2> QED
    BY <1>2, <2>1, <2>2 DEF HoldsUnit
<1>9. CASE BulkSoldOut(d) \/ TickFails(d)
  <2>1. Ended(d) /\ UNCHANGED <<outstanding, cap>>
    BY <1>0, <1>9, PcMoves DEF BulkSoldOut, TickFails, redis
  <2> QED
    BY <1>2, <2>1, IdleTickFields DEF Ended, HoldsUnit
<1> QED
  BY <1>3, <1>4, <1>5, <1>6, <1>7, <1>8, <1>9 DEF DrainStep

\* With one drain at a time and a fixed cap, a batch that starts below the cap takes the
\* counter over it by less than its size, whatever fails.
LEMMA CounterGated ==
  ASSUME OneDrain, "capacity" \notin AdminOps
  PROVE  Spec => []CounterOvershoot
<1> DEFINE Inv == TypeOK /\ TicketsGenuine /\ BatchesIdle /\ GateInv
<1>1. Init => Inv
  <2> SUFFICES ASSUME Init PROVE GateInv
    BY TypeInit, GenuineInit, BatchesIdleInit
  <2>1. InTicks = {} /\ Claimed = {}
    BY IdleTickFields DEF Init, InTicks, Claimed
  <2>2. outstanding = 0 /\ (cap # NoCap => cap \in Nat \ {0}) /\ RateLimit \in Nat
    BY SaleAssumption DEF Init
  <2>3. CounterOvershoot
    BY <2>1, <2>2, FS_EmptySet DEF CounterOvershoot
  <2>4. GateSeenOpen
    BY IdleTickFields DEF Init, GateSeenOpen
  <2> QED
    BY <2>3, <2>4 DEF GateInv
<1>2. ASSUME Inv, [Next]_vars PROVE GateInv'
  <2>1. ASSUME NEW d \in Ticks, DrainStep(d) PROVE GateInv'
    BY <1>2, <2>1, GateDrain
  <2>2. ASSUME outstanding' \in Nat, outstanding' <= outstanding, cap' = cap,
               UNCHANGED tick \/ Crash
        PROVE  GateInv'
    <3>1. CASE UNCHANGED tick
      <4>1. InTicks' = InTicks /\ Claimed' = Claimed
        BY <3>1 DEF InTicks, Claimed
      <4>2. CounterOvershoot'
        BY <1>2, <2>2, <4>1, GateFewer DEF GateInv
      <4>3. outstanding \in Nat /\ cap \in Nat \cup {NoCap}
        BY <1>2, SaleAssumption DEF TypeOK, TypeRedis
      <4> QED
        BY <1>2, <2>2, <3>1, <4>2, <4>3 DEF GateInv, GateSeenOpen
    <3>2. CASE Crash
      <4>1. \A d \in Ticks : tick'[d] = IdleTick
        BY <3>2 DEF Crash
      <4>2. InTicks' \subseteq InTicks /\ Claimed' \subseteq Claimed
        BY <4>1, IdleTickFields DEF InTicks, Claimed
      <4>3. CounterOvershoot'
        BY <1>2, <2>2, <4>2, GateFewer DEF GateInv
      <4> QED
        BY <4>1, <4>3, IdleTickFields DEF GateInv, GateSeenOpen
    <3> QED
      BY <2>2, <3>1, <3>2
  <2> QED
    BY <1>2, <2>1, <2>2, GateFramed
<1>3. Inv /\ [Next]_vars => Inv'
  BY <1>2, TypeNext, GenuineNext, BatchesIdleNext
<1>4. Inv => CounterOvershoot
  BY DEF GateInv
<1> QED
  BY <1>1, <1>3, <1>4, PTL DEF Spec

\* Requests that settled a ticket and are to decrement the counter for it.
Settling == {r \in Requests : req[r].pc \in {"vDecr", "rDecr"}}

\* The counter lags behind the tickets by what was decremented twice or never incremented.
CounterSees == status # "ENDED" =>
  Cardinality(Unsettled) + Cardinality(Settling)
    <= outstanding + Cardinality(used \cap returned) + dup + mishaps

LEMMA CountsFinite ==
  ASSUME TypeOK
  PROVE  /\ IsFiniteSet(Unsettled) /\ IsFiniteSet(Settling) /\ IsFiniteSet(used \cap returned)
         /\ Cardinality(Unsettled) \in Nat /\ Cardinality(Settling) \in Nat
         /\ Cardinality(used \cap returned) \in Nat
         /\ outstanding \in Nat /\ dup \in Nat /\ mishaps \in Nat
<1>1. Unsettled \subseteq Jtis /\ Settling \subseteq Requests /\ used \cap returned \subseteq Jtis
  BY DEF Unsettled, Minted, Settling, TypeOK, TypePostgres
<1> QED
  BY <1>1, SaleAssumption, FS_Subset, FS_CardinalityType DEF TypeOK, TypeRedis, TypeHistory

\* A request comes to be about to decrement the counter, or is no more.
LEMMA SettlingMoves ==
  ASSUME TypeOK, NEW r \in Requests, OthersWait(r)
  PROVE  /\ req'[r].pc \in {"vDecr", "rDecr"} =>
              Cardinality(Settling') <= Cardinality(Settling) + 1 /\ Cardinality(Settling') \in Nat
         /\ req'[r].pc \notin {"vDecr", "rDecr"} =>
              Cardinality(Settling') <= Cardinality(Settling) /\ Cardinality(Settling') \in Nat
         /\ req'[r].pc \notin {"vDecr", "rDecr"} /\ req[r].pc \in {"vDecr", "rDecr"} =>
              Cardinality(Settling') = Cardinality(Settling) - 1
<1>1. Settling' = IF req'[r].pc \in {"vDecr", "rDecr"} THEN Settling \cup {r} ELSE Settling \ {r}
  BY DEF Settling, OthersWait
<1>2. r \in Settling <=> req[r].pc \in {"vDecr", "rDecr"}
  BY DEF Settling
<1>3. /\ Cardinality(Settling) \in Nat
      /\ Cardinality(Settling \cup {r}) = IF r \in Settling THEN Cardinality(Settling) ELSE Cardinality(Settling) + 1
      /\ Cardinality(Settling \ {r}) = IF r \in Settling THEN Cardinality(Settling) - 1 ELSE Cardinality(Settling)
  BY CountsFinite, ElementSize
<1>4. CASE req'[r].pc \in {"vDecr", "rDecr"}
  BY <1>1, <1>3, <1>4
<1>5. CASE req'[r].pc \notin {"vDecr", "rDecr"}
  <2>1. Settling' = Settling \ {r} /\ Cardinality(Settling \ {r}) \in Nat
    BY <1>1, <1>5, CountsFinite, ElementSize, FS_CardinalityType
  <2> QED
    BY <1>2, <1>3, <1>5, <2>1
<1> QED
  BY <1>4, <1>5

\* A ticket is verified or given back: it is settled, or settled twice.
LEMMA Settles ==
  ASSUME TypeOK, TicketsGenuine, NEW j \in Minted, UNCHANGED owner,
         \/ /\ j \notin used /\ used' = used \cup {j} /\ UNCHANGED returned
         \/ /\ j \notin returned /\ returned' = returned \cup {j} /\ UNCHANGED used
  PROVE  /\ Cardinality(Unsettled') \in Nat /\ Cardinality((used \cap returned)') \in Nat
         /\ Cardinality(Unsettled') + Cardinality(used \cap returned) + 1
              = Cardinality(Unsettled) + Cardinality((used \cap returned)')
<1>1. /\ IsFiniteSet(Unsettled) /\ IsFiniteSet(used \cap returned)
      /\ Cardinality(Unsettled) \in Nat /\ Cardinality(used \cap returned) \in Nat
  BY CountsFinite
<1>2. CASE j \in used \cup returned
  <2>1. /\ Unsettled' = Unsettled
        /\ (used \cap returned)' = (used \cap returned) \cup {j} /\ j \notin used \cap returned
    BY <1>2 DEF Unsettled, Minted
  <2>2. Cardinality((used \cap returned) \cup {j}) = Cardinality(used \cap returned) + 1
    BY <1>1, <2>1, ElementSize
  <2>3. /\ Cardinality(Unsettled') = Cardinality(Unsettled)
        /\ Cardinality((used \cap returned)') = Cardinality((used \cap returned) \cup {j})
    BY <2>1, Zenon
  <2> QED
    BY <1>1, <2>2, <2>3
<1>3. CASE j \notin used \cup returned
  <2>1. /\ Unsettled' = Unsettled \ {j} /\ j \in Unsettled
        /\ (used \cap returned)' = used \cap returned
    BY <1>3 DEF Unsettled, Minted
  <2>2. /\ Cardinality(Unsettled \ {j}) = Cardinality(Unsettled) - 1
        /\ Cardinality(Unsettled \ {j}) \in Nat
    BY <1>1, <2>1, ElementSize, FS_CardinalityType
  <2>3. /\ Cardinality(Unsettled') = Cardinality(Unsettled \ {j})
        /\ Cardinality((used \cap returned)') = Cardinality(used \cap returned)
    BY <2>1, Zenon
  <2> QED
    BY <1>1, <2>2, <2>3
<1> QED
  BY <1>2, <1>3

\* Who touches the counter and what it counts.
LEMMA CounterFramed ==
  ASSUME TypeOK, [Next]_vars
  PROVE  \/ \E d \in Ticks : Sign(d)
         \/ \E r \in Requests : RequestStep(r)
         \/ Crash
         \/ status' = "ENDED"
         \/ UNCHANGED <<outstanding, owner, used, returned, dup, req>>
<1> DEFINE Framed == UNCHANGED <<outstanding, owner, used, returned, dup, req>>
<1>1. ASSUME NEW u \in Users, Join(u) PROVE Framed
  BY <1>1 DEF Join, node, postgres
<1>2. LookupMiss \/ LookupFill \/ InitDrainsRead \/ InitDrainsStart => Framed
  BY DEF LookupMiss, LookupFill, InitDrainsRead, InitDrainsStart, redis, postgres, history, past
<1>3. ASSUME NEW d \in Ticks, DrainStep(d) PROVE Framed \/ Sign(d)
  BY <1>3 DEF DrainStep, TickStart, Pop, Claim, Lookup, Fill, SignFails, Refund, Audit,
              BulkSoldOut, TickFails, redis, postgres, history, past
<1>4. ASSUME NEW j \in Jtis, Expire(j) PROVE Framed
  BY <1>4 DEF Expire, node, postgres
<1>5. AdminNext => Framed \/ status' = "ENDED"
  BY DEF AdminNext, PausePg, PauseRedis, PauseStop, ResumePg, ResumeRedis, ResumeWarm,
         EndPg, EndRedis, EndStop, AdminFails, UpdateCapacity, redis, postgres, history, past, node
<1>6. UNCHANGED vars => Framed
  BY DEF vars, redis, postgres, history, past, node
<1> QED
  BY <1>1, <1>2, <1>3, <1>4, <1>5, <1>6 DEF Next

LEMMA CounterSign ==
  ASSUME TypeOK, TicketsGenuine, CounterSees, NEW d \in Ticks, Sign(d), status # "ENDED"
  PROVE  CounterSees'
<1> PICK j \in Jtis, parked \in BOOLEAN :
      /\ tick[d].cur \in Users /\ owner[j] = NoUser
      /\ \A i \in Jtis : owner'[i] = IF parked /\ i = j THEN tick[d].cur ELSE owner[i]
      /\ \/ parked /\ UNCHANGED mishaps /\ outstanding' = outstanding + 1
         \/ mishaps' = mishaps + 1 /\ outstanding' \in {outstanding, outstanding + 1}
  BY SignMoves
<1>1. UNCHANGED <<used, returned, dup, req>>
  BY DEF Sign, postgres
<1>2. Unsettled' \subseteq Unsettled \cup {j}
  BY <1>1 DEF Unsettled, Minted
<1>3. Settling' = Settling
  BY <1>1 DEF Settling
<1>4. /\ Cardinality(Unsettled') <= Cardinality(Unsettled \cup {j}) /\ Cardinality(Unsettled') \in Nat
      /\ Cardinality(Unsettled \cup {j}) \in {Cardinality(Unsettled), Cardinality(Unsettled) + 1}
  BY <1>2, CountsFinite, ElementSize, SubsetSize
<1> QED
  BY <1>1, <1>3, <1>4, CountsFinite DEF CounterSees

LEMMA CounterRequest ==
  ASSUME TypeOK, TicketsGenuine, CounterSees, NEW r \in Requests, RequestStep(r), status # "ENDED",
         mishaps' \in Nat, mishaps <= mishaps'
  PROVE  CounterSees'
<1>0. /\ Cardinality(Unsettled) + Cardinality(Settling)
           <= outstanding + Cardinality(used \cap returned) + dup + mishaps
      /\ Cardinality(Unsettled) \in Nat /\ Cardinality(Settling) \in Nat
      /\ Cardinality(used \cap returned) \in Nat
      /\ outstanding \in Nat /\ dup \in Nat /\ mishaps \in Nat
  BY CountsFinite DEF CounterSees
<1> SUFFICES Cardinality(Unsettled') + Cardinality(Settling')
               <= outstanding' + Cardinality((used \cap returned)') + dup' + mishaps'
  BY DEF CounterSees
<1>1. UNCHANGED owner
  BY DEF RequestStep, Handler, VerifyStart, VerifyInsert, VerifyDecr, ReleaseStart, ReleaseMulti,
         ReleaseDecr, ReleaseRestart, ReleaseRow, history, past
<1>2. req[r].pc # "idle" => req[r].jti \in Minted
  BY DEF TicketsGenuine, RequestsGenuine
<1>3. ASSUME UNCHANGED <<used, returned>>
      PROVE  Unsettled' = Unsettled /\ (used \cap returned)' = used \cap returned
  BY <1>1, <1>3 DEF Unsettled, Minted
<1>4. CASE ReleaseRestart(r) \/ ReleaseRow(r) \/ \E j \in Jtis : VerifyStart(r, j) \/ ReleaseStart(r, j)
  <2>1. UNCHANGED <<used, returned, outstanding, dup>>
    BY <1>4 DEF VerifyStart, ReleaseStart, ReleaseRestart, ReleaseRow, redis, postgres, history, past
  <2>2. OthersWait(r) /\ req'[r].pc \notin {"vDecr", "rDecr"}
    BY <1>4, RequestMoves DEF MovesTo, Cut, Answered
  <2> QED
    BY <1>0, <1>3, <2>1, <2>2, SettlingMoves
<1>5. CASE VerifyDecr(r) \/ ReleaseDecr(r)
  <2>1. /\ UNCHANGED <<used, returned, dup>> /\ req[r].pc \in {"vDecr", "rDecr"}
        /\ outstanding' \in Nat /\ outstanding' >= outstanding - 1
    BY <1>0, <1>5 DEF VerifyDecr, ReleaseDecr, DecrFloor0, postgres, past
  <2>2. OthersWait(r) /\ req'[r].pc \notin {"vDecr", "rDecr"}
    BY <1>5, RequestMoves DEF MovesTo, Cut, Answered
  <2> QED
    BY <1>0, <1>3, <2>1, <2>2, SettlingMoves
<1>6. CASE VerifyInsert(r)
  <2>1. UNCHANGED <<returned, outstanding, dup>> /\ used' \in {used, used \cup {req[r].jti}}
    BY <1>6 DEF VerifyInsert, redis
  <2>2. OthersWait(r) /\ req[r].jti \in Minted
    BY <1>2, <1>6, RequestMoves DEF VerifyInsert, MovesTo, Answered
  <2>3. CASE UNCHANGED used
    <3>1. req'[r].pc = "idle" \/ (used' = used \cup {req[r].jti} /\ req[r].jti \notin used)
      BY <1>6, RequestMoves DEF VerifyInsert, Answered, IdleReq, TypeOK, TypeWork
    <3>2. req'[r].pc = "idle"
      BY <2>3, <3>1
    <3> QED
      BY <1>0, <1>3, <2>1, <2>2, <2>3, <3>2, SettlingMoves
  <2>4. CASE used' # used
    <3>1. used' = used \cup {req[r].jti} /\ req[r].jti \notin used
      BY <2>1, <2>4
    <3>2. /\ Cardinality(Unsettled') \in Nat /\ Cardinality((used \cap returned)') \in Nat
          /\ Cardinality(Unsettled') + Cardinality(used \cap returned) + 1
               = Cardinality(Unsettled) + Cardinality((used \cap returned)')
      BY <1>1, <2>1, <2>2, <3>1, Settles
    <3>3. Cardinality(Settling') <= Cardinality(Settling) + 1 /\ Cardinality(Settling') \in Nat
      BY <1>0, <2>2, SettlingMoves
    <3> QED
      BY <1>0, <2>1, <3>2, <3>3
  <2> QED
    BY <2>3, <2>4
<1>7. CASE ReleaseMulti(r)
  <2>1. UNCHANGED <<used, outstanding>> /\ OthersWait(r) /\ req[r].jti \in Minted
    BY <1>2, <1>7, RequestMoves DEF ReleaseMulti, MovesTo, Cut, Answered, postgres
  <2>2. Cardinality(Settling') <= Cardinality(Settling) + 1 /\ Cardinality(Settling') \in Nat
    BY <1>0, <2>1, SettlingMoves
  <2>3. CASE UNCHANGED <<returned, dup>>
    <3>1. req'[r].pc = "idle" \/ (returned' = returned \cup {req[r].jti}
                                  /\ dup' = (IF req[r].jti \in returned THEN dup + 1 ELSE dup))
      BY <1>7 DEF ReleaseMulti, IdleReq, TypeOK, TypeWork
    <3>2. req'[r].pc = "idle"
      BY <1>0, <2>3, <3>1
    <3> QED
      BY <1>0, <1>3, <2>1, <2>3, <3>2, SettlingMoves
  <2>4. CASE /\ returned' = returned \cup {req[r].jti}
             /\ dup' = (IF req[r].jti \in returned THEN dup + 1 ELSE dup)
    <3>1. CASE req[r].jti \in returned
      <4>1. UNCHANGED <<used, returned>> /\ dup' = dup + 1
        BY <2>1, <2>4, <3>1
      <4> QED
        BY <1>0, <1>3, <2>1, <2>2, <4>1
    <3>2. CASE req[r].jti \notin returned
      <4>1. /\ Cardinality(Unsettled') \in Nat /\ Cardinality((used \cap returned)') \in Nat
            /\ Cardinality(Unsettled') + Cardinality(used \cap returned) + 1
                 = Cardinality(Unsettled) + Cardinality((used \cap returned)')
        BY <1>1, <2>1, <2>4, <3>2, Settles
      <4> QED
        BY <1>0, <2>1, <2>2, <2>4, <3>2, <4>1
    <3> QED
      BY <3>1, <3>2
  <2> QED
    BY <1>7, <2>3, <2>4 DEF ReleaseMulti
<1> QED
  BY <1>4, <1>5, <1>6, <1>7 DEF RequestStep, Handler

LEMMA CounterSeesNext ==
  ASSUME TypeOK, TicketsGenuine, AdminAgrees, CounterSees, [Next]_vars
  PROVE  CounterSees'
<1> SUFFICES ASSUME status' # "ENDED" PROVE CounterSees'
  BY DEF CounterSees
<1>1. status # "ENDED" /\ mishaps' \in Nat /\ mishaps <= mishaps'
  BY EndedForGood, MishapsGrow
<1>2. CASE UNCHANGED <<outstanding, owner, used, returned, dup, req>>
  <2>1. Unsettled' = Unsettled /\ Settling' = Settling /\ (used \cap returned)' = used \cap returned
    BY <1>2 DEF Unsettled, Minted, Settling
  <2> QED
    BY <1>1, <1>2, <2>1, CountsFinite DEF CounterSees
<1>3. CASE Crash
  <2>1. /\ UNCHANGED <<outstanding, owner, used, returned, dup>>
        /\ \A r \in Requests : req'[r].pc = "idle"
    BY <1>3 DEF Crash, redis, postgres, past, IdleReq
  <2>2. Unsettled' = Unsettled /\ Settling' = {} /\ (used \cap returned)' = used \cap returned
    BY <2>1 DEF Unsettled, Minted, Settling
  <2> QED
    BY <1>1, <2>1, <2>2, CountsFinite, FS_EmptySet DEF CounterSees
<1> QED
  BY <1>1, <1>2, <1>3, CounterSign, CounterRequest, CounterFramed

LEMMA CounterSeesKept == Spec => []CounterSees
<1>1. Init => CounterSees
  <2> SUFFICES ASSUME Init PROVE CounterSees
    OBVIOUS
  <2>1. Unsettled = {} /\ Settling = {} /\ used \cap returned = {}
    BY DEF Init, Unsettled, Minted, Settling, IdleReq
  <2> QED
    BY <2>1, FS_EmptySet DEF Init, CounterSees
<1>2. TypeOK /\ TicketsGenuine /\ PlacesInv /\ CounterSees /\ [Next]_vars => CounterSees'
  BY CounterSeesNext DEF PlacesInv
<1> QED
  BY <1>1, <1>2, TypeCorrect, PlacesKept, PTL DEF Spec

\* With one drain at a time and a fixed cap, the tickets that wait for their owner, with
\* those a batch is yet to sign, exceed the cap by less than a batch, but for tickets that
\* were both verified and given back, repeated releases and mishaps; whatever fails.
THEOREM GateHolds ==
  ASSUME OneDrain, "capacity" \notin AdminOps
  PROVE  Spec => []GateOvershoot
<1>1. TypeOK /\ CounterOvershoot /\ CounterSees => GateOvershoot
  <2> SUFFICES ASSUME TypeOK, CounterOvershoot, CounterSees, cap # NoCap, status # "ENDED"
               PROVE  Cardinality(Unsettled) + Cardinality(InTicks) + Cardinality(Claimed)
                        < cap + RateLimit + Cardinality(used \cap returned) + dup + mishaps
    BY DEF GateOvershoot
  <2>1. /\ Cardinality(InTicks) \in Nat /\ Cardinality(Claimed) \in Nat
        /\ cap \in Nat /\ RateLimit \in Nat
    BY InTicksFinite, UnitsFinite, FS_CardinalityType, SaleAssumption DEF TypeOK, TypeRedis
  <2> QED
    BY <2>1, CountsFinite DEF CounterOvershoot, CounterSees
<1> QED
  BY <1>1, CounterGated, CounterSeesKept, TypeCorrect, PTL

-----------------------------------------------------------------------------
(* Purchases never exceed the inventory.                                   *)

\* A ticket that is sold has its unit out of stock; one being verified was not given
\* back and nobody gives it back meanwhile.
SoldLive == sold \subseteq Live

VerifiesApart == \A r \in Requests : req[r].pc = "vInsert" =>
  /\ req[r].jti \notin returned
  /\ \A s \in Requests : req[s].pc \in Releasing => req[s].jti # req[r].jti

LEMMA VerifiesApartRequest ==
  ASSUME ClientMay \cap {"overlap", "reuse"} = {}, TypeOK, TicketsGenuine, SoldLive, VerifiesApart,
         NEW r \in Requests, RequestStep(r)
  PROVE  SoldLive' /\ VerifiesApart'
<1> USE DEF SoldLive, VerifiesApart, OthersWait, Releasing
<1>0. UNCHANGED owner /\ Minted' = Minted
  BY DEF RequestStep, Handler, VerifyStart, VerifyInsert, VerifyDecr, ReleaseStart, ReleaseMulti,
         ReleaseDecr, ReleaseRestart, ReleaseRow, history, past, Minted
<1>1. ASSUME NEW j \in Jtis, VerifyStart(r, j) PROVE SoldLive' /\ VerifiesApart'
  <2>1. UNCHANGED <<sold, returned>> /\ j \notin returned
    BY <1>1 DEF VerifyStart, history, past
  <2>2. OthersWait(r) /\ req'[r].pc = "vInsert" /\ req'[r].jti = j
    BY <1>1, RequestMoves
  <2>3. \A s \in Requests : req[s].pc \in Releasing => req[s].jti # j
    BY <1>1 DEF VerifyStart, Calls
  <2> QED
    BY <1>0, <2>1, <2>2, <2>3 DEF Live
<1>2. ASSUME NEW j \in Jtis, ReleaseStart(r, j) PROVE SoldLive' /\ VerifiesApart'
  <2>1. UNCHANGED <<sold, returned>>
    BY <1>2 DEF ReleaseStart, history, past
  <2>2. OthersWait(r) /\ req'[r].pc = "rMulti" /\ req'[r].jti = j
    BY <1>2, RequestMoves
  <2>3. \A s \in Requests : req[s].pc = "vInsert" => req[s].jti # j
    BY <1>2 DEF ReleaseStart, Calls
  <2> QED
    BY <1>0, <2>1, <2>2, <2>3 DEF Live
<1>3. CASE VerifyInsert(r)
  <2>1. /\ req[r].pc = "vInsert" /\ UNCHANGED returned
        /\ sold' = sold \/ sold' = sold \cup {req[r].jti}
    BY <1>3 DEF VerifyInsert
  <2>2. OthersWait(r) /\ req'[r].pc \in {"vDecr", "idle"}
    BY <1>3, RequestMoves DEF MovesTo, Cut, Answered
  <2>3. req[r].jti \in Live
    BY <2>1 DEF Live, TicketsGenuine, RequestsGenuine
  <2> QED
    BY <1>0, <2>1, <2>2, <2>3 DEF Live
<1>4. CASE ReleaseMulti(r)
  <2> DEFINE j == req[r].jti
  <2>1. /\ req[r].pc = "rMulti"
        /\ \/ returned' = returned \cup {j} /\ sold' = sold \ {j}
           \/ UNCHANGED <<sold, returned>>
    BY <1>4 DEF ReleaseMulti
  <2>2. OthersWait(r) /\ req'[r].pc \in {"rDecr", "idle"} /\ (req'[r].pc = "rDecr" => req'[r].jti = j)
    BY <1>4, RequestMoves DEF MovesTo, Cut, Answered
  <2>3. SoldLive'
    BY <1>0, <2>1 DEF Live
  <2>4. VerifiesApart'
    BY <2>1, <2>2
  <2> QED
    BY <2>3, <2>4
<1>5. CASE VerifyDecr(r) \/ ReleaseRow(r)
  <2>1. UNCHANGED <<sold, returned>>
    BY <1>5 DEF VerifyDecr, ReleaseRow, history, past
  <2>2. OthersWait(r) /\ req'[r].pc = "idle"
    BY <1>5, RequestMoves DEF Answered
  <2> QED
    BY <1>0, <2>1, <2>2 DEF Live
<1>6. CASE ReleaseDecr(r) \/ ReleaseRestart(r)
  <2>1. UNCHANGED <<sold, returned>> /\ req[r].pc \in Releasing
    BY <1>6 DEF ReleaseDecr, ReleaseRestart, history, past
  <2>2. /\ OthersWait(r)
        /\ req'[r].pc = "idle" \/ (req'[r].pc \in {"rRestart", "rRow"} /\ req'[r].jti = req[r].jti)
    BY <1>6, RequestMoves DEF MovesTo, Cut, Answered
  <2> QED
    BY <1>0, <2>1, <2>2 DEF Live
<1> QED
  BY <1>1, <1>2, <1>3, <1>4, <1>5, <1>6 DEF RequestStep, Handler

\* No ticket that was signed is ever unsigned.
LEMMA MintedGrows ==
  ASSUME TypeOK, TicketsGenuine, [Next]_vars
  PROVE  Minted \subseteq Minted'
<1>1. ASSUME NEW d \in Ticks, DrainStep(d) PROVE Minted \subseteq Minted'
  <2>1. CASE Sign(d)
    BY <2>1, SignMoves DEF Minted
  <2>2. CASE ~Sign(d)
    BY <1>1, <2>2 DEF DrainStep, TickStart, Pop, Claim, Lookup, Fill, SignFails, Refund, Audit,
              BulkSoldOut, TickFails, history, past, Minted
  <2> QED
    BY <2>1, <2>2
<1>2. ASSUME UNCHANGED owner PROVE Minted \subseteq Minted'
  BY <1>2 DEF Minted
<1>3. ASSUME NEW r \in Requests, ReleaseMulti(r) PROVE UNCHANGED owner
  BY <1>3 DEF ReleaseMulti
<1>4. Crash => UNCHANGED owner
  BY DEF Crash, history, past
<1> QED
  BY <1>1, <1>2, <1>3, <1>4, UnitsFramed

LEMMA VerifiesApartNext ==
  ASSUME ClientMay \cap {"overlap", "reuse"} = {}, TypeOK, TicketsGenuine, SoldLive, VerifiesApart,
         [Next]_vars
  PROVE  SoldLive' /\ VerifiesApart'
<1>1. CASE UNCHANGED <<req, released, returned, sold, dup>>
  BY <1>1, MintedGrows DEF SoldLive, VerifiesApart, Live
<1>2. CASE Crash
  BY <1>2, MintedGrows DEF Crash, SoldLive, VerifiesApart, Live, IdleReq, Releasing, history, past
<1> QED
  BY <1>1, <1>2, RequestsFramed, VerifiesApartRequest

LEMMA VerifiesApartInit == Init => SoldLive /\ VerifiesApart
  BY DEF Init, SoldLive, VerifiesApart, IdleReq

\* The purchases that stand exceed the inventory by no more than the units returned twice.
SoldBounded == Cardinality(sold) <= StockCount + dup

LEMMA SoldCounted ==
  ASSUME TypeOK, UnitsExplained, SoldLive
  PROVE  SoldBounded
<1>1. Cardinality(sold) <= Cardinality(Live) /\ Cardinality(sold) \in Nat
  BY UnitsFinite, SubsetSize, FS_Subset, FS_CardinalityType DEF SoldLive
<1>2. /\ Cardinality(Claimed) \in Nat /\ Cardinality(Live) \in Nat
      /\ stock \in Int /\ StockCount \in Nat /\ dup \in Nat
  BY UnitsFinite, ElementSize, SaleAssumption DEF TypeOK, TypeRedis, TypeHistory
<1> QED
  BY <1>1, <1>2 DEF UnitsExplained, SoldBounded

\* When callers do not verify a ticket they have given back, nor release one from two
\* sides, purchases stay within the inventory plus what was returned twice,
\* whatever crashes or fails.
THEOREM SoldKeptBounded ==
  ASSUME ClientMay \cap {"overlap", "reuse"} = {}
  PROVE  Spec => []SoldBounded
<1> DEFINE Inv == TypeOK /\ TicketsGenuine /\ UnitsExplained /\ SoldLive /\ VerifiesApart
<1>1. Init => Inv
  BY TypeInit, GenuineInit, StockInit, VerifiesApartInit
<1>2. Inv /\ [Next]_vars => Inv'
  BY TypeNext, GenuineNext, StockNext, VerifiesApartNext
<1>3. Inv => SoldBounded
  BY SoldCounted
<1> QED
  BY <1>1, <1>2, <1>3, PTL DEF Spec

\* Without lost calls and crashes the purchases that stand never exceed the inventory.
THEOREM NoOverselling ==
  ASSUME ClientMay \cap {"overlap", "reuse"} = {}, NoLoss
  PROVE  Spec => []SoldWithinInventory
<1>1. SoldBounded /\ ReturnedOnce => SoldWithinInventory
  BY SaleAssumption DEF SoldBounded, ReturnedOnce, SoldWithinInventory
<1>2. Spec => []SoldBounded
  BY SoldKeptBounded
<1>3. Spec => []ReturnedOnce
  BY OneReturn
<1> QED
  BY <1>1, <1>2, <1>3, PTL

-----------------------------------------------------------------------------
(* The door. Everyone who waits, in the queue or in a batch, whose unit is *)
(* being claimed or who holds a ticket was admitted and not counted out by *)
(* a release, but for units returned twice.                                *)

DoorCounts ==
  /\ Cardinality(Members(queue)) + Cardinality(Batches) + Cardinality(Claimed) + Cardinality(Live)
       <= admitted + dup
  /\ admitted <= QueueCap

LEMMA BatchesFinite == IsFiniteSet(Batches) /\ Cardinality(Batches) \in Nat
<1>1. Batches \subseteq Ticks \X Users
  BY DEF Batches
<1>2. IsFiniteSet(Ticks \X Users)
  BY SaleAssumption, FS_Product
<1> QED
  BY <1>1, <1>2, FS_Subset, FS_CardinalityType

\* What the count relies on: sizes are numbers.
LEMMA DoorNumbers ==
  ASSUME TypeOK
  PROVE  /\ Cardinality(Members(queue)) \in Nat /\ Cardinality(Batches) \in Nat
         /\ Cardinality(Claimed) \in Nat /\ Cardinality(Live) \in Nat
         /\ admitted \in Int /\ dup \in Nat /\ QueueCap \in Nat
  BY MembersFinite, BatchesFinite, UnitsFinite, ElementSize, SaleAssumption
     DEF TypeOK, TypeRedis, TypeHistory

\* When one tick moves, the users in the batches of the others stay.
LEMMA BatchesMove ==
  ASSUME NEW d \in Ticks, OthersStay(d)
  PROVE  Cardinality(Batches') + Cardinality(Members(tick[d].batch))
           = Cardinality(Batches) + Cardinality(Members(tick'[d].batch))
<1> DEFINE Rest == Batches \ ({d} \X Users)
           B == {d} \X Members(tick[d].batch)
           C == {d} \X Members(tick'[d].batch)
<1>1. Batches = Rest \cup B /\ Rest \cap B = {}
  BY DEF Batches, Members
<1>2. Batches' = Rest \cup C /\ Rest \cap C = {}
  BY DEF Batches, Members, OthersStay
<1>3. ASSUME NEW q PROVE /\ IsFiniteSet({d} \X Members(q))
                         /\ Cardinality({d} \X Members(q)) = Cardinality(Members(q))
  <2>1. IsFiniteSet({d}) /\ Cardinality({d}) = 1
    BY FS_Singleton
  <2>2. IsFiniteSet(Members(q)) /\ Cardinality(Members(q)) \in Nat
    BY MembersFinite
  <2>3. /\ IsFiniteSet({d} \X Members(q))
        /\ Cardinality({d} \X Members(q)) = Cardinality({d}) * Cardinality(Members(q))
    BY <2>1, <2>2, FS_Product
  <2> QED
    BY <2>1, <2>2, <2>3
<1>4. IsFiniteSet(Rest) /\ Cardinality(Rest) \in Nat
  BY BatchesFinite, FS_Subset, FS_CardinalityType
<1>5. /\ IsFiniteSet(B) /\ Cardinality(B) = Cardinality(Members(tick[d].batch))
      /\ IsFiniteSet(C) /\ Cardinality(C) = Cardinality(Members(tick'[d].batch))
      /\ Cardinality(Members(tick[d].batch)) \in Nat /\ Cardinality(Members(tick'[d].batch)) \in Nat
  BY <1>3, MembersFinite
<1> HIDE DEF Rest, B, C
<1>6. /\ Cardinality(Rest \cup B) = Cardinality(Rest) + Cardinality(B)
      /\ Cardinality(Rest \cup C) = Cardinality(Rest) + Cardinality(C)
  <2>1. /\ Cardinality(Rest \cup B) = Cardinality(Rest) + Cardinality(B) - Cardinality({})
        /\ Cardinality(Rest \cup C) = Cardinality(Rest) + Cardinality(C) - Cardinality({})
    BY <1>1, <1>2, <1>4, <1>5, FS_Union
  <2>2. Cardinality({}) = 0
    BY FS_EmptySet
  <2> QED
    BY <1>4, <1>5, <2>1, <2>2
<1>7. Cardinality(Batches) = Cardinality(Rest) + Cardinality(Members(tick[d].batch))
  <2>1. Cardinality(Batches) = Cardinality(Rest \cup B)
    BY Zenon, <1>1
  <2> QED
    BY <1>4, <1>5, <1>6, <2>1
<1>8. Cardinality(Batches') = Cardinality(Rest) + Cardinality(Members(tick'[d].batch))
  <2>1. Cardinality(Batches') = Cardinality(Rest \cup C)
    BY Zenon, <1>2
  <2> QED
    BY <1>4, <1>5, <1>6, <2>1
<1> QED
  BY <1>4, <1>5, <1>7, <1>8

\* Those whom a tick and the queue hold.
Held(d) == Cardinality(Members(queue)) + Cardinality(Members(tick[d].batch))

\* A step of a drain brings nobody in, and a claim takes one user out.
LEMMA DrainHolds ==
  ASSUME TypeOK, TicketsGenuine, BatchesIdle, NEW d \in Ticks, DrainStep(d)
  PROVE  /\ OthersStay(d)
         /\ Held(d)' <= Held(d)
         /\ Claim(d) => Held(d)' <= Held(d) - 1
<1> USE DEF OthersStay, Held
<1>0. /\ TypeWork /\ queue \in [Users -> Nat] /\ tick[d].batch \in [Users -> Nat]
  BY DEF TypeOK, TypeRedis, TypeWork, Tick
<1>nat. /\ Cardinality(Members(queue)) \in Nat /\ Cardinality(Members(tick[d].batch)) \in Nat
        /\ Cardinality(Members(queue)') \in Nat /\ Cardinality(Members(tick[d].batch)') \in Nat
        /\ IsFiniteSet(Members(queue)) /\ IsFiniteSet(Members(tick[d].batch))
        /\ IsFiniteSet(Members(queue)') /\ IsFiniteSet(Members(tick[d].batch)')
  <2>1. Members(queue)' = Members(queue') /\ Members(tick[d].batch)' = Members(tick'[d].batch)
    BY DEF Members
  <2> QED
    BY <2>1, MembersFinite
<1>1. ASSUME UNCHANGED queue, Members(tick[d].batch)' \subseteq Members(tick[d].batch)
      PROVE  Held(d)' <= Held(d)
  <2>1. Members(queue)' = Members(queue)
    BY <1>1 DEF Members
  <2>2. Cardinality(Members(tick[d].batch)') <= Cardinality(Members(tick[d].batch))
    BY <1>1, <1>nat, FS_Subset
  <2> QED
    BY <1>nat, <2>1, <2>2
<1>2. CASE TickStart(d) \/ Lookup(d) \/ Fill(d) \/ SignFails(d)
  <2>1. UNCHANGED queue /\ ~Claim(d)
    BY <1>2 DEF TickStart, Lookup, Fill, SignFails, Claim, redis
  <2>2. \E pc : OnlyPc(d, pc)
    BY <1>0, <1>2, PcMoves
  <2>3. OthersStay(d) /\ Members(tick[d].batch)' \subseteq Members(tick[d].batch)
    BY <2>2 DEF OnlyPc, Members
  <2> QED
    BY <1>1, <2>1, <2>3
<1>3. CASE TickFails(d) \/ (BulkSoldOut(d) /\ queue' = Nobody)
  <2>1. Ended(d) /\ Members(tick[d].batch)' = {} /\ (UNCHANGED queue \/ queue' = Nobody)
    BY <1>0, <1>3, PcMoves, IdleTickFields DEF Ended, Members, TickFails, redis
  <2>2. Members(queue)' \subseteq Members(queue)
    BY <2>1 DEF Members, Nobody
  <2>3. Cardinality(Members(queue)') <= Cardinality(Members(queue)) /\ Cardinality({}) = 0
    BY <1>nat, <2>2, FS_Subset, FS_EmptySet
  <2>4. tick[d].pc = "claim" /\ tick'[d].pc = "idle" => ~Claim(d)
    BY ClaimMoves
  <2>5. Claim(d) => tick[d].pc = "claim"
    BY DEF Claim
  <2> QED
    BY <1>nat, <2>1, <2>3, <2>4, <2>5, IdleTickFields DEF Ended
<1>4. CASE Pop(d)
  <2>1. PICK S \in SUBSET Members(queue) :
          /\ OthersStay(d)
          /\ \A u \in Users : tick'[d].batch[u] = IF u \in S THEN queue[u] ELSE 0
          /\ \A u \in Users : queue'[u] = IF u \in S THEN 0 ELSE queue[u]
    BY <1>4, PopMoves
  <2>2. Members(queue)' = Members(queue) \ S /\ Members(tick[d].batch)' = S
    BY <1>0, <2>1 DEF Members
  <2>3. Members(tick[d].batch) = {} /\ ~Claim(d)
    BY <1>4 DEF Pop, Claim, BatchesIdle, InBatch, Members
  <2>4. Cardinality(Members(queue) \ S) = Cardinality(Members(queue)) - Cardinality(S)
    <3>1. /\ Cardinality(Members(queue) \ S) = Cardinality(Members(queue)) - Cardinality(Members(queue) \cap S)
          /\ Members(queue) \cap S = S
      BY <1>nat, FS_Difference
    <3> QED
      BY <3>1
  <2>5. Cardinality(S) \in Nat /\ Cardinality({}) = 0
    BY <1>nat, FS_Subset, FS_CardinalityType, FS_EmptySet
  <2> QED
    BY <1>nat, <2>1, <2>2, <2>3, <2>4, <2>5
<1>5. CASE Claim(d)
  <2>1. PICK u \in Users :
          /\ IsNext(d, u) /\ OthersStay(d)
          /\ \A v \in Users : tick'[d].batch[v] = IF v = u THEN 0 ELSE tick[d].batch[v]
    BY <1>5, ClaimMoves
  <2>2. Members(tick[d].batch)' = Members(tick[d].batch) \ {u} /\ u \in Members(tick[d].batch)
    BY <1>0, <2>1 DEF Members, IsNext
  <2>3. Cardinality(Members(tick[d].batch) \ {u}) = Cardinality(Members(tick[d].batch)) - 1
    BY <1>nat, <2>2, ElementSize
  <2>4. Members(queue)' = Members(queue)
    BY <1>5 DEF Claim, Members
  <2> QED
    BY <1>nat, <2>1, <2>2, <2>3, <2>4
<1>6. CASE Sign(d)
  <2>1. UNCHANGED queue /\ ~Claim(d)
    BY <1>6 DEF Sign, Claim
  <2>2. OthersStay(d) /\ (tick'[d].batch = tick[d].batch \/ tick'[d] = IdleTick)
    BY <1>6, SignMoves
  <2>3. Members(tick[d].batch)' \subseteq Members(tick[d].batch)
    BY <2>2, IdleTickFields DEF Members
  <2> QED
    BY <1>1, <2>1, <2>2, <2>3
<1>7. CASE Refund(d) \/ Audit(d)
  <2>1. UNCHANGED queue /\ NextUser(d) /\ ~Claim(d)
    BY <1>7 DEF Refund, Audit, Claim, redis
  <2>2. OthersStay(d) /\ Members(tick[d].batch)' \subseteq Members(tick[d].batch)
    BY <2>1, NextUserMoves DEF Members
  <2> QED
    BY <1>1, <2>1, <2>2
<1>8. CASE BulkSoldOut(d) /\ queue' = ReAdd(tick[d].batch, queue)
  <2>0. Ended(d) /\ ~Claim(d)
    BY <1>0, <1>8, PcMoves DEF BulkSoldOut, Claim
  <2>1. OthersStay(d) /\ Members(tick[d].batch)' = {}
    BY <2>0, IdleTickFields DEF Ended, Members
  <2>2. Members(queue)' \subseteq Members(queue) \cup Members(tick[d].batch)
    BY <1>0, <1>8 DEF Members, ReAdd
  <2>3. /\ IsFiniteSet(Members(queue) \cup Members(tick[d].batch))
        /\ Cardinality(Members(queue) \cup Members(tick[d].batch)) =
             Cardinality(Members(queue)) + Cardinality(Members(tick[d].batch))
               - Cardinality(Members(queue) \cap Members(tick[d].batch))
    BY <1>nat, FS_Union
  <2>4. /\ Cardinality(Members(queue)') <= Cardinality(Members(queue) \cup Members(tick[d].batch))
        /\ Cardinality(Members(queue) \cap Members(tick[d].batch)) \in Nat
        /\ Cardinality({}) = 0
    BY <1>nat, <2>2, <2>3, FS_Subset, FS_Intersection, FS_CardinalityType, FS_EmptySet
  <2>5. Cardinality(Members(tick[d].batch)') = 0
    BY Zenon, <2>1, <2>4
  <2> QED
    BY <1>nat, <2>0, <2>1, <2>3, <2>4, <2>5
<1> QED
  BY <1>2, <1>3, <1>4, <1>5, <1>6, <1>7, <1>8 DEF DrainStep, BulkSoldOut

\* Nobody comes to wait, a tick at most drops the unit it holds: fewer are counted.
LEMMA DoorFewer ==
  ASSUME TypeOK, DoorCounts, Cardinality(Members(queue)') \in Nat, Cardinality(Batches') \in Nat,
         Cardinality(Members(queue)') + Cardinality(Batches') <= Cardinality(Members(queue)) + Cardinality(Batches),
         Claimed' \subseteq Claimed, UNCHANGED <<owner, returned, dup, admitted>>
  PROVE  DoorCounts'
<1>1. Cardinality(Claimed') <= Cardinality(Claimed) /\ Cardinality(Claimed') \in Nat
  BY UnitsFinite, SubsetSize
<1> QED
  BY <1>1, DoorNumbers, LiveKept DEF DoorCounts

\* A step of a drain: a claim takes a unit for the user it takes out of the batch, a
\* signature makes a ticket of a claimed unit, and no other step needs a place.
LEMMA DoorDrain ==
  ASSUME TypeOK, TicketsGenuine, BatchesIdle, DoorCounts, NEW d \in Ticks, DrainStep(d)
  PROVE  DoorCounts'
<1>0. /\ TypeWork /\ OthersStay(d)
      /\ Held(d)' <= Held(d) /\ (Claim(d) => Held(d)' <= Held(d) - 1)
  BY DrainHolds DEF TypeOK
<1>1. /\ Cardinality(Batches') + Cardinality(Members(tick[d].batch))
           = Cardinality(Batches) + Cardinality(Members(tick'[d].batch))
      /\ Cardinality(Members(tick[d].batch)) \in Nat /\ Cardinality(Members(tick'[d].batch)) \in Nat
      /\ Cardinality(Members(queue')) \in Nat /\ Cardinality(Batches') \in Nat
  <2>1. IsFiniteSet(Batches') /\ Cardinality(Batches') \in Nat
    <3>1. Batches' \subseteq Ticks \X Users /\ IsFiniteSet(Ticks \X Users)
      BY SaleAssumption, FS_Product DEF Batches
    <3> QED
      BY <3>1, FS_Subset, FS_CardinalityType
  <2> QED
    BY <1>0, <2>1, BatchesMove, MembersFinite
<1>2. Members(queue)' = Members(queue') /\ Members(tick[d].batch)' = Members(tick'[d].batch)
  BY DEF Members
<1>3. /\ Cardinality(Members(queue)') + Cardinality(Batches')
           <= Cardinality(Members(queue)) + Cardinality(Batches)
      /\ Claim(d) => Cardinality(Members(queue)') + Cardinality(Batches')
           <= Cardinality(Members(queue)) + Cardinality(Batches) - 1
  <2>1. /\ Cardinality(Members(queue')) + Cardinality(Members(tick'[d].batch))
             <= Cardinality(Members(queue)) + Cardinality(Members(tick[d].batch))
        /\ Claim(d) => Cardinality(Members(queue')) + Cardinality(Members(tick'[d].batch))
             <= Cardinality(Members(queue)) + Cardinality(Members(tick[d].batch)) - 1
    <3>1. Held(d)' = Cardinality(Members(queue')) + Cardinality(Members(tick'[d].batch))
      BY DEF Held, Members
    <3>2. Held(d) = Cardinality(Members(queue)) + Cardinality(Members(tick[d].batch))
      BY DEF Held
    <3> QED
      BY <1>0, <1>1, <3>1, <3>2, DoorNumbers
  <2>2. Cardinality(Members(queue)') = Cardinality(Members(queue'))
    BY Zenon, <1>2
  <2> QED
    BY <1>1, <2>1, <2>2, DoorNumbers
<1>4. CASE Claim(d)
  <2>1. UNCHANGED <<owner, returned, dup, admitted>> /\ d \notin Claimed
    BY <1>4 DEF Claim, Claimed, history, past
  <2>2. Claimed' = Claimed \cup {d} \/ Claimed' = Claimed \ {d}
    BY <1>0, ClaimedMoves DEF OthersStay
  <2>3. Cardinality(Claimed') <= Cardinality(Claimed) + 1 /\ Cardinality(Claimed') \in Nat
    <3>1. /\ Cardinality(Claimed \cup {d}) = Cardinality(Claimed) + 1
          /\ Claimed \ {d} = Claimed /\ Cardinality(Claimed) \in Nat
      BY <2>1, DoorNumbers, UnitsFinite, ElementSize
    <3>2. Cardinality(Claimed') = Cardinality(Claimed \cup {d}) \/ Cardinality(Claimed') = Cardinality(Claimed)
      BY Zenon, <2>2, <3>1
    <3> QED
      BY <3>1, <3>2
  <2> QED
    BY <1>1, <1>2, <1>3, <1>4, <2>1, <2>3, DoorNumbers, LiveKept DEF DoorCounts
<1>5. CASE Sign(d)
  <2>1. UNCHANGED <<returned, dup, admitted>> /\ d \in Claimed
    BY <1>5 DEF Sign, Claimed
  <2>2. PICK j \in Jtis, parked \in BOOLEAN :
          /\ \A i \in Jtis : owner'[i] = IF parked /\ i = j THEN tick[d].cur ELSE owner[i]
          /\ tick'[d].pc \notin HoldsUnit
    BY <1>5, SignMoves, IdleTickFields DEF HoldsUnit
  <2>3. Claimed' = Claimed \ {d} /\ Cardinality(Claimed \ {d}) = Cardinality(Claimed) - 1
    BY <1>0, <2>1, <2>2, ClaimedMoves, UnitsFinite, ElementSize DEF OthersStay
  <2>4. Live' \subseteq Live \cup {j}
    BY <2>1, <2>2 DEF Live, Minted
  <2>5. /\ Cardinality(Live') <= Cardinality(Live \cup {j}) /\ Cardinality(Live') \in Nat
        /\ Cardinality(Live \cup {j}) \in {Cardinality(Live), Cardinality(Live) + 1}
    BY <2>4, UnitsFinite, ElementSize, SubsetSize
  <2> QED
    BY <1>1, <1>2, <1>3, <2>1, <2>3, <2>5, DoorNumbers DEF DoorCounts
<1>6. CASE ~Claim(d) /\ ~Sign(d)
  <2>1. UNCHANGED <<owner, returned, dup, admitted>>
    BY <1>6 DEF DrainStep, TickStart, Pop, Lookup, Fill, SignFails, Refund, Audit,
                BulkSoldOut, TickFails, redis, history, past
  <2>2. tick'[d].pc \in HoldsUnit => tick[d].pc \in HoldsUnit
    BY <1>6, DrainWork DEF WorkFewer
  <2>3. Claimed' \subseteq Claimed
    BY <1>0, <2>2 DEF Claimed, OthersStay, HoldsUnit
  <2> QED
    BY <1>1, <1>2, <1>3, <2>1, <2>3, DoorFewer
<1> QED
  BY <1>4, <1>5, <1>6

\* A release counts one user out: the holder of the ticket, or nobody if it was returned before.
LEMMA DoorRelease ==
  ASSUME TypeOK, TicketsGenuine, DoorCounts, NEW r \in Requests, ReleaseMulti(r)
  PROVE  DoorCounts'
<1> DEFINE j == req[r].jti
<1>1. /\ UNCHANGED <<owner, tick, queue>>
      /\ \/ UNCHANGED <<admitted, returned, dup>>
         \/ /\ admitted' = admitted - 1 /\ returned' = returned \cup {j}
            /\ dup' = IF j \in returned THEN dup + 1 ELSE dup
  BY DEF ReleaseMulti
<1>2. Members(queue)' = Members(queue) /\ Batches' = Batches /\ Claimed' = Claimed
  BY <1>1 DEF Members, Batches, Claimed
<1>3. j \in Minted
  BY DEF ReleaseMulti, TicketsGenuine, RequestsGenuine
<1>4. CASE UNCHANGED <<admitted, returned, dup>>
  BY <1>1, <1>2, <1>4, DoorNumbers, DoorFewer
<1>5. CASE /\ admitted' = admitted - 1 /\ returned' = returned \cup {j}
           /\ dup' = IF j \in returned THEN dup + 1 ELSE dup
  <2>1. Live' = Live \ {j} /\ (j \in Live <=> j \notin returned)
    BY <1>1, <1>3, <1>5 DEF Live, Minted
  <2>2. Cardinality(Live \ {j}) = IF j \in Live THEN Cardinality(Live) - 1 ELSE Cardinality(Live)
    BY UnitsFinite, ElementSize
  <2> HIDE DEF j
  <2>3. CASE j \in returned
    BY <1>2, <1>5, <2>1, <2>2, <2>3, DoorNumbers DEF DoorCounts
  <2>4. CASE j \notin returned
    BY <1>2, <1>5, <2>1, <2>2, <2>4, DoorNumbers DEF DoorCounts
  <2> QED
    BY <2>3, <2>4
<1> QED
  BY <1>1, <1>4, <1>5

\* A join counts the user in.
LEMMA DoorJoin ==
  ASSUME TypeOK, DoorCounts, NEW u \in Users, Join(u)
  PROVE  DoorCounts'
<1>1. /\ UNCHANGED <<tick, owner, returned, dup>> /\ ~InQueue(u)
      /\ admitted < QueueCap /\ admitted' = admitted + 1
      /\ \A v \in Users \ {u} : queue'[v] = queue[v]
  BY JoinMoves DEF Join
<1>2. Members(queue') \subseteq Members(queue) \cup {u} /\ Members(queue)' = Members(queue')
  BY <1>1 DEF Members
<1>3. /\ Cardinality(Members(queue) \cup {u}) \in {Cardinality(Members(queue)), Cardinality(Members(queue)) + 1}
      /\ IsFiniteSet(Members(queue) \cup {u})
  BY MembersFinite, ElementSize
<1>4. /\ Cardinality(Members(queue)') <= Cardinality(Members(queue)) + 1
      /\ Cardinality(Members(queue)') \in Nat
  BY <1>2, <1>3, SubsetSize, DoorNumbers
<1>5. Claimed' = Claimed /\ Live' = Live /\ Batches' = Batches
  BY <1>1, LiveKept DEF Claimed, Batches
<1> QED
  BY <1>1, <1>4, <1>5, DoorNumbers DEF DoorCounts

\* Who opens or closes the door.
LEMMA DoorFramed ==
  ASSUME [Next]_vars
  PROVE  \/ \E u \in Users : Join(u)
         \/ \E d \in Ticks : DrainStep(d)
         \/ \E r \in Requests : ReleaseMulti(r)
         \/ UNCHANGED <<admitted, owner, returned, dup>>
<1> DEFINE Framed == UNCHANGED <<admitted, owner, returned, dup>>
<1>1. LookupMiss \/ LookupFill \/ InitDrainsRead \/ InitDrainsStart \/ Crash => Framed
  BY DEF LookupMiss, LookupFill, InitDrainsRead, InitDrainsStart, Crash, redis, history, past
<1>2. ASSUME NEW r \in Requests, RequestStep(r) PROVE Framed \/ ReleaseMulti(r)
  BY <1>2 DEF RequestStep, Handler, VerifyStart, VerifyInsert, VerifyDecr, ReleaseStart,
              ReleaseDecr, ReleaseRestart, ReleaseRow, redis, history, past
<1>3. ASSUME NEW j \in Jtis, Expire(j) PROVE Framed
  BY <1>3 DEF Expire
<1>4. AdminNext => Framed
  BY DEF AdminNext, PausePg, PauseRedis, PauseStop, ResumePg, ResumeRedis, ResumeWarm,
         EndPg, EndRedis, EndStop, AdminFails, UpdateCapacity, redis, history, past
<1>5. UNCHANGED vars => Framed
  BY DEF vars, redis, history, past
<1> QED
  BY <1>1, <1>2, <1>3, <1>4, <1>5 DEF Next

LEMMA DoorNext ==
  ASSUME TypeOK, TicketsGenuine, BatchesIdle, DoorCounts, [Next]_vars
  PROVE  DoorCounts'
<1>1. CASE UNCHANGED <<admitted, owner, returned, dup>> /\ \A d \in Ticks : ~DrainStep(d)
  <2>1. \A u \in Users : ~Join(u)
    BY <1>1 DEF Join, TypeOK, TypeRedis
  <2>2. /\ Members(queue') \subseteq Members(queue) /\ Batches' \subseteq Batches
        /\ Claimed' \subseteq Claimed
    <3>1. CASE queue' = Nobody /\ UNCHANGED tick
      BY <3>1 DEF Nobody, Members, Batches, Claimed
    <3>2. CASE Crash
      BY <3>2, IdleTickFields DEF Crash, Members, Batches, Claimed, redis
    <3>3. CASE UNCHANGED <<queue, tick>>
      BY <3>3 DEF Members, Batches, Claimed
    <3> QED
      BY <1>1, <2>1, <3>1, <3>2, <3>3, PlacesFramed
  <2>3. Members(queue)' = Members(queue')
    BY DEF Members
  <2>4. /\ Cardinality(Members(queue)') <= Cardinality(Members(queue))
        /\ Cardinality(Members(queue)') \in Nat
    BY <2>2, <2>3, MembersFinite, SubsetSize
  <2>5. Cardinality(Batches') <= Cardinality(Batches) /\ Cardinality(Batches') \in Nat
    BY <2>2, BatchesFinite, SubsetSize
  <2> QED
    BY <1>1, <2>2, <2>4, <2>5, DoorNumbers, DoorFewer
<1> QED
  BY <1>1, DoorFramed, DoorJoin, DoorDrain, DoorRelease

LEMMA DoorInit == Init => DoorCounts
<1> SUFFICES ASSUME Init PROVE DoorCounts
  OBVIOUS
<1>1. Members(queue) = {} /\ Batches = {} /\ Claimed = {} /\ Live = {}
  BY IdleTickFields DEF Init, Members, Batches, Claimed, Live, Minted, Nobody
<1> QED
  BY <1>1, FS_EmptySet, SaleAssumption DEF Init, DoorCounts

\* The places the door gives never exceed queueCap by more than the units returned twice.
DoorBounded ==
  Cardinality(Members(queue)) + Cardinality(Batches) + Cardinality(Claimed) + Cardinality(Live)
    <= QueueCap + dup

\* The door gives no more places than queueCap and the units returned twice, whatever
\* crashes, fails or overlaps, and whoever joins again while a drain holds them.
THEOREM DoorKeptBounded == Spec => []DoorBounded
<1> DEFINE Inv == TypeOK /\ TicketsGenuine /\ BatchesIdle /\ DoorCounts
<1>1. Init => Inv
  BY TypeInit, GenuineInit, BatchesIdleInit, DoorInit
<1>2. Inv /\ [Next]_vars => Inv'
  BY TypeNext, GenuineNext, BatchesIdleNext, DoorNext
<1>3. Inv => DoorBounded
  BY DoorNumbers DEF DoorBounded, DoorCounts
<1> HIDE DEF Inv
<1> QED
  BY <1>1, <1>2, <1>3, PTL DEF Spec

\* The door gives no more places than queueCap, when releases of a ticket do not
\* overlap and no call or process is lost in the middle of one.
THEOREM DoorKept ==
  ASSUME "overlap" \notin ClientMay, NoLoss
  PROVE  Spec => []DoorHolds
<1>1. DoorBounded /\ ReturnedOnce => DoorHolds
  BY SaleAssumption DEF DoorBounded, ReturnedOnce, DoorHolds
<1>2. Spec => []DoorBounded
  BY DoorKeptBounded
<1>3. Spec => []ReturnedOnce
  BY OneReturn
<1> QED
  BY <1>1, <1>2, <1>3, PTL

-----------------------------------------------------------------------------
(* The event is a sale of its inventory: SaleQueue implements TicketSale.  *)

\* What is known of the requests, for callers and failures of any kind.
CallersInv == ClientMay \cap {"overlap", "reuse"} = {} => SoldLive /\ VerifiesApart

RepeatsAllowed == "overlap" \notin ClientMay /\ NoLoss => ReturnedOnce

SaleInv == TypeOK /\ TicketsGenuine /\ UnitsExplained /\ CallersInv

LEMMA SaleInvInit == Init => SaleInv
  BY TypeInit, GenuineInit, StockInit, VerifiesApartInit DEF SaleInv, CallersInv

LEMMA SaleInvNext == SaleInv /\ [Next]_vars => SaleInv'
<1> SUFFICES ASSUME SaleInv, [Next]_vars PROVE SaleInv'
  OBVIOUS
<1>1. TypeOK' /\ TicketsGenuine' /\ UnitsExplained'
  BY TypeNext, GenuineNext, StockNext DEF SaleInv
<1>2. ASSUME ClientMay \cap {"overlap", "reuse"} = {} PROVE SoldLive' /\ VerifiesApart'
  BY <1>2, VerifiesApartNext DEF SaleInv, CallersInv
<1> QED
  BY <1>1, <1>2 DEF SaleInv, CallersInv

LEMMA RepeatsKnown == Spec => []RepeatsAllowed
<1>1. CASE "overlap" \notin ClientMay /\ NoLoss
  <2>1. Spec => []ReturnedOnce
    BY <1>1, OneReturn
  <2>2. ReturnedOnce => RepeatsAllowed
    BY DEF RepeatsAllowed
  <2> QED
    BY <2>1, <2>2, PTL
<1>2. CASE ~("overlap" \notin ClientMay /\ NoLoss)
  <2>1. RepeatsAllowed
    BY <1>2 DEF RepeatsAllowed
  <2> QED
    BY <2>1, PTL
<1> QED
  BY <1>1, <1>2

LEMMA FreeNumbers ==
  ASSUME TypeOK, UnitsExplained
  PROVE  stock \in Nat /\ Cardinality(Claimed) \in Nat /\ FreeUnits \in Nat
<1>1. stock \in Nat
  BY DEF TypeOK, TypeRedis, UnitsExplained
<1>2. Cardinality(Claimed) \in Nat
  BY UnitsFinite, ElementSize
<1> QED
  BY <1>1, <1>2 DEF FreeUnits

\* A ticket stays where it is.
LEMMA PlaceStays ==
  ASSUME NEW i, owner'[i] = owner[i], i \in sold' <=> i \in sold, i \in returned' <=> i \in returned
  PROVE  Place(i)' = Place(i)
  BY DEF Place

\* No unit moves.
LEMMA UnitsStay ==
  ASSUME FreeUnits' = FreeUnits, UNCHANGED <<owner, sold, returned>>
  PROVE  [Units!Next]_(Units!sale)
  BY DEF Units!sale, Places, Place

\* Units in the hands of a tick are lost with it.
LEMMA UnitsVanish ==
  ASSUME Faults \cap {"io", "crash"} # {}, FreeUnits' \in 0..FreeUnits, UNCHANGED <<owner, sold, returned>>
  PROVE  [Units!Next]_(Units!sale)
<1>1. Places' = Places
  BY DEF Places, Place
<1> QED
  BY <1>1 DEF Units!Next, Units!Lose

\* One ticket comes to another place.
LEMMA TicketMoves ==
  ASSUME NEW j \in Jtis, NEW to, Place(j)' = to,
         \A i \in Jtis \ {j} :
           /\ owner'[i] = owner[i]
           /\ i \in sold' <=> i \in sold
           /\ i \in returned' <=> i \in returned
  PROVE  Places' = [Places EXCEPT ![j] = to]
<1>1. ASSUME NEW i \in Jtis \ {j} PROVE Places'[i] = Places[i]
  <2>1. Place(i)' = Place(i)
    BY PlaceStays
  <2> QED
    BY <2>1 DEF Places
<1>2. Places'[j] = to
  BY DEF Places
<1>3. Places = [i \in Jtis |-> Places[i]] /\ Places' = [i \in Jtis |-> Places'[i]]
  BY DEF Places
<1> QED
  BY <1>1, <1>2, <1>3

\* A step of a drain that signs nothing moves a unit between stock and the tick, or loses one.
LEMMA FreeDrain ==
  ASSUME TypeOK, TicketsGenuine, UnitsExplained, NEW d \in Ticks, DrainStep(d), ~Sign(d)
  PROVE  /\ UNCHANGED <<owner, sold, returned>>
         /\ FreeUnits' = FreeUnits \/ ("io" \in Faults /\ FreeUnits' \in 0..FreeUnits)
<1> USE DEF OthersStay
<1>0. UNCHANGED <<owner, sold, returned>>
  <2>1. Refund(d) => UNCHANGED <<owner, sold, returned>>
    BY Zenon DEF Refund, history, past
  <2>2. Claim(d) => UNCHANGED <<owner, sold, returned>>
    BY Zenon DEF Claim, history, past
  <2>3. Pop(d) \/ BulkSoldOut(d) \/ TickFails(d) => UNCHANGED <<owner, sold, returned>>
    BY Zenon DEF Pop, BulkSoldOut, TickFails, history, past
  <2>4. TickStart(d) \/ Lookup(d) \/ Fill(d) \/ SignFails(d) \/ Audit(d)
        => UNCHANGED <<owner, sold, returned>>
    BY Zenon DEF TickStart, Lookup, Fill, SignFails, Audit, history, past
  <2> QED
    BY <2>1, <2>2, <2>3, <2>4 DEF DrainStep
<1>sizes. stock \in Nat /\ Cardinality(Claimed) \in Nat
  BY FreeNumbers
<1>work. TypeWork
  BY DEF TypeOK
<1>same. ASSUME Claimed' = Claimed, stock' = stock PROVE FreeUnits' = FreeUnits
  BY <1>same DEF FreeUnits
<1>fewer. ASSUME tick[d].pc \in HoldsUnit, tick'[d].pc \notin HoldsUnit, OthersStay(d)
          PROVE  /\ Cardinality(Claimed') = Cardinality(Claimed) - 1
                 /\ Cardinality(Claimed) >= 1
  <2>1. Claimed' = Claimed \ {d} /\ d \in Claimed
    BY <1>fewer, ClaimedMoves DEF Claimed, HoldsUnit
  <2>2. Cardinality(Claimed \ {d}) = Cardinality(Claimed) - 1 /\ Cardinality(Claimed \ {d}) \in Nat
    BY <2>1, UnitsFinite, ElementSize, FS_RemoveElement, FS_CardinalityType
  <2> QED
    BY <1>sizes, <2>1, <2>2
<1>1. CASE TickStart(d) \/ Pop(d) \/ Audit(d) \/ BulkSoldOut(d)
  <2>1. stock' = stock /\ tick[d].pc \notin HoldsUnit
    <3>1. CASE TickStart(d) \/ Audit(d)
      BY <3>1 DEF TickStart, Audit, redis, HoldsUnit
    <3>2. CASE Pop(d) \/ BulkSoldOut(d)
      BY <3>2 DEF Pop, BulkSoldOut, HoldsUnit
    <3> QED
      BY <1>1, <3>1, <3>2
  <2>2. OthersStay(d) /\ tick'[d].pc \notin HoldsUnit
    <3>1. CASE TickStart(d)
      BY <1>work, <3>1, PcMoves DEF OnlyPc, HoldsUnit
    <3>2. CASE Pop(d)
      BY <3>2, PopMoves DEF HoldsUnit
    <3>3. CASE Audit(d)
      BY <3>3, NextUserMoves DEF Audit, HoldsUnit
    <3>4. CASE BulkSoldOut(d)
      BY <1>work, <3>4, PcMoves, IdleTickFields DEF Ended, HoldsUnit
    <3> QED
      BY <1>1, <3>1, <3>2, <3>3, <3>4
  <2> QED
    BY <1>0, <1>same, <2>1, <2>2, ClaimedSame
<1>2. CASE Lookup(d) \/ Fill(d) \/ SignFails(d)
  <2>1. stock' = stock /\ tick[d].pc \in HoldsUnit
    BY <1>2 DEF Lookup, Fill, SignFails, redis, HoldsUnit
  <2>2. \E pc \in HoldsUnit : OnlyPc(d, pc)
    BY <1>work, <1>2, PcMoves DEF HoldsUnit
  <2> QED
    BY <1>0, <1>same, <2>1, <2>2, ClaimedSame DEF OnlyPc
<1>3. CASE Claim(d)
  <2>1. tick[d].pc \notin HoldsUnit /\ d \notin Claimed
    BY <1>3 DEF Claim, HoldsUnit, Claimed
  <2>2. /\ OthersStay(d)
        /\ \/ stock' = stock - 1 /\ tick'[d].pc \in HoldsUnit
           \/ stock' = stock /\ tick'[d].pc \notin HoldsUnit
    BY <1>3, ClaimMoves DEF HoldsUnit
  <2>3. CASE stock' = stock /\ tick'[d].pc \notin HoldsUnit
    BY <1>0, <1>same, <2>1, <2>2, <2>3, ClaimedSame
  <2>4. CASE stock' = stock - 1 /\ tick'[d].pc \in HoldsUnit
    <3>1. Claimed' = Claimed \cup {d}
      BY <2>2, <2>4, ClaimedMoves
    <3>2. Cardinality(Claimed \cup {d}) = Cardinality(Claimed) + 1
      BY <2>1, UnitsFinite, ElementSize
    <3> QED
      BY <1>0, <1>sizes, <2>4, <3>1, <3>2 DEF FreeUnits
  <2> QED
    BY <2>2, <2>3, <2>4
<1>4. CASE Refund(d)
  <2>1. \/ stock' = stock + 1
        \/ "io" \in Faults /\ stock' = stock
    BY <1>4 DEF Refund, Mishap
  <2>2. tick[d].pc \in HoldsUnit /\ OthersStay(d) /\ tick'[d].pc \notin HoldsUnit
    BY <1>4, NextUserMoves DEF Refund, HoldsUnit
  <2> QED
    BY <1>0, <1>sizes, <1>fewer, <2>1, <2>2 DEF FreeUnits
<1>5. CASE TickFails(d)
  <2>1. "io" \in Faults /\ stock' = stock
    BY <1>5 DEF TickFails, Mishap, redis
  <2>2. OthersStay(d) /\ tick'[d].pc \notin HoldsUnit
    BY <1>work, <1>5, PcMoves, IdleTickFields DEF Ended, HoldsUnit
  <2>3. CASE tick[d].pc \in HoldsUnit
    BY <1>0, <1>sizes, <1>fewer, <2>1, <2>2, <2>3 DEF FreeUnits
  <2>4. CASE tick[d].pc \notin HoldsUnit
    BY <1>0, <1>same, <2>1, <2>2, <2>4, ClaimedSame
  <2> QED
    BY <2>3, <2>4
<1> QED
  BY <1>1, <1>2, <1>3, <1>4, <1>5 DEF DrainStep

LEMMA SignOwners ==
  ASSUME TypeOK, \A i \in Jtis : owner'[i] = owner[i], NEW d \in Ticks, Sign(d)
  PROVE  owner' = owner
<1>1. PICK j \in Jtis, parked \in BOOLEAN :
        owner' = IF parked THEN [owner EXCEPT ![j] = tick[d].cur] ELSE owner
  BY DEF Sign
<1>2. owner = [i \in Jtis |-> owner[i]] /\ owner' = [i \in Jtis |-> owner'[i]]
  BY <1>1 DEF TypeOK, TypeHistory
<1> QED
  BY <1>2

\* Signing offers the claimed unit as a fresh ticket, whether or not the reply arrives;
\* the unit is lost when the token is not parked.
LEMMA SignOffers ==
  ASSUME TypeOK, TicketsGenuine, UnitsExplained, NEW d \in Ticks, Sign(d)
  PROVE  [Units!Next]_(Units!sale)
<1> USE DEF OthersStay
<1>1. UNCHANGED <<stock, sold, returned>> /\ d \in Claimed
  BY DEF Sign, Claimed
<1>2. PICK j \in Jtis, parked \in BOOLEAN :
        /\ tick[d].cur \in Users /\ owner[j] = NoUser
        /\ \A i \in Jtis : owner'[i] = IF parked /\ i = j THEN tick[d].cur ELSE owner[i]
        /\ parked \/ "io" \in Faults
        /\ OthersStay(d) /\ tick'[d].pc \notin HoldsUnit
  BY SignMoves, IdleTickFields DEF HoldsUnit
<1>3. Claimed' = Claimed \ {d}
  BY <1>1, <1>2, ClaimedMoves
<1>4. Cardinality(Claimed \ {d}) = Cardinality(Claimed) - 1 /\ Cardinality(Claimed \ {d}) \in Nat
  BY <1>1, UnitsFinite, ElementSize, FS_RemoveElement, FS_CardinalityType
<1>5. FreeUnits' = FreeUnits - 1 /\ FreeUnits > 0 /\ FreeUnits \in Nat
  BY <1>1, <1>3, <1>4, FreeNumbers DEF FreeUnits
<1>6. j \notin sold /\ j \notin returned
  BY <1>2 DEF TicketsGenuine, RowsGenuine, Minted
<1>7. CASE parked
  <2>1. Places[j] = "unissued" /\ Place(j)' = "held"
    BY <1>1, <1>2, <1>6, <1>7, SaleAssumption DEF Places, Place
  <2>2. Places' = [Places EXCEPT ![j] = "held"]
    BY <1>1, <1>2, <1>7, <2>1, TicketMoves
  <2> QED
    BY <1>5, <2>1, <2>2 DEF Units!Next, Units!Offer, Units!Moves
<1>8. CASE ~parked
  <2>1. owner' = owner
    BY <1>2, <1>8, SignOwners
  <2>2. FreeUnits' \in 0..FreeUnits
    BY <1>5
  <2> QED
    BY <1>1, <1>2, <1>8, <2>1, <2>2, UnitsVanish
<1> QED
  BY <1>7, <1>8

\* The insert that succeeds turns the ticket into a purchase.
LEMMA InsertBuys ==
  ASSUME SaleInv, NEW r \in Requests, VerifyInsert(r)
  PROVE  [Units!Next]_(Units!sale)
<1>1. UNCHANGED <<stock, tick, owner, returned>> /\ req[r].pc = "vInsert"
  BY DEF VerifyInsert, redis
<1>2. FreeUnits' = FreeUnits
  BY <1>1 DEF FreeUnits, Claimed
<1>3. PICK j \in Jtis : req[r].jti = j /\ owner[j] # NoUser
  BY <1>1 DEF SaleInv, TicketsGenuine, RequestsGenuine, Minted
<1>4. CASE UNCHANGED sold
  BY <1>1, <1>2, <1>4, UnitsStay
<1>5. CASE j \notin used /\ sold' = sold \cup {j}
  <2>1. j \notin sold
    BY <1>5 DEF SaleInv, TicketsGenuine, RowsGenuine
  <2>2. Place(j)' = "bought"
    BY <1>1, <1>3, <1>5 DEF Place
  <2>3. Places' = [Places EXCEPT ![j] = "bought"]
    BY <1>1, <1>5, <2>2, TicketMoves
  <2>4. CASE j \notin returned
    <3>1. Places[j] = "held"
      BY <1>3, <2>1, <2>4 DEF Places, Place
    <3> QED
      BY <1>2, <2>3, <3>1 DEF Units!Next, Units!Buy, Units!Moves
  <2>5. CASE j \in returned
    <3>1. Places[j] = "back"
      BY <1>3, <2>1, <2>5 DEF Places, Place
    <3>2. ClientMay \cap {"overlap", "reuse"} # {}
      BY <1>1, <1>3, <2>5 DEF SaleInv, CallersInv, VerifiesApart
    <3> QED
      BY <1>2, <2>3, <3>1, <3>2 DEF Units!Next, Units!Reuse, Units!Moves
  <2> QED
    BY <2>4, <2>5
<1> QED
  BY <1>3, <1>4, <1>5 DEF VerifyInsert

\* The MULTI of a release gives the unit of the ticket back.
LEMMA MultiGivesBack ==
  ASSUME SaleInv, RepeatsAllowed', NEW r \in Requests, ReleaseMulti(r)
  PROVE  [Units!Next]_(Units!sale)
<1>1. UNCHANGED <<tick, owner>> /\ Claimed' = Claimed /\ req[r].pc = "rMulti"
  BY DEF ReleaseMulti, Claimed
<1>2. PICK j \in Jtis : req[r].jti = j /\ owner[j] # NoUser
  BY <1>1 DEF SaleInv, TicketsGenuine, RequestsGenuine, Minted
<1>3. CASE UNCHANGED <<stock, sold, returned>>
  BY <1>1, <1>3, UnitsStay DEF FreeUnits
<1>4. CASE /\ stock' = stock + 1 /\ returned' = returned \cup {j} /\ sold' = sold \ {j}
           /\ dup' = IF j \in returned THEN dup + 1 ELSE dup
  <2>1. FreeUnits' = FreeUnits + 1
    BY <1>1, <1>4, FreeNumbers DEF SaleInv, FreeUnits
  <2>2. Place(j)' = "back"
    BY <1>1, <1>2, <1>4 DEF Place
  <2>3. Places' = [Places EXCEPT ![j] = "back"]
    BY <1>1, <1>4, <2>2, TicketMoves
  <2>4. CASE Places[j] \in {"held", "bought"}
    BY <2>1, <2>3, <2>4 DEF Units!Next, Units!GiveBack, Units!Moves
  <2>5. CASE Places[j] \notin {"held", "bought"}
    <3>1. j \in returned /\ Places[j] = "back"
      BY <1>2, <2>5 DEF Places, Place
    <3>2. Places' = Places
      BY <2>3, <3>1 DEF Places
    <3>3. "overlap" \in ClientMay \/ ~NoLoss
      <4>1. dup' # 0
        BY <1>4, <3>1 DEF SaleInv, TypeOK, TypeHistory
      <4> QED
        BY <4>1 DEF RepeatsAllowed, ReturnedOnce
    <3> QED
      BY <2>1, <3>1, <3>2, <3>3 DEF Units!Next, Units!Repeat, NoLoss
  <2> QED
    BY <2>4, <2>5
<1> QED
  BY <1>2, <1>3, <1>4 DEF ReleaseMulti

\* A crash loses the units in the hands of ticks.
LEMMA CrashLoses ==
  ASSUME TypeOK, UnitsExplained, Crash
  PROVE  [Units!Next]_(Units!sale)
<1>1. Claimed' = {} /\ UNCHANGED <<stock, owner, sold, returned>> /\ "crash" \in Faults
  BY DEF Crash, Claimed, IdleTick, redis, history, past
<1>2. FreeUnits' \in 0..FreeUnits
  BY <1>1, FreeNumbers, FS_EmptySet DEF FreeUnits
<1> QED
  BY <1>1, <1>2, UnitsVanish

LEMMA SaleStep == SaleInv /\ RepeatsAllowed' /\ [Next]_vars => [Units!Next]_(Units!sale)
<1> SUFFICES ASSUME SaleInv, RepeatsAllowed', [Next]_vars PROVE [Units!Next]_(Units!sale)
  OBVIOUS
<1>0. TypeOK /\ TicketsGenuine /\ UnitsExplained
  BY DEF SaleInv
<1>1. ASSUME NEW d \in Ticks, DrainStep(d) PROVE [Units!Next]_(Units!sale)
  <2>1. CASE Sign(d)
    BY <1>0, <2>1, SignOffers
  <2>2. CASE ~Sign(d)
    BY <1>0, <1>1, <2>2, FreeDrain, UnitsStay, UnitsVanish
  <2> QED
    BY <2>1, <2>2
<1>2. ASSUME NEW r \in Requests, RequestStep(r) PROVE [Units!Next]_(Units!sale)
  <2>1. CASE VerifyInsert(r)
    BY <2>1, InsertBuys
  <2>2. CASE ReleaseMulti(r)
    BY <2>2, MultiGivesBack
  <2>3. CASE ~VerifyInsert(r) /\ ~ReleaseMulti(r)
    <3>1. UNCHANGED <<stock, tick, owner, sold, returned>>
      BY <1>2, <2>3 DEF RequestStep, Handler, VerifyStart, ReleaseStart, VerifyDecr, ReleaseDecr,
         ReleaseRestart, ReleaseRow, redis, history, past
    <3> QED
      BY <3>1, UnitsStay DEF FreeUnits, Claimed
  <2> QED
    BY <2>1, <2>2, <2>3
<1>3. CASE Crash
  BY <1>0, <1>3, CrashLoses
<1>4. CASE UNCHANGED <<stock, tick, owner, sold, returned>>
  BY <1>4, UnitsStay DEF FreeUnits, Claimed
<1>5. \/ \E d \in Ticks : DrainStep(d)
      \/ \E r \in Requests : RequestStep(r)
      \/ Crash
      \/ UNCHANGED <<stock, tick, owner, sold, returned>>
  <2>1. ASSUME NEW r \in Requests, ReleaseMulti(r) PROVE RequestStep(r)
    BY <2>1 DEF RequestStep, Handler
  <2> QED
    BY <2>1, UnitsFramed, RequestsFramed
<1> QED
  BY <1>1, <1>2, <1>3, <1>4, <1>5

\* The event implements TicketSale, whatever fails, crashes or overlaps: a step of a
\* drain, of verifyToken or of releaseTicket moves one unit as TicketSale has it, or
\* none, and what the failures and the callers do not allow does not happen there either.
THEOREM SaleImplementsTicketSale == Spec => KeepsToSale
<1>1. Init => Units!Init
  <2> SUFFICES ASSUME Init PROVE Units!Init
    OBVIOUS
  <2>1. Claimed = {}
    BY DEF Init, Claimed, IdleTick
  <2>2. FreeUnits = StockCount
    BY <2>1, FS_EmptySet, SaleAssumption DEF Init, FreeUnits
  <2>3. Places = [j \in Jtis |-> "unissued"]
    BY DEF Init, Places, Place
  <2> QED
    BY <2>2, <2>3 DEF Units!Init
<1> QED
  BY <1>1, SaleInvInit, SaleInvNext, SaleStep, RepeatsKnown, PTL DEF Spec, KeepsToSale, Units!Spec
=============================================================================
