--------------------------- MODULE Orders_proofs ----------------------------
(***************************************************************************)
(* Theorems about Orders: for any number of pages, requests, orders, edits *)
(* and faults.                                                             *)
(***************************************************************************)
EXTENDS Orders, FiniteSetTheorems, TLAPS

-----------------------------------------------------------------------------
(* Types.  TypeOK alone is not inductive: what a request writes is well     *)
(* typed because the page and the order it names are.                       *)

\* A request names a page as long as it may order or somebody waits for it, and an order
\* from its creation on.
Linked == \A r \in Requests :
    /\ req[r].waited \/ req[r].at \in {"check", "read", "write"} => req[r].page \in Pages
    /\ req[r].at \in {"created", "find", "update", "completed", "find_to_fail", "fail"} => req[r].order \in Placed

TypeInv == TypeOK /\ Linked

RequestRows == [at : Working \cup Answers \cup {"idle"}, page : Pages \cup {NoPage},
                waited : BOOLEAN, order : OrderIds \cup {NoOrder}, seen : Int]
PageRows == [stage : Stages, loaded : Verdicts, paying : BOOLEAN, order : OrderIds \cup {NoOrder}]

TypeProduct == product \in [stock : Int, status : ProductStatuses, later : BOOLEAN]
FormRows    == [at : {"closed", "open", "saving"}, stock : Int, status : ProductStatuses, loaded : Int, ordered : Nat]
TypeSeller  == /\ form \in FormRows /\ edits \in Nat
               /\ supplied \in Int /\ revived \in Int
TypeFaults  == faults \in 0..MaxFaults /\ disturbed \subseteq Pages /\ cancelled \subseteq OrderIds

LEMMA Parts ==
  TypeOK <=> /\ TypeProduct /\ orders \in [OrderIds -> OrderRows \cup {NoOrder}]
             /\ req \in [Requests -> RequestRows] /\ page \in [Pages -> PageRows]
             /\ TypeSeller /\ TypeFaults
  BY DEF TypeOK, TypeProduct, RequestRows, PageRows, FormRows, TypeSeller, TypeFaults

LEMMA PartsNext ==
  /\ TypeProduct' /\ orders' \in [OrderIds -> OrderRows \cup {NoOrder}]
  /\ req' \in [Requests -> RequestRows] /\ page' \in [Pages -> PageRows]
  /\ TypeSeller' /\ TypeFaults'
  => TypeOK'
  BY DEF TypeOK, TypeProduct, RequestRows, PageRows, FormRows, TypeSeller, TypeFaults

\* What a step leaves alone keeps its type.
LEMMA PartsKept ==
  ASSUME TypeOK
  PROVE  /\ UNCHANGED product => TypeProduct'
         /\ UNCHANGED orders => orders' \in [OrderIds -> OrderRows \cup {NoOrder}]
         /\ UNCHANGED page => page' \in [Pages -> PageRows]
         /\ UNCHANGED <<form, edits, supplied, revived>> => TypeSeller'
         /\ UNCHANGED <<faults, disturbed, cancelled>> => TypeFaults'
<1> USE Parts
<1>1. UNCHANGED product => TypeProduct'
  BY DEF TypeProduct
<1>2. UNCHANGED <<form, edits, supplied, revived>> => TypeSeller'
  BY DEF TypeSeller
<1>3. UNCHANGED <<faults, disturbed, cancelled>> => TypeFaults'
  BY DEF TypeFaults
<1> QED
  BY <1>1, <1>2, <1>3

LEMMA NewPageIsRow == NewPage \in PageRows /\ LeftPage \in PageRows
  BY DEF NewPage, LeftPage, PageRows, Stages, Verdicts

LEMMA ClosedFormIsRow == ClosedForm \in FormRows /\ ClosedForm.at = "closed"
  BY DEF ClosedForm, FormRows, ProductStatuses

LEMMA IdleIsRow == IdleRequest \in RequestRows /\ IdleRequest.waited = FALSE /\ IdleRequest.at = "idle"
  BY DEF IdleRequest, RequestRows

\* Requests and ids are taken while there are some.
LEMMA FreeRequestIsFree == HasFreeRequest => FreeRequest \in Requests /\ req[FreeRequest] = IdleRequest
  BY Zenon DEF HasFreeRequest, FreeRequest

LEMMA FreshOrderIsFresh == OrderIds \ Placed # {} => FreshOrder \in OrderIds \ Placed
<1> SUFFICES ASSUME OrderIds \ Placed # {} PROVE FreshOrder \in OrderIds \ Placed
  OBVIOUS
<1>1. \E o \in OrderIds \ Placed : TRUE
  OBVIOUS
<1> QED
  BY <1>1, Zenon DEF FreshOrder

LEMMA OrderedType == Ordered \in Nat
<1>1. Placed \subseteq OrderIds
  BY DEF Placed
<1> QED
  BY <1>1, OrdersAssumption, FS_Subset, FS_CardinalityType DEF Ordered

LEMMA TypeInit == Init => TypeInv
<1> SUFFICES ASSUME Init PROVE TypeInv
  OBVIOUS
<1>1. TypeProduct
  BY OrdersAssumption DEF Init, NewProducts, NewStatuses, TypeProduct, ProductStatuses
<1>2. orders \in [OrderIds -> OrderRows \cup {NoOrder}] /\ req \in [Requests -> RequestRows]
  BY IdleIsRow DEF Init
<1>3. page \in [Pages -> PageRows]
  BY NewPageIsRow DEF Init
<1>4. TypeSeller /\ TypeFaults
  BY <1>1, ClosedFormIsRow, OrdersAssumption DEF Init, TypeSeller, TypeFaults, TypeProduct
<1>5. Linked
  BY IdleIsRow DEF Init, Linked
<1> QED
  BY <1>1, <1>2, <1>3, <1>4, <1>5, Parts DEF TypeInv

\* A request gets a row that names what it has to: all rows do then, as orders are not lost.
LEMMA RequestKept ==
  ASSUME TypeInv, NEW r \in Requests, NEW row \in RequestRows, req' = [req EXCEPT ![r] = row],
         Placed \subseteq Placed',
         row.waited \/ row.at \in {"check", "read", "write"} => row.page \in Pages,
         row.at \in {"created", "find", "update", "completed", "find_to_fail", "fail"} => row.order \in Placed'
  PROVE  req' \in [Requests -> RequestRows] /\ Linked'
<1>1. req \in [Requests -> RequestRows]
  BY Parts DEF TypeInv
<1>2. req' \in [Requests -> RequestRows]
  BY <1>1
<1>3. ASSUME NEW x \in Requests PROVE req'[x] = IF x = r THEN row ELSE req[x]
  BY <1>1
<1>4. Linked'
  BY <1>3 DEF TypeInv, Linked
<1> QED
  BY <1>2, <1>4

\* Where a request is may change alone.
LEMMA AnswerKept ==
  ASSUME TypeInv, NEW r \in Requests, NEW at \in Working \cup Answers \cup {"idle"}, Answer(r, at),
         Placed \subseteq Placed',
         at \in {"check", "read", "write"} => req[r].page \in Pages,
         at \in {"created", "find", "update", "completed", "find_to_fail", "fail"} => req[r].order \in Placed'
  PROVE  req' \in [Requests -> RequestRows] /\ Linked'
<1> DEFINE row == [req[r] EXCEPT !.at = at]
<1>1. req \in [Requests -> RequestRows]
  BY Parts DEF TypeInv
<1>2. /\ row \in RequestRows /\ row.at = at /\ row.waited = req[r].waited
      /\ row.page = req[r].page /\ row.order = req[r].order
  BY <1>1 DEF RequestRows
<1>3. req' = [req EXCEPT ![r] = row]
  BY DEF Answer
<1>4. row.waited => row.page \in Pages
  BY <1>2 DEF TypeInv, Linked
<1> HIDE DEF row
<1> QED
  BY <1>2, <1>3, <1>4, RequestKept

LEMMA IdleKept ==
  ASSUME TypeInv, NEW r \in Requests, req' = [req EXCEPT ![r] = IdleRequest], Placed \subseteq Placed'
  PROVE  req' \in [Requests -> RequestRows] /\ Linked'
  BY IdleIsRow, RequestKept

LEMMA OthersKept ==
  ASSUME TypeInv, UNCHANGED <<req, orders>>
  PROVE  req' \in [Requests -> RequestRows] /\ Linked'
  BY Parts DEF TypeInv, Linked, Placed

-----------------------------------------------------------------------------

\* What the page does by itself.
LEMMA TypePage ==
  ASSUME TypeInv, NEW p \in Pages,
         Browse(p) \/ LoadProduct(p) \/ QueueDone(p) \/ ProceedToConfirm(p) \/ Expire(p) \/ Leave(p)
  PROVE  TypeInv'
<1>1. Verdict(product) \in Verdicts /\ Card(product) \in Verdicts
  BY DEF Verdict, Card, Verdicts
<1>2. page \in [Pages -> PageRows]
  BY Parts DEF TypeInv
<1>3. page' \in [Pages -> PageRows]
  <2>1. PICK row \in PageRows : page' = [page EXCEPT ![p] = row]
    <3>1. CASE Browse(p) \/ LoadProduct(p)
      BY <1>1, <1>2, <3>1 DEF Browse, LoadProduct, PageRows, Stages
    <3>2. CASE QueueDone(p)
      <4>1. /\ [NewPage EXCEPT !.stage = "sold_out"] \in PageRows
            /\ [NewPage EXCEPT !.stage = "select_address"] \in PageRows
        BY NewPageIsRow DEF PageRows, Stages
      <4> QED
        BY <3>2, <4>1, NewPageIsRow DEF QueueDone
    <3>3. CASE ProceedToConfirm(p) \/ Expire(p)
      BY <1>2, <3>3 DEF ProceedToConfirm, Expire, PageRows, Stages
    <3>4. CASE Leave(p)
      BY <3>4, NewPageIsRow DEF Leave
    <3> QED
      BY <3>1, <3>2, <3>3, <3>4
  <2> QED
    BY <1>2, <2>1
<1>4. UNCHANGED <<req, product, orders, form, edits, supplied, revived, faults, disturbed, cancelled>>
  BY DEF Browse, LoadProduct, QueueDone, ProceedToConfirm, Expire, Leave, UnchangedShop, UnchangedSeller, UnchangedFaults
<1> QED
  BY <1>3, <1>4, OthersKept, PartsKept, PartsNext DEF TypeInv

LEMMA TypePay == ASSUME TypeInv, NEW p \in Pages, Pay(p) PROVE TypeInv'
<1> DEFINE row == [IdleRequest EXCEPT !.at = "check", !.page = p, !.waited = TRUE]
<1>1. /\ row \in RequestRows /\ row.at = "check" /\ row.page = p
  BY IdleIsRow DEF RequestRows, Working
<1>2. FreeRequest \in Requests /\ req' = [req EXCEPT ![FreeRequest] = row]
  BY FreeRequestIsFree DEF Pay
<1>3. UNCHANGED <<product, orders, form, edits, supplied, revived, faults, disturbed, cancelled>>
  BY DEF Pay, UnchangedShop, UnchangedSeller, UnchangedFaults
<1>4. Placed' = Placed
  BY <1>3 DEF Placed
<1> HIDE DEF row
<1>5. req' \in [Requests -> RequestRows] /\ Linked'
  BY <1>1, <1>2, <1>4, RequestKept
<1>6. page' \in [Pages -> PageRows]
  BY Parts DEF TypeInv, Pay, PageRows
<1> QED
  BY <1>3, <1>5, <1>6, PartsKept, PartsNext DEF TypeInv

LEMMA TypePageTakesAnswer == ASSUME TypeInv, NEW p \in Pages, PageTakesAnswer(p) PROVE TypeInv'
<1>1. PICK r \in Requests : PayCreated(p, r) \/ PayCompleted(p, r) \/ PayRefused(p, r)
  BY DEF PageTakesAnswer
<1>2. UNCHANGED <<product, orders, form, edits, supplied, revived, faults, disturbed, cancelled>>
  BY <1>1 DEF PayCreated, PayCompleted, PayRefused, UnchangedShop, UnchangedSeller, UnchangedFaults
<1>3. Placed' = Placed
  BY <1>2 DEF Placed
<1>4. page \in [Pages -> PageRows] /\ req \in [Requests -> RequestRows]
  BY Parts DEF TypeInv
<1>5. req' \in [Requests -> RequestRows] /\ Linked'
  <2>1. CASE PayCreated(p, r)
    <3>1. Answer(r, "find") /\ req[r].order \in Placed'
      BY <2>1, <1>3 DEF PayCreated, Answer, TypeInv, Linked
    <3>2. "find" \in Working
      BY DEF Working
    <3> QED
      BY <1>3, <3>1, <3>2, AnswerKept
  <2>2. CASE PayCompleted(p, r) \/ PayRefused(p, r)
    BY <2>2, <1>3, IdleKept DEF PayCompleted, PayRefused
  <2> QED
    BY <1>1, <2>1, <2>2
<1>6. page' \in [Pages -> PageRows]
  <2>1. CASE PayCreated(p, r)
    BY <1>4, <2>1 DEF PayCreated
  <2>2. CASE PayCompleted(p, r)
    <3>1. [NewPage EXCEPT !.stage = "success", !.order = req[r].order] \in PageRows
      BY <1>4, NewPageIsRow DEF PageRows, RequestRows, Stages
    <3> QED
      BY <1>4, <2>2, <3>1 DEF PayCompleted, Show
  <2>3. CASE PayRefused(p, r)
    <3>1. [page[p] EXCEPT !.paying = FALSE, !.stage = IF req[r].at = "sold_out" THEN "sold_out" ELSE @] \in PageRows
      BY <1>4 DEF PageRows, Stages
    <3> QED
      BY <1>4, <2>3, <3>1 DEF PayRefused, Show
  <2> QED
    BY <1>1, <2>1, <2>2, <2>3
<1> QED
  BY <1>2, <1>5, <1>6, PartsKept, PartsNext DEF TypeInv

-----------------------------------------------------------------------------

\* The server's steps that write no row.
LEMMA TypeServerReads ==
  ASSUME TypeInv, NEW r \in Requests, CreateCheck(r) \/ TxRead(r) \/ FindOrder(r)
  PROVE  TypeInv'
<1>1. UNCHANGED <<product, orders, page, form, edits, supplied, revived, faults, disturbed, cancelled>>
  BY DEF CreateCheck, TxRead, FindOrder, UnchangedShop, UnchangedClient
<1>2. Placed' = Placed
  BY <1>1 DEF Placed
<1>3. req \in [Requests -> RequestRows] /\ TypeProduct
  BY Parts DEF TypeInv
<1>4. req' \in [Requests -> RequestRows] /\ Linked'
  <2>1. CASE CreateCheck(r)
    <3>1. PICK at \in {"sold_out", "error", "read"} : Answer(r, at)
      BY <2>1 DEF CreateCheck
    <3>2. req[r].page \in Pages
      BY <2>1 DEF CreateCheck, TypeInv, Linked
    <3> QED
      BY <1>2, <3>1, <3>2, AnswerKept DEF Working, Answers
  <2>2. CASE TxRead(r)
    <3>1. req[r].page \in Pages
      BY <2>2 DEF TxRead, TypeInv, Linked
    <3>2. CASE Answer(r, "sold_out")
      BY <1>2, <3>2, AnswerKept DEF Answers
    <3>3. CASE req' = [req EXCEPT ![r].at = "write", ![r].seen = product.stock]
      <4> DEFINE row == [req[r] EXCEPT !.at = "write", !.seen = product.stock]
      <4>1. /\ row \in RequestRows /\ row.at = "write" /\ row.page = req[r].page
            /\ req' = [req EXCEPT ![r] = row]
        BY <1>3, <3>3 DEF RequestRows, TypeProduct, Working
      <4> HIDE DEF row
      <4> QED
        BY <1>2, <3>1, <4>1, RequestKept
    <3> QED
      BY <2>2, <3>2, <3>3 DEF TxRead
  <2>3. CASE FindOrder(r)
    <3>1. PICK at \in {"fail", "update", "error"} : Answer(r, at)
      BY <2>3 DEF FindOrder
    <3>2. req[r].order \in Placed
      BY <2>3 DEF FindOrder, TypeInv, Linked
    <3> QED
      BY <1>2, <3>1, <3>2, AnswerKept DEF Working, Answers
  <2> QED
    BY <2>1, <2>2, <2>3
<1> QED
  BY <1>1, <1>4, PartsKept, PartsNext DEF TypeInv

\* The transaction's order gets an id that no other has.
LEMMA TxCommitPlaces ==
  ASSUME TypeInv, NEW r \in Requests, TxCommit(r)
  PROVE  /\ orders' \in [OrderIds -> OrderRows \cup {NoOrder}]
         /\ FreshOrder \in OrderIds \ Placed /\ Placed' = Placed \cup {FreshOrder}
<1>1. FreshOrder \in OrderIds \ Placed
  BY FreshOrderIsFresh DEF TxCommit
<1>2. [page |-> req[r].page, status |-> "PENDING"] \in OrderRows
  BY DEF TxCommit, TypeInv, Linked, OrderRows, OrderStatuses
<1>3. [page |-> req[r].page, status |-> "PENDING"] # NoOrder
  BY <1>2, OrdersAssumption
<1>4. orders' = [orders EXCEPT ![FreshOrder] = [page |-> req[r].page, status |-> "PENDING"]]
  BY DEF TxCommit
<1>5. orders \in [OrderIds -> OrderRows \cup {NoOrder}]
  BY Parts DEF TypeInv
<1> HIDE DEF FreshOrder
<1>6. orders' \in [OrderIds -> OrderRows \cup {NoOrder}]
  BY <1>2, <1>4, <1>5
<1>7. Placed' = Placed \cup {FreshOrder}
  BY <1>1, <1>3, <1>4, <1>5 DEF Placed
<1> QED
  BY <1>1, <1>6, <1>7

LEMMA TypeTxCommit == ASSUME TypeInv, NEW r \in Requests, TxCommit(r) PROVE TypeInv'
<1>1. UNCHANGED <<page, form, edits, supplied, revived, faults, disturbed, cancelled>>
  BY DEF TxCommit, UnchangedClient
<1>2. TypeProduct'
  <2>1. PICK st \in ProductStatuses : product' = [product EXCEPT !.stock = @ - 1, !.status = st]
    BY Parts DEF TypeInv, TxCommit, TypeProduct, ProductStatuses
  <2>2. product \in [stock : Int, status : ProductStatuses, later : BOOLEAN]
    BY Parts DEF TypeInv, TypeProduct
  <2>3. product.stock - 1 \in Int
    BY <2>2
  <2> QED
    BY <2>1, <2>2, <2>3 DEF TypeProduct
<1>3. req' \in [Requests -> RequestRows] /\ Linked'
  <2> DEFINE row == [req[r] EXCEPT !.at = "created", !.order = FreshOrder]
  <2>1. req \in [Requests -> RequestRows]
    BY Parts DEF TypeInv
  <2>2. FreshOrder \in OrderIds /\ FreshOrder \in Placed' /\ Placed \subseteq Placed'
    BY TxCommitPlaces
  <2>6. req[r] \in RequestRows /\ FreshOrder \in OrderIds
    BY <2>1, <2>2
  <2>7. row \in RequestRows
    BY <2>6 DEF RequestRows, Answers
  <2>8. row.at = "created" /\ row.order = FreshOrder /\ row.page = req[r].page
    BY <2>6 DEF RequestRows
  <2>3. /\ row \in RequestRows /\ row.at = "created" /\ row.order = FreshOrder
        /\ row.page = req[r].page
    BY <2>7, <2>8
  <2>5. req' = [req EXCEPT ![r] = row]
    BY DEF TxCommit
  <2>4. req[r].page \in Pages
    BY DEF TxCommit, TypeInv, Linked
  <2> HIDE DEF row
  <2> QED
    BY <2>2, <2>3, <2>4, <2>5, RequestKept
<1> QED
  BY <1>1, <1>2, <1>3, TxCommitPlaces, PartsKept, PartsNext DEF TypeInv

\* An order that is placed keeps its row, whatever its status becomes.
LEMMA StatusKept ==
  ASSUME TypeInv, NEW o \in Placed, NEW st \in OrderStatuses, orders' = [orders EXCEPT ![o].status = st]
  PROVE  orders' \in [OrderIds -> OrderRows \cup {NoOrder}] /\ Placed' = Placed
<1>1. orders \in [OrderIds -> OrderRows \cup {NoOrder}] /\ o \in OrderIds /\ orders[o] \in OrderRows
  BY Parts DEF TypeInv, Placed
<1> DEFINE row == [orders[o] EXCEPT !.status = st]
<1>2. row \in OrderRows /\ orders' = [orders EXCEPT ![o] = row]
  BY <1>1 DEF OrderRows
<1> HIDE DEF row
<1>3. row # NoOrder
  BY <1>2, OrdersAssumption
<1> QED
  BY <1>1, <1>2, <1>3 DEF Placed

LEMMA TypeServerUpdates ==
  ASSUME TypeInv, NEW r \in Requests, CompleteOrder(r) \/ FailOrder(r)
  PROVE  TypeInv'
<1>1. UNCHANGED <<product, page, form, edits, supplied, revived, faults, disturbed, cancelled>>
  BY DEF CompleteOrder, FailOrder, UnchangedClient
<1>2. req[r].order \in Placed
  BY DEF CompleteOrder, FailOrder, TypeInv, Linked
<1>3. orders' \in [OrderIds -> OrderRows \cup {NoOrder}] /\ Placed' = Placed
  BY <1>2, StatusKept DEF CompleteOrder, FailOrder, OrderStatuses
<1>4. req' \in [Requests -> RequestRows] /\ Linked'
  <2>1. CASE CompleteOrder(r)
    BY <1>2, <1>3, <2>1, AnswerKept DEF CompleteOrder, Answers
  <2>2. CASE FailOrder(r)
    BY <1>3, <2>2, IdleKept DEF FailOrder
  <2> QED
    BY <2>1, <2>2
<1> QED
  BY <1>1, <1>3, <1>4, PartsKept, PartsNext DEF TypeInv

LEMMA TypeCancelOrder == ASSUME TypeInv, NEW o \in OrderIds, CancelOrder(o) PROVE TypeInv'
<1> DEFINE row == [IdleRequest EXCEPT !.at = "find_to_fail", !.order = o]
<1>1. row \in RequestRows /\ row.at = "find_to_fail" /\ row.order = o /\ row.waited = FALSE
  BY IdleIsRow DEF RequestRows, Working
<1>2. FreeRequest \in Requests /\ req' = [req EXCEPT ![FreeRequest] = row]
  BY FreeRequestIsFree DEF CancelOrder
<1>3. UNCHANGED <<product, orders, page, form, edits, supplied, revived, faults, disturbed>>
  BY DEF CancelOrder, UnchangedShop, UnchangedSeller
<1>4. Placed' = Placed /\ o \in Placed
  BY <1>3 DEF Placed, CancelOrder
<1> HIDE DEF row
<1>5. req' \in [Requests -> RequestRows] /\ Linked'
  BY <1>1, <1>2, <1>4, RequestKept
<1>6. TypeFaults'
  BY Parts DEF TypeInv, TypeFaults, CancelOrder
<1> QED
  BY <1>3, <1>5, <1>6, PartsKept, PartsNext DEF TypeInv

LEMMA TypeFault ==
  ASSUME TypeInv, NEW r \in Requests, RequestDies(r) \/ ConnectionLost(r) \/ Forgotten(r)
  PROVE  TypeInv'
<1>1. UNCHANGED <<product, orders, form, edits, supplied, revived>>
  BY DEF RequestDies, ConnectionLost, Forgotten, UnchangedShop, UnchangedSeller
<1>2. Placed' = Placed
  BY <1>1 DEF Placed
<1>3. req \in [Requests -> RequestRows] /\ page \in [Pages -> PageRows]
  BY Parts DEF TypeInv
<1>4. req' \in [Requests -> RequestRows] /\ Linked'
  <2>1. CASE RequestDies(r)
    BY <1>2, <2>1, AnswerKept DEF RequestDies, Answers
  <2>2. CASE ConnectionLost(r)
    <3> DEFINE row == [req[r] EXCEPT !.waited = FALSE]
    <3>1. /\ row \in RequestRows /\ row.at = req[r].at /\ row.page = req[r].page
          /\ row.order = req[r].order /\ row.waited = FALSE /\ req' = [req EXCEPT ![r] = row]
      BY <1>3, <2>2 DEF ConnectionLost, RequestRows
    <3>2. /\ req[r].at \in {"check", "read", "write"} => req[r].page \in Pages
          /\ req[r].at \in {"created", "find", "update", "completed", "find_to_fail", "fail"} => req[r].order \in Placed
      BY DEF TypeInv, Linked
    <3> HIDE DEF row
    <3> QED
      BY <1>2, <3>1, <3>2, RequestKept
  <2>3. CASE Forgotten(r)
    BY <1>2, <2>3, IdleKept DEF Forgotten
  <2> QED
    BY <2>1, <2>2, <2>3
<1>5. page' \in [Pages -> PageRows]
  <2>1. CASE RequestDies(r) \/ Forgotten(r)
    BY <1>3, <2>1 DEF RequestDies, Forgotten
  <2>2. CASE ConnectionLost(r)
    <3>1. page' = [page EXCEPT ![req[r].page].paying = FALSE] /\ req[r].page \in Pages
      BY <2>2 DEF ConnectionLost, TypeInv, Linked
    <3> QED
      BY <1>3, <3>1 DEF PageRows
  <2> QED
    BY <2>1, <2>2
<1>6. TypeFaults'
  <2>1. CASE RequestDies(r) \/ ConnectionLost(r)
    <3>1. Disturb(req[r].page) /\ req[r].page \in Pages
      BY <2>1 DEF RequestDies, ConnectionLost, TypeInv, Linked
    <3> QED
      BY <3>1, Parts, OrdersAssumption DEF TypeInv, TypeFaults, Disturb
  <2>2. CASE Forgotten(r)
    BY <2>2, PartsKept DEF Forgotten, UnchangedFaults, TypeInv
  <2> QED
    BY <2>1, <2>2
<1> QED
  BY <1>1, <1>4, <1>5, <1>6, PartsKept, PartsNext DEF TypeInv

\* What the form becomes after an answer.
LEMMA ReopenRow == ASSUME NEW row \in FormRows, Reopen(row) PROVE form' \in FormRows
  BY ClosedFormIsRow DEF Reopen

LEMMA TypeShop ==
  ASSUME TypeInv, OpenForm \/ UpdateProduct \/ UpdateFails \/ CloseForm \/ Terminate \/ SaleStarts
  PROVE  TypeInv'
<1>1. UNCHANGED <<orders, req, page, faults, disturbed, cancelled>>
  BY DEF OpenForm, UpdateProduct, UpdateFails, CloseForm, Terminate, SaleStarts, UnchangedCustomers
<1>2. /\ form \in FormRows /\ edits \in Nat /\ supplied \in Int /\ revived \in Int
      /\ product \in [stock : Int, status : ProductStatuses, later : BOOLEAN]
  BY Parts DEF TypeInv, TypeSeller, TypeProduct
<1>3. TypeProduct'
  <2>1. CASE UpdateProduct
    BY <1>2, <2>1 DEF UpdateProduct, TypeProduct, FormRows
  <2>2. CASE OpenForm \/ UpdateFails \/ CloseForm \/ Terminate \/ SaleStarts
    BY <1>2, <2>2 DEF OpenForm, UpdateFails, CloseForm, Terminate, SaleStarts, TypeProduct, ProductStatuses
  <2> QED
    BY <2>1, <2>2
<1>4. TypeSeller'
  <2>1. CASE OpenForm
    <3>1. form' \in FormRows
      BY <1>2, <2>1, OrderedType DEF OpenForm, FormRows
    <3> QED
      BY <1>2, <2>1, <3>1 DEF OpenForm, TypeSeller
  <2>2. CASE UpdateProduct
    <3> DEFINE row == [form EXCEPT !.at = "open", !.loaded = form.stock, !.ordered = Ordered]
    <3>1. row \in FormRows
      BY <1>2, OrderedType DEF FormRows
    <3>2. Reopen(row)
      BY <2>2 DEF UpdateProduct
    <3> HIDE DEF row
    <3>3. form' \in FormRows
      BY <3>1, <3>2, ReopenRow
    <3>4. edits' \in Nat /\ supplied' \in Int /\ revived' \in Int
      BY <1>2, <2>2, OrderedType DEF UpdateProduct, FormRows
    <3> QED
      BY <3>3, <3>4 DEF TypeSeller
  <2>3. CASE UpdateFails
    <3> DEFINE row == [form EXCEPT !.at = "open"]
    <3>1. row \in FormRows
      BY <1>2 DEF FormRows
    <3>2. Reopen(row)
      BY <2>3 DEF UpdateFails
    <3> HIDE DEF row
    <3>3. form' \in FormRows
      BY <3>1, <3>2, ReopenRow
    <3> QED
      BY <1>2, <2>3, <3>3 DEF UpdateFails, TypeSeller
  <2>4. CASE CloseForm
    BY <1>2, <2>4, ClosedFormIsRow DEF CloseForm, TypeSeller
  <2>5. CASE Terminate \/ SaleStarts
    BY <2>5, PartsKept DEF TypeInv, Terminate, SaleStarts, UnchangedSeller
  <2> QED
    BY <2>1, <2>2, <2>3, <2>4, <2>5
<1> QED
  BY <1>1, <1>3, <1>4, OthersKept, PartsKept, PartsNext DEF TypeInv

LEMMA TypeSubmit ==
  ASSUME TypeInv, NEW stock \in StockChoices, NEW st \in (StatusChoices \cap Chosen) \cup {form.status},
         Submit(stock, st)
  PROVE  TypeInv'
<1>1. UNCHANGED <<product, orders, req, page, faults, disturbed, cancelled>>
  BY DEF Submit, UnchangedCustomers
<1>2. form \in FormRows /\ edits \in Nat /\ supplied \in Int /\ revived \in Int
  BY Parts DEF TypeInv, TypeSeller
<1>3. stock \in Int /\ st \in ProductStatuses
  BY <1>2, OrdersAssumption DEF FormRows, StockChoices, StatusChoices, ProductStatuses
<1>4. form' \in FormRows
  BY <1>2, <1>3 DEF Submit, FormRows
<1>5. TypeSeller'
  BY <1>2, <1>4 DEF Submit, TypeSeller
<1> QED
  BY <1>1, <1>5, OthersKept, PartsKept, PartsNext DEF TypeInv

LEMMA TypeStutter == ASSUME TypeInv, UNCHANGED vars PROVE TypeInv'
<1>1. UNCHANGED <<product, orders, req, page, form, edits, faults, supplied, revived, disturbed, cancelled>>
  BY DEF vars
<1> QED
  BY <1>1, OthersKept, PartsKept, PartsNext DEF TypeInv

LEMMA TypeNext == ASSUME TypeInv, [Next]_vars PROVE TypeInv'
<1>1. CASE \E p \in Pages :
             \/ Browse(p) \/ LoadProduct(p) \/ QueueDone(p) \/ ProceedToConfirm(p) \/ Expire(p) \/ Leave(p)
             \/ Pay(p) \/ PageTakesAnswer(p)
  BY <1>1, TypePage, TypePay, TypePageTakesAnswer
<1>2. CASE \E r \in Requests : Server(r)
  BY <1>2, TypeServerReads, TypeServerUpdates, TypeTxCommit DEF Server
<1>3. CASE \E r \in Requests : RequestDies(r) \/ ConnectionLost(r) \/ Forgotten(r)
  BY <1>3, TypeFault
<1>4. CASE (\E o \in OrderIds : CancelOrder(o)) \/ OpenForm \/ UpdateProduct \/ UpdateFails \/ CloseForm \/ Terminate \/ SaleStarts
  BY <1>4, TypeCancelOrder, TypeShop
<1>5. CASE \E stock \in StockChoices, status \in (StatusChoices \cap Chosen) \cup {form.status} : Submit(stock, status)
  BY <1>5, TypeSubmit
<1> QED
  BY <1>1, <1>2, <1>3, <1>4, <1>5, TypeStutter DEF Next

\* Every variable keeps its type: a request that writes an order names a page, and one that
\* completes or fails an order names a row that is there (order.service.ts:68-86).
THEOREM OrdersTypes == Spec => []TypeOK
<1>1. TypeInv => TypeOK
  BY DEF TypeInv
<1> QED
  BY <1>1, TypeInit, TypeNext, PTL DEF Spec

-----------------------------------------------------------------------------
(* How far the shop oversells.  The bound on the orders is one on the stock, *)
(* which is what the units in all leave, and each transaction that has read  *)
(* a unit may still take one.                                                *)

\* The row's stock is what the orders have left; an open form shows what it then was.
Balance ==
  /\ product.stock + Ordered = supplied + revived
  /\ form.at # "closed" => form.loaded + form.ordered = supplied + revived

\* The stock falls below one only by the transactions beside the one that took the last unit.
Floor == product.stock >= 1 - Cardinality(Requests) + Cardinality(Writing)

SupplyInv == TypeInv /\ Balance /\ Floor

LEMMA Counts ==
  /\ Cardinality(Requests) \in Nat /\ IsFiniteSet(Writing)
  /\ Cardinality(Writing) \in 0..Cardinality(Requests)
<1>1. Writing \subseteq Requests
  BY DEF Writing
<1> QED
  BY <1>1, OrdersAssumption, FS_Subset, FS_CardinalityType

LEMMA Fields ==
  TypeOK => product.stock \in Int /\ form.stock \in Int /\ form.loaded \in Int /\ form.ordered \in Nat /\ supplied \in Int /\ revived \in Int
  BY Parts DEF TypeProduct, TypeSeller, FormRows

LEMMA SupplyInit == Init => SupplyInv
<1> SUFFICES ASSUME Init PROVE SupplyInv
  OBVIOUS
<1>1. TypeInv
  BY TypeInit
<1>2. Placed = {} /\ Writing = {}
  BY IdleIsRow DEF Init, Placed, Writing
<1>3. Ordered = 0 /\ Cardinality(Writing) = 0
  BY <1>2, FS_EmptySet DEF Ordered
<1>4. product.stock >= 1 /\ product.stock = supplied /\ revived = 0 /\ form.at = "closed"
  BY OrdersAssumption, ClosedFormIsRow DEF Init, NewProducts, ValidStock
<1>5. Cardinality(Requests) \in Nat /\ Cardinality(Requests) # 0
  BY OrdersAssumption, FS_CardinalityType, FS_EmptySet
<1>6. Balance /\ Floor
  BY <1>1, <1>3, <1>4, <1>5, Fields DEF Balance, Floor, TypeInv
<1> QED
  BY <1>1, <1>6 DEF SupplyInv

\* A step that leaves the stock, the ids and the books alone, and starts no writing.
LEMMA SupplyKept ==
  ASSUME SupplyInv, TypeInv', product'.stock = product.stock, Ordered' = Ordered,
         UNCHANGED <<form, supplied, revived>>, Writing' \subseteq Writing
  PROVE  SupplyInv'
<1>1. Cardinality(Writing') <= Cardinality(Writing) /\ Cardinality(Writing') \in Nat
  BY Counts, FS_Subset, FS_CardinalityType
<1>2. Cardinality(Writing) \in Nat /\ Cardinality(Requests) \in Nat /\ product.stock \in Int
  BY Counts, Fields DEF SupplyInv, TypeInv
<1>3. Floor'
  BY <1>1, <1>2 DEF SupplyInv, Floor
<1>4. Balance'
  BY DEF SupplyInv, Balance
<1> QED
  BY <1>3, <1>4 DEF SupplyInv

\* A step after which the stock is one at least: the transactions are no more than the requests.
LEMMA FloorWithStock ==
  ASSUME TypeInv', product'.stock >= 1
  PROVE  Floor'
<1>1. Cardinality(Requests) \in Nat /\ Cardinality(Writing') \in 0..Cardinality(Requests)
  <2>1. Writing' \subseteq Requests
    BY DEF Writing
  <2> QED
    BY <2>1, OrdersAssumption, FS_Subset, FS_CardinalityType
<1>2. product'.stock \in Int
  BY DEF TypeInv, TypeOK
<1> QED
  BY <1>1, <1>2 DEF Floor

LEMMA SupplyTxRead ==
  ASSUME SupplyInv, TypeInv', NEW r \in Requests, TxRead(r)
  PROVE  SupplyInv'
<1>1. UNCHANGED <<product, orders, form, supplied, revived>>
  BY DEF TxRead, UnchangedShop, UnchangedClient
<1>2. Ordered' = Ordered
  BY <1>1 DEF Ordered, Placed
<1>3. CASE product.stock < 1 \/ product.status # "ACTIVE"
  <2>1. req' = [req EXCEPT ![r].at = "sold_out"]
    BY <1>3 DEF TxRead, Answer
  <2>2. Writing' \subseteq Writing
    BY <2>1 DEF Writing, SupplyInv, TypeInv, TypeOK
  <2> QED
    BY <1>1, <1>2, <2>2, SupplyKept
<1>4. CASE ~(product.stock < 1)
  <2>1. product'.stock >= 1
    BY <1>1, <1>4, Fields DEF SupplyInv, TypeInv
  <2>2. Balance'
    BY <1>1, <1>2 DEF SupplyInv, Balance
  <2> QED
    BY <2>1, <2>2, FloorWithStock DEF SupplyInv
<1> QED
  BY <1>3, <1>4

LEMMA SupplyTxCommit ==
  ASSUME SupplyInv, TypeInv', NEW r \in Requests, TxCommit(r)
  PROVE  SupplyInv'
<1>1. product'.stock = product.stock - 1 /\ UNCHANGED <<form, supplied, revived>>
  BY Parts DEF SupplyInv, TypeInv, TypeProduct, TxCommit, UnchangedClient
<1>2. Ordered' = Ordered + 1
  <2>1. Placed' = Placed \cup {FreshOrder} /\ FreshOrder \notin Placed /\ Placed \subseteq OrderIds
    BY TxCommitPlaces DEF SupplyInv, Placed
  <2>2. IsFiniteSet(Placed)
    BY <2>1, OrdersAssumption, FS_Subset
  <2> QED
    BY <2>1, <2>2, FS_AddElement DEF Ordered
<1>3. Cardinality(Writing') = Cardinality(Writing) - 1
  <2>1. req' = [req EXCEPT ![r] = [@ EXCEPT !.at = "created", !.order = FreshOrder]] /\ req[r].at = "write"
    BY DEF TxCommit
  <2>2. r \in Writing /\ Writing' = Writing \ {r}
    BY <2>1 DEF Writing, SupplyInv, TypeInv, TypeOK
  <2> QED
    BY <2>2, Counts, FS_RemoveElement
<1>4. Balance' /\ Floor'
  BY <1>1, <1>2, <1>3, Counts, OrderedType, Fields DEF SupplyInv, TypeInv, Balance, Floor
<1> QED
  BY <1>4 DEF SupplyInv

LEMMA SupplySeller ==
  ASSUME SupplyInv, TypeInv', OpenForm \/ UpdateFails \/ CloseForm \/ Terminate \/ SaleStarts
  PROVE  SupplyInv'
<1>1. UNCHANGED <<orders, req, supplied, revived>> /\ product'.stock = product.stock
  BY Parts DEF SupplyInv, TypeInv, TypeProduct, OpenForm, UpdateFails, CloseForm, Terminate, SaleStarts,
              UnchangedSeller, UnchangedCustomers
<1>2. Ordered' = Ordered /\ Writing' = Writing
  BY <1>1 DEF Ordered, Placed, Writing
<1>3. CASE OpenForm
  <2>1. form'.loaded = product.stock /\ form'.ordered = Ordered
    BY <1>3 DEF OpenForm
  <2> QED
    BY <1>1, <1>2, <2>1 DEF SupplyInv, Balance, Floor
<1>4. CASE UpdateFails
  <2>1. form'.at = "closed" \/ (form'.loaded = form.loaded /\ form'.ordered = form.ordered /\ form.at # "closed")
    BY <1>4, ClosedFormIsRow DEF UpdateFails, Reopen, SupplyInv, TypeInv, TypeOK
  <2> QED
    BY <1>1, <1>2, <2>1 DEF SupplyInv, Balance, Floor
<1>5. CASE CloseForm
  <2>1. form'.at = "closed"
    BY <1>5, ClosedFormIsRow DEF CloseForm
  <2> QED
    BY <1>1, <1>2, <2>1 DEF SupplyInv, Balance, Floor
<1>6. CASE Terminate \/ SaleStarts
  BY <1>1, <1>2, <1>6, SupplyKept DEF Terminate, SaleStarts, UnchangedSeller
<1> QED
  BY <1>3, <1>4, <1>5, <1>6

LEMMA SupplySubmit ==
  ASSUME SupplyInv, TypeInv', NEW stock, NEW st, Submit(stock, st)
  PROVE  SupplyInv'
<1>1. UNCHANGED <<orders, req, supplied, revived, product>>
  BY DEF Submit, UnchangedCustomers
<1>2. Ordered' = Ordered /\ Writing' = Writing
  BY <1>1 DEF Ordered, Placed, Writing
<1>3. form'.loaded = form.loaded /\ form'.ordered = form.ordered /\ form.at # "closed"
  BY DEF Submit, SupplyInv, TypeInv, TypeOK
<1> QED
  BY <1>1, <1>2, <1>3 DEF SupplyInv, Balance, Floor

LEMMA SupplyUpdateProduct ==
  ASSUME SupplyInv, TypeInv', UpdateProduct
  PROVE  SupplyInv'
<1>1. /\ product'.stock = form.stock /\ form.stock >= 1 /\ form.at # "closed"
      /\ supplied' = supplied + (form.stock - form.loaded) /\ revived' = revived + (Ordered - form.ordered)
  BY Parts DEF SupplyInv, TypeInv, TypeProduct, UpdateProduct, ValidStock
<1>2. Ordered' = Ordered
  BY DEF UpdateProduct, UnchangedCustomers, Ordered, Placed
<1>3. form'.at = "closed" \/ (form'.loaded = form.stock /\ form'.ordered = Ordered)
  BY ClosedFormIsRow DEF UpdateProduct, Reopen, SupplyInv, TypeInv, TypeOK
<1>4. Balance'
  BY <1>1, <1>2, <1>3, Fields, OrderedType DEF SupplyInv, TypeInv, Balance
<1> QED
  BY <1>1, <1>4, FloorWithStock DEF SupplyInv

\* The other steps of requests and pages.
LEMMA SupplyOthers ==
  ASSUME SupplyInv, TypeInv',
         \/ \E p \in Pages : \/ Browse(p) \/ LoadProduct(p) \/ QueueDone(p) \/ ProceedToConfirm(p) \/ Expire(p) \/ Leave(p)
                             \/ Pay(p) \/ PageTakesAnswer(p)
         \/ \E r \in Requests : \/ CreateCheck(r) \/ FindOrder(r) \/ CompleteOrder(r) \/ FailOrder(r)
                                \/ RequestDies(r) \/ ConnectionLost(r) \/ Forgotten(r)
         \/ \E o \in OrderIds : CancelOrder(o)
  PROVE  SupplyInv'
<1> DEFINE Untouched == UNCHANGED <<product, form, supplied, revived>> /\ Placed' = Placed /\ Writing' \subseteq Writing
<1>1. req \in [Requests -> RequestRows]
  BY Parts DEF SupplyInv, TypeInv
<1>2. ASSUME NEW p \in Pages, Browse(p) \/ LoadProduct(p) \/ QueueDone(p) \/ ProceedToConfirm(p) \/ Expire(p) \/ Leave(p)
      PROVE  Untouched
  BY <1>2 DEF Browse, LoadProduct, QueueDone, ProceedToConfirm, Expire, Leave, UnchangedShop, UnchangedSeller, Placed, Writing
<1>3. ASSUME NEW r \in Requests, NEW row, req' = [req EXCEPT ![r] = row], row.at # "write"
      PROVE  Writing' \subseteq Writing
  BY <1>1, <1>3 DEF Writing
<1>4. ASSUME NEW r \in Requests, NEW at, Answer(r, at), at # "write"
      PROVE  Writing' \subseteq Writing
  BY <1>1, <1>4 DEF Writing, Answer, RequestRows
<1>5. ASSUME NEW p \in Pages, Pay(p)
      PROVE  Untouched
  <2> DEFINE row == [IdleRequest EXCEPT !.at = "check", !.page = p, !.waited = TRUE]
  <2>1. row.at = "check" /\ FreeRequest \in Requests /\ req' = [req EXCEPT ![FreeRequest] = row]
    BY <1>5, FreeRequestIsFree, IdleIsRow DEF Pay, RequestRows
  <2>2. UNCHANGED <<product, orders, form, supplied, revived>>
    BY <1>5 DEF Pay, UnchangedShop, UnchangedSeller
  <2> HIDE DEF row
  <2> QED
    BY <1>3, <2>1, <2>2 DEF Placed
<1>6. ASSUME NEW p \in Pages, PageTakesAnswer(p)
      PROVE  Untouched
  <2>1. PICK r \in Requests : PayCreated(p, r) \/ PayCompleted(p, r) \/ PayRefused(p, r)
    BY <1>6 DEF PageTakesAnswer
  <2>2. UNCHANGED <<product, orders, form, supplied, revived>>
    BY <2>1 DEF PayCreated, PayCompleted, PayRefused, UnchangedShop, UnchangedSeller
  <2>3. Answer(r, "find") \/ req' = [req EXCEPT ![r] = IdleRequest]
    BY <2>1 DEF PayCreated, PayCompleted, PayRefused, Answer
  <2> QED
    BY <1>3, <1>4, <2>2, <2>3, IdleIsRow DEF Placed
<1>7. ASSUME NEW r \in Requests, CreateCheck(r) \/ FindOrder(r) \/ CompleteOrder(r) \/ FailOrder(r)
      PROVE  Untouched
  <2>1. UNCHANGED <<product, form, supplied, revived>>
    BY <1>7 DEF CreateCheck, FindOrder, CompleteOrder, FailOrder, UnchangedShop, UnchangedClient
  <2>2. Placed' = Placed
    <3>1. CASE CreateCheck(r) \/ FindOrder(r)
      BY <3>1 DEF CreateCheck, FindOrder, UnchangedShop, Placed
    <3>2. CASE CompleteOrder(r) \/ FailOrder(r)
      <4>1. req[r].order \in Placed
        BY <3>2 DEF CompleteOrder, FailOrder, SupplyInv, TypeInv, Linked
      <4> QED
        BY <3>2, <4>1, StatusKept DEF CompleteOrder, FailOrder, OrderStatuses, SupplyInv
    <3> QED
      BY <1>7, <3>1, <3>2
  <2>3. \/ \E at \in {"sold_out", "error", "read", "fail", "update", "completed"} : Answer(r, at)
        \/ req' = [req EXCEPT ![r] = IdleRequest]
    BY <1>7 DEF CreateCheck, FindOrder, CompleteOrder, FailOrder
  <2> QED
    BY <1>3, <1>4, <2>1, <2>2, <2>3, IdleIsRow
<1>8. ASSUME NEW r \in Requests, RequestDies(r) \/ ConnectionLost(r) \/ Forgotten(r)
      PROVE  Untouched
  <2>1. UNCHANGED <<product, orders, form, supplied, revived>>
    BY <1>8 DEF RequestDies, ConnectionLost, Forgotten, UnchangedShop, UnchangedSeller
  <2>2. \/ Answer(r, "error") \/ req' = [req EXCEPT ![r] = IdleRequest]
        \/ req' = [req EXCEPT ![r].waited = FALSE]
    BY <1>8 DEF RequestDies, ConnectionLost, Forgotten
  <2>3. req' = [req EXCEPT ![r].waited = FALSE] => Writing' \subseteq Writing
    BY <1>1 DEF Writing, RequestRows
  <2> QED
    BY <1>3, <1>4, <2>1, <2>2, <2>3, IdleIsRow DEF Placed
<1>9. ASSUME NEW o \in OrderIds, CancelOrder(o)
      PROVE  Untouched
  <2> DEFINE row == [IdleRequest EXCEPT !.at = "find_to_fail", !.order = o]
  <2>1. row.at = "find_to_fail" /\ FreeRequest \in Requests /\ req' = [req EXCEPT ![FreeRequest] = row]
    BY <1>9, FreeRequestIsFree, IdleIsRow DEF CancelOrder, RequestRows
  <2>2. UNCHANGED <<product, orders, form, supplied, revived>>
    BY <1>9 DEF CancelOrder, UnchangedShop, UnchangedSeller
  <2> HIDE DEF row
  <2> QED
    BY <1>3, <2>1, <2>2 DEF Placed
<1>10. Untouched
  BY <1>2, <1>5, <1>6, <1>7, <1>8, <1>9
<1> QED
  BY <1>10, SupplyKept DEF Ordered

LEMMA SupplyStutter == ASSUME SupplyInv, TypeInv', UNCHANGED vars PROVE SupplyInv'
<1>1. UNCHANGED <<product, orders, req, form, supplied, revived>>
  BY DEF vars
<1>2. Ordered' = Ordered /\ Writing' = Writing
  BY <1>1 DEF Ordered, Placed, Writing
<1> QED
  BY <1>1, <1>2, SupplyKept

LEMMA SupplyNext == ASSUME SupplyInv, [Next]_vars PROVE SupplyInv'
<1>1. TypeInv'
  BY TypeNext DEF SupplyInv
<1> QED
  BY <1>1, SupplyOthers, SupplyTxRead, SupplyTxCommit, SupplySeller, SupplySubmit, SupplyUpdateProduct, SupplyStutter DEF Next, Server

\* The shop never sells more than the seller offered, and stale forms offered again, and one
\* unit for every request beside the first (order.repository.ts:41-60).
THEOREM OversellBounded == Spec => []SoldWithinSupply
<1>1. SupplyInv => SoldWithinSupply
  BY Counts, OrderedType, Fields DEF SupplyInv, TypeInv, Balance, Floor, SoldWithinSupply
<1> QED
  BY <1>1, SupplyInit, SupplyNext, PTL DEF Spec

-----------------------------------------------------------------------------
(* What one page pays for.                                                 *)

\* Before the confirm screen; and where a page may still be about to pay.
Early == {"away", "browse", "queue", "select_address"}
Shopping(p) == page[p].stage \in Early \/ (page[p].stage = "confirm" /\ ~page[p].paying)

\* From the order's creation to the answer that it is completed, a request has it in hand.
Unpaid  == {"created", "find", "update"}
Holding == Unpaid \cup {"completed"}

\* A page waits for one request at most, and has its button disabled or is gone meanwhile. Only
\* a fault makes it stop waiting early.
WaitInv ==
  /\ \A p \in Pages, r1, r2 \in Requests : WaitsFor(p, r1) /\ WaitsFor(p, r2) => r1 = r2
  /\ \A p \in Pages, r \in Requests : WaitsFor(p, r) => page[p].paying \/ page[p] = LeftPage
  /\ \A p \in Pages : page[p].stage \in Early => ~page[p].paying
  /\ \A r \in Requests : req[r].page \in Pages \ disturbed => req[r].waited

\* The order in the hand of a request is of its page, and in no other's hand.
HoldInv ==
  /\ \A r \in Requests : req[r].at \in Holding => orders[req[r].order].page = req[r].page
  /\ \A r1, r2 \in Requests :
       r1 # r2 /\ req[r1].at \in Holding /\ req[r2].at \in Holding => req[r1].order # req[r2].order

\* Nobody but the request that has it in hand completes an order, and nobody fails one but
\* whom somebody asked to.
StatusInv ==
  /\ \A r \in Requests : req[r].at \in Unpaid => orders[req[r].order].status # "COMPLETED"
  /\ \A r \in Requests : req[r].at = "completed" =>
       orders[req[r].order].status = "COMPLETED" \/ req[r].order \in cancelled
  /\ \A r \in Requests : req[r].at \in {"find_to_fail", "fail"} => req[r].order \in cancelled
  /\ \A o \in Placed : orders[o].status = "FAILED" => o \in cancelled

\* A page that may still pay has no order, and one that waits has at most the one in hand.
OnceInv == \A p \in Pages \ disturbed :
  /\ Shopping(p) => OrdersOf(p) \subseteq cancelled
  /\ \A r \in Requests : WaitsFor(p, r) =>
       \A o \in OrdersOf(p) \ cancelled : req[r].at \in Holding /\ o = req[r].order
  /\ \A o1, o2 \in OrdersOf(p) \ cancelled : o1 = o2

PayInv == TypeInv /\ WaitInv /\ HoldInv /\ StatusInv /\ OnceInv /\ PendingOnlyByFault /\ ShownIsPaid

LEMMA PayFacts ==
  ASSUME TypeInv
  PROVE  /\ req \in [Requests -> RequestRows] /\ page \in [Pages -> PageRows]
         /\ orders \in [OrderIds -> OrderRows \cup {NoOrder}] /\ Placed \subseteq OrderIds
         /\ \A o \in Placed : orders[o] \in OrderRows
         /\ \A p \in Pages : OrdersOf(p) \subseteq Placed
<1>1. Placed \subseteq OrderIds /\ \A p \in Pages : OrdersOf(p) \subseteq Placed
  BY DEF Placed, OrdersOf
<1>2. orders \in [OrderIds -> OrderRows \cup {NoOrder}]
  BY Parts DEF TypeInv
<1>3. \A o \in Placed : orders[o] \in OrderRows
  BY <1>1, <1>2 DEF Placed
<1> QED
  BY <1>1, <1>2, <1>3, Parts DEF TypeInv

LEMMA RowSet ==
  ASSUME TypeInv, NEW r \in Requests, NEW row, req' = [req EXCEPT ![r] = row]
  PROVE  req'[r] = row /\ \A x \in Requests \ {r} : req'[x] = req[x]
  BY PayFacts

LEMMA AnswerSet ==
  ASSUME TypeInv, NEW r \in Requests, NEW at, Answer(r, at)
  PROVE  /\ req'[r].at = at /\ req'[r].waited = req[r].waited
         /\ req'[r].page = req[r].page /\ req'[r].order = req[r].order
         /\ \A x \in Requests \ {r} : req'[x] = req[x]
  BY PayFacts DEF Answer, RequestRows

\* What the pages, the orders and those who were disturbed or asked to fail have to do with a step.
SameOrders == UNCHANGED orders /\ cancelled \subseteq cancelled' /\ disturbed \subseteq disturbed'

LEMMA SameOrdersFacts ==
  ASSUME SameOrders
  PROVE  Placed' = Placed /\ \A p : OrdersOf(p)' = OrdersOf(p)
  BY DEF SameOrders, Placed, OrdersOf

LEMMA PayInit == Init => PayInv
<1> SUFFICES ASSUME Init PROVE PayInv
  OBVIOUS
<1>1. /\ \A r \in Requests : req[r] = IdleRequest
      /\ \A p \in Pages : page[p] = NewPage
      /\ Placed = {}
  BY DEF Init, Placed
<1>2. \A p \in Pages : OrdersOf(p) = {}
  BY <1>1 DEF OrdersOf
<1>3. IdleRequest.page = NoPage /\ IdleRequest.at = "idle" /\ IdleRequest.waited = FALSE
  BY DEF IdleRequest
<1>4. NewPage.stage = "away" /\ NewPage.paying = FALSE
  BY DEF NewPage
<1>5. WaitInv
  BY <1>1, <1>3, <1>4, OrdersAssumption DEF WaitInv, WaitsFor
<1>6. HoldInv /\ StatusInv
  BY <1>1, <1>3 DEF HoldInv, StatusInv, Holding, Unpaid
<1>7. OnceInv
  BY <1>2 DEF OnceInv
<1>8. PendingOnlyByFault /\ ShownIsPaid
  BY <1>1, <1>4 DEF PendingOnlyByFault, ShownIsPaid
<1> QED
  BY <1>5, <1>6, <1>7, <1>8, TypeInit DEF PayInv

-----------------------------------------------------------------------------

\* A page that may still pay waits for nothing.
LEMMA EarlyWaitsForNothing ==
  ASSUME TypeInv, WaitInv, NEW p \in Pages, Shopping(p)
  PROVE  ~page[p].paying /\ \A r \in Requests : ~WaitsFor(p, r)
  BY DEF WaitInv, Shopping, LeftPage, NewPage, Early

\* What the page does by itself brings no payment about; none goes back to where it may pay.
LEMMA PayPage ==
  ASSUME PayInv, TypeInv', NEW p \in Pages,
         Browse(p) \/ LoadProduct(p) \/ QueueDone(p) \/ ProceedToConfirm(p) \/ Expire(p) \/ Leave(p)
  PROVE  PayInv'
<1> USE DEF PayInv
<1>1. UNCHANGED <<req, orders, cancelled, disturbed>>
  BY DEF Browse, LoadProduct, QueueDone, ProceedToConfirm, Expire, Leave, UnchangedShop, UnchangedFaults
<1>2. page \in [Pages -> PageRows] /\ \A q \in Pages \ {p} : page'[q] = page[q]
  BY PayFacts DEF Browse, LoadProduct, QueueDone, ProceedToConfirm, Expire, Leave, PageRows
<1>3. \/ /\ page[p].stage \in Early /\ ~page'[p].paying
         /\ page'[p].stage \in Early \cup {"confirm", "sold_out", "left"}
      \/ page'[p].stage = "sold_out" /\ page'[p].paying = page[p].paying /\ page[p] # LeftPage
      \/ page'[p] = LeftPage
  <2>1. CASE Browse(p) \/ LoadProduct(p)
    BY <1>2, <2>1 DEF Browse, LoadProduct, BuyOffered, WaitInv, Early, PageRows
  <2>2. CASE QueueDone(p)
    BY <1>2, <2>2 DEF QueueDone, QueueScreen, LeftPage, NewPage, Early, PageRows
  <2>3. CASE ProceedToConfirm(p)
    BY <1>2, <2>3 DEF ProceedToConfirm, AddressScreen, WaitInv, Early, PageRows
  <2>4. CASE Expire(p)
    BY <1>2, <2>4 DEF Expire, ConfirmScreen, LeftPage, NewPage, PageRows
  <2>5. CASE Leave(p)
    BY <1>2, <2>5 DEF Leave
  <2> QED
    BY <2>1, <2>2, <2>3, <2>4, <2>5
<1>4. Shopping(p)' => Shopping(p)
  BY <1>3 DEF Shopping, Early, LeftPage, NewPage
<1>5. \A q \in Pages : Shopping(q)' => Shopping(q)
  BY <1>2, <1>4 DEF Shopping
<1>6. /\ \A q \in Pages, r \in Requests : WaitsFor(q, r)' <=> WaitsFor(q, r)
      /\ Placed' = Placed /\ \A q \in Pages : OrdersOf(q)' = OrdersOf(q)
      /\ \A o \in OrderIds : BeingPaid(o)' <=> BeingPaid(o)
  BY <1>1 DEF WaitsFor, Placed, OrdersOf, BeingPaid
<1>7. WaitInv'
  <2>1. \A r \in Requests : WaitsFor(p, r)' => page'[p].paying \/ page'[p] = LeftPage
    <3>1. \A r \in Requests : WaitsFor(p, r) => ~Shopping(p) /\ (page[p].paying \/ page[p] = LeftPage)
      BY EarlyWaitsForNothing DEF WaitInv
    <3> QED
      BY <1>3, <1>6, <3>1 DEF Shopping
  <2>2. page'[p].stage \in Early => ~page'[p].paying
    BY <1>3 DEF Early, LeftPage, NewPage
  <2>3. \A q \in Pages, r \in Requests : WaitsFor(q, r)' => page'[q].paying \/ page'[q] = LeftPage
    BY <1>2, <1>6, <2>1 DEF WaitInv
  <2>4. \A q \in Pages : page'[q].stage \in Early => ~page'[q].paying
    BY <1>2, <2>2 DEF WaitInv
  <2> QED
    BY <1>1, <1>6, <2>3, <2>4 DEF WaitInv
<1>8. HoldInv' /\ StatusInv'
  BY <1>1, <1>6 DEF HoldInv, StatusInv
<1>9. OnceInv'
  BY <1>1, <1>5, <1>6 DEF OnceInv
<1>10. PendingOnlyByFault'
  BY <1>1, <1>6, PayFacts DEF PendingOnlyByFault
<1>11. ShownIsPaid'
  <2>1. page'[p].stage # "success"
    BY <1>3 DEF Early, LeftPage, NewPage
  <2> QED
    BY <1>1, <1>2, <1>6, <2>1 DEF ShownIsPaid
<1> QED
  BY <1>7, <1>8, <1>9, <1>10, <1>11

\* The steps of the seller touch neither orders nor pages.
LEMMA PayUntouched ==
  ASSUME PayInv, TypeInv', UNCHANGED <<req, page, orders, cancelled, disturbed>>
  PROVE  PayInv'
<1>1. WaitInv' /\ HoldInv' /\ StatusInv'
  BY DEF PayInv, WaitInv, HoldInv, StatusInv, WaitsFor, Placed
<1>2. OnceInv'
  BY DEF PayInv, OnceInv, Shopping, WaitsFor, OrdersOf, Placed
<1>3. PendingOnlyByFault' /\ ShownIsPaid'
  BY DEF PayInv, PendingOnlyByFault, ShownIsPaid, BeingPaid, OrdersOf, Placed
<1> QED
  BY <1>1, <1>2, <1>3 DEF PayInv

\* A request goes on to somewhere else, for the same page and with the same order in hand.
GoesOn(r, at) ==
  /\ req'[r].at = at /\ req'[r].waited = req[r].waited
  /\ req'[r].page = req[r].page /\ req'[r].order = req[r].order
  /\ \A x \in Requests \ {r} : req'[x] = req[x]
  /\ UNCHANGED <<orders, page, cancelled>> /\ disturbed \subseteq disturbed'

\* It takes up no order, and lets none go but one that is not pending, and none that was not failed
\* -- unless a fault has hit it.
LEMMA PayGoesOn ==
  ASSUME PayInv, TypeInv', NEW r \in Requests, NEW at, GoesOn(r, at), at # "completed",
         at \in Unpaid => req[r].at \in Unpaid,
         at \in {"find_to_fail", "fail"} => req[r].at \in {"find_to_fail", "fail"},
         req[r].at \in Unpaid /\ at \notin Unpaid =>
           \/ req[r].page \in disturbed'
           \/ orders[req[r].order].status # "PENDING" /\ req[r].order \in cancelled,
         req[r].at # "completed"
  PROVE  PayInv'
<1> USE DEF PayInv, GoesOn
<1>1. /\ \A q \in Pages, x \in Requests : WaitsFor(q, x)' <=> WaitsFor(q, x)
      /\ Placed' = Placed /\ \A q \in Pages : OrdersOf(q)' = OrdersOf(q)
      /\ \A q \in Pages : Shopping(q)' <=> Shopping(q)
  BY DEF WaitsFor, Placed, OrdersOf, Shopping
<1>2. WaitInv'
  BY <1>1 DEF WaitInv
<1>3. HoldInv'
  <2>1. \A x \in Requests : req'[x].at \in Holding =>
          req[x].at \in Holding /\ req'[x].order = req[x].order /\ req'[x].page = req[x].page
    BY DEF Holding
  <2> QED
    BY <2>1 DEF HoldInv
<1>4. StatusInv'
  <2>1. \A x \in Requests : /\ req'[x].order = req[x].order
                            /\ req'[x].at \in Unpaid => req[x].at \in Unpaid
                            /\ req'[x].at = "completed" => req[x].at = "completed"
                            /\ req'[x].at \in {"find_to_fail", "fail"} => req[x].at \in {"find_to_fail", "fail"}
    OBVIOUS
  <2> QED
    BY <1>1, <2>1 DEF StatusInv
<1>5. OnceInv'
  <2> SUFFICES ASSUME NEW q \in Pages \ disturbed', NEW x \in Requests, WaitsFor(q, x),
                      NEW o \in OrdersOf(q) \ cancelled
               PROVE  req'[x].at \in Holding /\ o = req'[x].order
    BY <1>1 DEF OnceInv
  <2>1. req[x].at \in Holding /\ o = req[x].order /\ q \notin disturbed
    BY DEF OnceInv
  <2>2. CASE x = r
    <3>1. req[r].at \in Unpaid /\ req[r].page = q
      BY <2>1, <2>2 DEF Holding, WaitsFor
    <3>2. at \in Unpaid
      BY <2>1, <2>2, <3>1
    <3> QED
      BY <2>1, <2>2, <3>2 DEF Holding
  <2>3. CASE x # r
    BY <2>1, <2>3
  <2> QED
    BY <2>2, <2>3
<1>6. PendingOnlyByFault'
  <2> SUFFICES ASSUME NEW o \in Placed, orders[o].status = "PENDING", orders[o].page \notin disturbed'
               PROVE  BeingPaid(o)'
    BY <1>1 DEF PendingOnlyByFault
  <2>1. PICK x \in Requests : req[x].order = o /\ req[x].waited /\ req[x].at \in Unpaid
    BY DEF PendingOnlyByFault, BeingPaid, Unpaid
  <2>2. orders[o].page = req[x].page
    BY <2>1 DEF HoldInv, Holding
  <2>3. req'[x].order = o /\ req'[x].waited /\ req'[x].at \in Unpaid
    <3>1. CASE x = r
      <4>1. at \in Unpaid
        BY <2>1, <2>2, <3>1
      <4> QED
        BY <2>1, <3>1, <4>1
    <3>2. CASE x # r
      BY <2>1, <3>2
    <3> QED
      BY <3>1, <3>2
  <2> QED
    BY <2>3 DEF BeingPaid, Unpaid
<1>7. ShownIsPaid'
  BY <1>1 DEF ShownIsPaid
<1> QED
  BY <1>2, <1>3, <1>4, <1>5, <1>6, <1>7

LEMMA AnswerGoesOn ==
  ASSUME TypeInv, NEW r \in Requests, NEW at, Answer(r, at),
         UNCHANGED <<orders, page, cancelled>>, disturbed \subseteq disturbed'
  PROVE  GoesOn(r, at)
  BY AnswerSet DEF GoesOn

\* What the server does before it writes, and the page's next request.
LEMMA PayReads ==
  ASSUME PayInv, TypeInv', NEW r \in Requests,
         CreateCheck(r) \/ TxRead(r) \/ FindOrder(r) \/ (\E p \in Pages : PayCreated(p, r))
  PROVE  PayInv'
<1>1. UNCHANGED <<orders, page, cancelled, disturbed>>
  BY DEF CreateCheck, TxRead, FindOrder, PayCreated, UnchangedShop, UnchangedClient, UnchangedFaults
<1>2. TypeInv
  BY DEF PayInv
<1>3. CASE CreateCheck(r)
  <2>1. PICK at \in {"sold_out", "error", "read"} : Answer(r, at)
    BY <1>3 DEF CreateCheck
  <2>2. req[r].at = "check"
    BY <1>3 DEF CreateCheck
  <2> QED
    BY <1>1, <1>2, <2>1, <2>2, AnswerGoesOn, PayGoesOn DEF Unpaid
<1>4. CASE TxRead(r)
  <2>1. req[r].at = "read"
    BY <1>4 DEF TxRead
  <2>2. CASE Answer(r, "sold_out")
    BY <1>1, <1>2, <2>1, <2>2, AnswerGoesOn, PayGoesOn DEF Unpaid
  <2>3. CASE req' = [req EXCEPT ![r].at = "write", ![r].seen = product.stock]
    <3>1. GoesOn(r, "write")
      BY <1>1, <1>2, <2>3, PayFacts DEF GoesOn, RequestRows
    <3> QED
      BY <2>1, <3>1, PayGoesOn DEF Unpaid
  <2> QED
    BY <1>4, <2>2, <2>3 DEF TxRead
<1>5. CASE FindOrder(r)
  <2>1. CASE req[r].at = "find_to_fail"
    <3>1. Answer(r, "fail")
      BY <1>5, <2>1 DEF FindOrder
    <3> QED
      BY <1>1, <1>2, <2>1, <3>1, AnswerGoesOn, PayGoesOn DEF Unpaid
  <2>2. CASE req[r].at = "find" /\ orders[req[r].order].status = "PENDING"
    <3>1. Answer(r, "update")
      BY <1>5, <2>2 DEF FindOrder
    <3> QED
      BY <1>1, <1>2, <2>2, <3>1, AnswerGoesOn, PayGoesOn DEF Unpaid
  <2>3. CASE req[r].at = "find" /\ orders[req[r].order].status # "PENDING"
    <3>1. Answer(r, "error")
      BY <1>5, <2>3 DEF FindOrder
    <3>2. req[r].order \in Placed /\ orders[req[r].order] \in OrderRows
      BY <1>2, <2>3, PayFacts DEF TypeInv, Linked
    <3>3. orders[req[r].order].status = "FAILED"
      BY <2>3, <3>2 DEF OrderRows, OrderStatuses, PayInv, StatusInv, Unpaid
    <3>4. req[r].order \in cancelled
      BY <3>2, <3>3 DEF PayInv, StatusInv
    <3> QED
      BY <1>1, <1>2, <2>3, <3>1, <3>4, AnswerGoesOn, PayGoesOn DEF Unpaid
  <2> QED
    BY <1>5, <2>1, <2>2, <2>3 DEF FindOrder
<1>6. CASE \E p \in Pages : PayCreated(p, r)
  <2>1. Answer(r, "find") /\ req[r].at = "created"
    BY <1>6 DEF PayCreated, Answer
  <2> QED
    BY <1>1, <1>2, <2>1, AnswerGoesOn, PayGoesOn DEF Unpaid
<1> QED
  BY <1>3, <1>4, <1>5, <1>6

\* A request that dies has disturbed its page.
LEMMA PayDies ==
  ASSUME PayInv, TypeInv', NEW r \in Requests, RequestDies(r)
  PROVE  PayInv'
<1>1. /\ Answer(r, "error") /\ UNCHANGED <<orders, page, cancelled>>
      /\ disturbed \subseteq disturbed' /\ req[r].page \in disturbed' /\ req[r].at \in Working
  BY DEF RequestDies, Disturb, UnchangedShop
<1> QED
  BY <1>1, AnswerGoesOn, PayGoesOn DEF PayInv, Unpaid, Working

-----------------------------------------------------------------------------

\* The page that pays had no order before, and waited for nothing.
LEMMA PayPay == ASSUME PayInv, TypeInv', NEW p \in Pages, Pay(p) PROVE PayInv'
<1> USE DEF PayInv
<1> DEFINE f == FreeRequest
           row == [IdleRequest EXCEPT !.at = "check", !.page = p, !.waited = TRUE]
<1>1. /\ UNCHANGED <<orders, disturbed, cancelled>>
      /\ f \in Requests /\ req[f] = IdleRequest /\ req' = [req EXCEPT ![f] = row]
      /\ Shopping(p) /\ page' = [page EXCEPT ![p].paying = TRUE]
  BY FreeRequestIsFree DEF Pay, PayEnabled, ConfirmScreen, Shopping, UnchangedShop, UnchangedFaults
<1>2. row.at = "check" /\ row.page = p /\ row.waited = TRUE /\ row.order = NoOrder
  BY DEF IdleRequest
<1>3. /\ page'[p].paying = TRUE /\ page'[p].stage = page[p].stage
      /\ \A q \in Pages \ {p} : page'[q] = page[q]
      /\ page[p].stage = "confirm"
  BY <1>1, PayFacts DEF PageRows, Pay, PayEnabled, ConfirmScreen
<1> HIDE DEF f, row
<1>4. req'[f] = row /\ \A x \in Requests \ {f} : req'[x] = req[x]
  BY <1>1, RowSet
<1>5. IdleRequest.at = "idle" /\ IdleRequest.page = NoPage /\ IdleRequest.waited = FALSE
  BY DEF IdleRequest
<1>6. ~page[p].paying /\ \A x \in Requests : ~WaitsFor(p, x)
  BY <1>1, EarlyWaitsForNothing
<1>7. /\ \A q \in Pages, x \in Requests : WaitsFor(q, x)' <=> WaitsFor(q, x) \/ (q = p /\ x = f)
      /\ Placed' = Placed /\ \A q \in Pages : OrdersOf(q)' = OrdersOf(q)
      /\ \A q \in Pages : Shopping(q)' => Shopping(q) /\ q # p
  <2>1. \A q \in Pages, x \in Requests : WaitsFor(q, x)' <=> WaitsFor(q, x) \/ (q = p /\ x = f)
    BY <1>1, <1>2, <1>4, <1>5 DEF WaitsFor
  <2>2. \A q \in Pages : Shopping(q)' => Shopping(q) /\ q # p
    BY <1>3 DEF Shopping, Early
  <2> QED
    BY <1>1, <2>1, <2>2 DEF Placed, OrdersOf
<1>8. WaitInv'
  <2>1. \A q \in Pages : page'[q].stage \in Early => ~page'[q].paying
    BY <1>3 DEF WaitInv, Early
  <2>2. \A x \in Requests : req'[x].page \in Pages \ disturbed' => req'[x].waited
    BY <1>1, <1>2, <1>4 DEF WaitInv
  <2>3. \A q \in Pages, x \in Requests : WaitsFor(q, x)' => page'[q].paying \/ page'[q] = LeftPage
    BY <1>3, <1>7 DEF WaitInv
  <2>4. \A q \in Pages, x, y \in Requests : WaitsFor(q, x)' /\ WaitsFor(q, y)' => x = y
    BY <1>6, <1>7 DEF WaitInv
  <2> QED
    BY <2>1, <2>2, <2>3, <2>4 DEF WaitInv
<1>9. HoldInv'
  BY <1>1, <1>2, <1>4 DEF HoldInv, Holding, Unpaid
<1>10. StatusInv'
  BY <1>1, <1>2, <1>4, <1>7 DEF StatusInv, Unpaid
<1>11. OnceInv'
  <2> SUFFICES ASSUME NEW q \in Pages \ disturbed
               PROVE  /\ Shopping(q)' => OrdersOf(q) \subseteq cancelled
                      /\ \A x \in Requests : WaitsFor(q, x)' =>
                           \A o \in OrdersOf(q) \ cancelled : req'[x].at \in Holding /\ o = req'[x].order
                      /\ \A o1, o2 \in OrdersOf(q) \ cancelled : o1 = o2
    BY <1>1, <1>7 DEF OnceInv
  <2>1. ASSUME NEW x \in Requests, WaitsFor(q, x)', NEW o \in OrdersOf(q) \ cancelled
        PROVE  req'[x].at \in Holding /\ o = req'[x].order
    <3>1. CASE q = p
      BY <1>1, <2>1, <3>1 DEF OnceInv
    <3>2. CASE q # p
      <4>1. WaitsFor(q, x) /\ x # f
        BY <1>1, <1>5, <1>7, <2>1, <3>2, OrdersAssumption DEF WaitsFor
      <4> QED
        BY <1>4, <2>1, <4>1 DEF OnceInv
    <3> QED
      BY <3>1, <3>2
  <2> QED
    BY <1>7, <2>1 DEF OnceInv
<1>12. PendingOnlyByFault'
  <2>1. \A o : BeingPaid(o) => BeingPaid(o)'
    BY <1>1, <1>4, <1>5 DEF BeingPaid
  <2> QED
    BY <1>1, <1>7, <2>1 DEF PendingOnlyByFault
<1>13. ShownIsPaid'
  <2>1. \A q \in Pages : page'[q].stage = "success" => q # p /\ page'[q] = page[q]
    BY <1>3
  <2> QED
    BY <1>1, <1>7, <2>1 DEF ShownIsPaid
<1> QED
  BY <1>8, <1>9, <1>10, <1>11, <1>12, <1>13

\* A request to fail an order is nobody's payment.
LEMMA PayCancelOrder == ASSUME PayInv, TypeInv', NEW o \in OrderIds, CancelOrder(o) PROVE PayInv'
<1> USE DEF PayInv
<1> DEFINE f == FreeRequest
           row == [IdleRequest EXCEPT !.at = "find_to_fail", !.order = o]
<1>1. /\ UNCHANGED <<orders, page, disturbed>> /\ cancelled' = cancelled \cup {o}
      /\ f \in Requests /\ req[f] = IdleRequest /\ req' = [req EXCEPT ![f] = row]
  BY FreeRequestIsFree DEF CancelOrder, UnchangedShop
<1>2. row.at = "find_to_fail" /\ row.page = NoPage /\ row.waited = FALSE /\ row.order = o
  BY DEF IdleRequest
<1> HIDE DEF f, row
<1>3. req'[f] = row /\ \A x \in Requests \ {f} : req'[x] = req[x]
  BY <1>1, RowSet
<1>4. IdleRequest.at = "idle" /\ IdleRequest.page = NoPage /\ IdleRequest.waited = FALSE
  BY DEF IdleRequest
<1>5. /\ \A q \in Pages, x \in Requests : WaitsFor(q, x)' <=> WaitsFor(q, x) /\ x # f
      /\ Placed' = Placed /\ \A q \in Pages : OrdersOf(q)' = OrdersOf(q)
      /\ \A q \in Pages : Shopping(q)' <=> Shopping(q)
  BY <1>1, <1>2, <1>3, <1>4, OrdersAssumption DEF WaitsFor, Placed, OrdersOf, Shopping
<1>6. WaitInv'
  <2>1. \A x \in Requests : req'[x].page \in Pages \ disturbed' => req'[x].waited
    BY <1>1, <1>2, <1>3, OrdersAssumption DEF WaitInv
  <2> QED
    BY <1>1, <1>5, <2>1 DEF WaitInv
<1>7. HoldInv'
  BY <1>1, <1>2, <1>3 DEF HoldInv, Holding, Unpaid
<1>8. StatusInv'
  BY <1>1, <1>2, <1>3, <1>5 DEF StatusInv, Unpaid
<1>9. OnceInv'
  BY <1>1, <1>3, <1>5 DEF OnceInv
<1>10. PendingOnlyByFault'
  <2>1. \A z : BeingPaid(z) => BeingPaid(z)'
    BY <1>1, <1>3, <1>4 DEF BeingPaid
  <2> QED
    BY <1>1, <1>5, <2>1 DEF PendingOnlyByFault
<1>11. ShownIsPaid'
  BY <1>1, <1>5 DEF ShownIsPaid
<1> QED
  BY <1>6, <1>7, <1>8, <1>9, <1>10, <1>11

-----------------------------------------------------------------------------

\* The order that a transaction commits is the first of its page that counts.
LEMMA PayTxCommit == ASSUME PayInv, TypeInv', NEW r \in Requests, TxCommit(r) PROVE PayInv'
<1> USE DEF PayInv
<1> DEFINE p == req[r].page
<1>1. PICK new \in OrderIds \ Placed :
      /\ new = FreshOrder
      /\ UNCHANGED <<page, disturbed, cancelled>>
      /\ Placed' = Placed \cup {new}
      /\ orders' = [orders EXCEPT ![new] = [page |-> p, status |-> "PENDING"]]
      /\ req[r].at = "write" /\ p \in Pages
  BY TxCommitPlaces DEF TxCommit, UnchangedClient, TypeInv, Linked
<1>2. /\ req'[r].at = "created" /\ req'[r].order = new
      /\ req'[r].page = p /\ req'[r].waited = req[r].waited
      /\ \A x \in Requests \ {r} : req'[x] = req[x]
  BY <1>1, PayFacts DEF TxCommit, RequestRows
<1>3. /\ orders'[new] = [page |-> p, status |-> "PENDING"]
      /\ \A o \in Placed : orders'[o] = orders[o] /\ o # new
  BY <1>1, PayFacts
<1>4. /\ \A q \in Pages : OrdersOf(q)' = IF q = p THEN OrdersOf(q) \cup {new} ELSE OrdersOf(q)
      /\ \A q \in Pages, x \in Requests : WaitsFor(q, x)' <=> WaitsFor(q, x)
      /\ \A q \in Pages : Shopping(q)' <=> Shopping(q)
  <2>1. \A q \in Pages : OrdersOf(q)' = IF q = p THEN OrdersOf(q) \cup {new} ELSE OrdersOf(q)
    BY <1>1, <1>3 DEF OrdersOf
  <2> QED
    BY <1>1, <1>2, <2>1 DEF WaitsFor, Shopping
<1>5. \A x \in Requests \ {r} : req[x].at \in Holding \cup {"find_to_fail", "fail"} => req[x].order \in Placed
  BY DEF TypeInv, Linked, Holding, Unpaid
<1>6. WaitInv'
  BY <1>1, <1>2, <1>4 DEF WaitInv
<1>7. HoldInv'
  <2>1. \A x \in Requests : req'[x].at \in Holding => orders'[req'[x].order].page = req'[x].page
    BY <1>2, <1>3, <1>5 DEF HoldInv
  <2>2. \A x, y \in Requests :
          x # y /\ req'[x].at \in Holding /\ req'[y].at \in Holding => req'[x].order # req'[y].order
    BY <1>1, <1>2, <1>5 DEF HoldInv
  <2> QED
    BY <2>1, <2>2 DEF HoldInv
<1>8. StatusInv'
  <2>1. \A x \in Requests : req'[x].at \in Unpaid => orders'[req'[x].order].status # "COMPLETED"
    BY <1>2, <1>3, <1>5 DEF StatusInv, Holding
  <2>2. \A x \in Requests : req'[x].at = "completed" => req'[x].order \in cancelled \/ orders'[req'[x].order].status = "COMPLETED"
    BY <1>2, <1>3, <1>5 DEF StatusInv, Holding
  <2>3. \A x \in Requests : req'[x].at \in {"find_to_fail", "fail"} => req'[x].order \in cancelled
    BY <1>2 DEF StatusInv
  <2>4. \A o \in Placed' : orders'[o].status = "FAILED" => o \in cancelled
    BY <1>1, <1>3 DEF StatusInv
  <2> QED
    BY <1>1, <2>1, <2>2, <2>3, <2>4 DEF StatusInv
<1>9. OnceInv'
  <2>1. ASSUME p \notin disturbed
        PROVE  /\ WaitsFor(p, r) /\ OrdersOf(p) \subseteq cancelled /\ ~Shopping(p)
               /\ \A x \in Requests : WaitsFor(p, x) => x = r
    <3>1. WaitsFor(p, r)
      BY <1>1, <2>1 DEF WaitInv, WaitsFor
    <3>2. OrdersOf(p) \subseteq cancelled
      BY <1>1, <2>1, <3>1 DEF OnceInv, Holding, Unpaid
    <3> QED
      BY <1>1, <3>1, <3>2, EarlyWaitsForNothing DEF WaitInv
  <2>2. ASSUME NEW q \in Pages \ disturbed
        PROVE  /\ Shopping(q) => OrdersOf(q)' \subseteq cancelled
               /\ \A x \in Requests : WaitsFor(q, x) =>
                    \A o \in OrdersOf(q)' \ cancelled : req'[x].at \in Holding /\ o = req'[x].order
               /\ \A o1, o2 \in OrdersOf(q)' \ cancelled : o1 = o2
    <3>1. CASE q = p
      BY <1>2, <1>4, <2>1, <2>2, <3>1 DEF Holding, Unpaid
    <3>2. CASE q # p
      <4>1. \A x \in Requests : WaitsFor(q, x) => x # r
        BY <3>2 DEF WaitsFor
      <4> QED
        BY <1>2, <1>4, <2>2, <3>2, <4>1 DEF OnceInv
    <3> QED
      BY <3>1, <3>2
  <2> QED
    BY <1>1, <1>4, <2>2 DEF OnceInv
<1>10. PendingOnlyByFault'
  <2>1. BeingPaid(new)' \/ p \in disturbed
    BY <1>1, <1>2 DEF WaitInv, BeingPaid
  <2>2. \A o \in Placed : BeingPaid(o) => BeingPaid(o)'
    BY <1>1, <1>2 DEF BeingPaid
  <2>3. BeingPaid(new)' \/ orders'[new].page \in disturbed'
    BY <1>1, <1>3, <2>1
  <2>4. ASSUME NEW o \in Placed, orders'[o].status = "PENDING" PROVE BeingPaid(o)' \/ orders'[o].page \in disturbed'
    BY <1>1, <1>3, <2>2, <2>4 DEF PendingOnlyByFault
  <2> QED
    BY <1>1, <2>3, <2>4 DEF PendingOnlyByFault
<1>11. ShownIsPaid'
  <2>1. ASSUME NEW q \in Pages, page[q].stage = "success"
        PROVE  /\ page[q].order \in OrdersOf(q) /\ page[q].order \in Placed
               /\ orders[page[q].order].status = "COMPLETED" \/ page[q].order \in cancelled
    BY <2>1, PayFacts DEF ShownIsPaid
  <2> QED
    BY <1>1, <1>3, <1>4, <2>1 DEF ShownIsPaid
<1> QED
  BY <1>6, <1>7, <1>8, <1>9, <1>10, <1>11

\* Setting an order's status changes nothing else about the orders.
LEMMA StatusSet ==
  ASSUME TypeInv, NEW o \in Placed, NEW st \in OrderStatuses, orders' = [orders EXCEPT ![o].status = st]
  PROVE  /\ Placed' = Placed /\ \A p : OrdersOf(p)' = OrdersOf(p)
         /\ orders'[o].status = st /\ \A x \in Placed : orders'[x].page = orders[x].page
         /\ \A x \in Placed \ {o} : orders'[x] = orders[x]
<1>1. orders \in [OrderIds -> OrderRows \cup {NoOrder}] /\ o \in OrderIds /\ orders[o] \in OrderRows /\ Placed \subseteq OrderIds
  BY PayFacts
<1>2. Placed' = Placed
  BY StatusKept
<1>3. /\ orders'[o].status = st /\ orders'[o].page = orders[o].page
      /\ \A x \in Placed \ {o} : orders'[x] = orders[x]
  BY <1>1 DEF OrderRows
<1>4. \A x \in Placed : orders'[x].page = orders[x].page
  BY <1>3
<1>5. \A p : OrdersOf(p)' = OrdersOf(p)
  BY <1>2, <1>4 DEF OrdersOf
<1> QED
  BY <1>2, <1>3, <1>4, <1>5

\* An order is completed by the request that has it in hand, and only once.
LEMMA PayCompleteOrder == ASSUME PayInv, TypeInv', NEW r \in Requests, CompleteOrder(r) PROVE PayInv'
<1> USE DEF PayInv
<1>0. PICK o \in Placed : o = req[r].order
  BY DEF CompleteOrder, TypeInv, Linked
<1>1. /\ UNCHANGED <<page, disturbed, cancelled>>
      /\ Answer(r, "completed") /\ req[r].at = "update"
      /\ orders' = [orders EXCEPT ![o].status = "COMPLETED"]
  BY <1>0 DEF CompleteOrder, UnchangedClient
<1>2. /\ req'[r].at = "completed" /\ req'[r].waited = req[r].waited
      /\ req'[r].page = req[r].page /\ req'[r].order = o
      /\ \A x \in Requests \ {r} : req'[x] = req[x]
  BY <1>0, <1>1, AnswerSet
<1>3. /\ Placed' = Placed /\ \A p : OrdersOf(p)' = OrdersOf(p)
      /\ orders'[o].status = "COMPLETED" /\ \A x \in Placed : orders'[x].page = orders[x].page
      /\ \A x \in Placed \ {o} : orders'[x] = orders[x]
  BY <1>1, StatusSet DEF OrderStatuses
<1>4. \A x \in Requests \ {r} : req[x].at \in Holding => req[x].order \in Placed /\ req[x].order # o
  BY <1>0, <1>1 DEF HoldInv, Holding, Unpaid, TypeInv, Linked
<1>5. /\ \A q \in Pages, x \in Requests : WaitsFor(q, x)' <=> WaitsFor(q, x)
      /\ \A q \in Pages : Shopping(q)' <=> Shopping(q)
  BY <1>1, <1>2 DEF WaitsFor, Shopping
<1>6. WaitInv'
  BY <1>1, <1>2, <1>5 DEF WaitInv
<1>7. HoldInv'
  <2>1. \A x \in Requests : req'[x].at \in Holding => req[x].at \in Holding /\ req[x].order \in Placed
    BY <1>0, <1>1, <1>2, <1>4 DEF Holding, Unpaid
  <2>2. \A x \in Requests : req'[x].order = req[x].order /\ req'[x].page = req[x].page
    BY <1>0, <1>2
  <2> QED
    BY <1>3, <2>1, <2>2 DEF HoldInv
<1>8. StatusInv'
  <2>1. \A x \in Requests : req'[x].at \in Unpaid => orders'[req'[x].order].status # "COMPLETED"
    BY <1>2, <1>3, <1>4 DEF StatusInv, Holding, Unpaid
  <2>2. \A x \in Requests : req'[x].at = "completed" => orders'[req'[x].order].status = "COMPLETED" \/ req'[x].order \in cancelled
    BY <1>2, <1>3, <1>4 DEF StatusInv, Holding
  <2>3. \A x \in Requests : req'[x].at \in {"find_to_fail", "fail"} => req'[x].order \in cancelled
    BY <1>2 DEF StatusInv
  <2>4. \A x \in Placed : orders'[x].status = "FAILED" => x \in cancelled
    BY <1>3 DEF StatusInv
  <2> QED
    BY <1>1, <1>3, <2>1, <2>2, <2>3, <2>4 DEF StatusInv
<1>9. OnceInv'
  <2>1. \A x \in Requests : req[x].at \in Holding => req'[x].at \in Holding /\ req'[x].order = req[x].order
    BY <1>0, <1>2 DEF Holding
  <2> QED
    BY <1>1, <1>3, <1>5, <2>1 DEF OnceInv
<1>10. PendingOnlyByFault'
  <2>1. \A x \in Placed \ {o} : BeingPaid(x) => BeingPaid(x)'
    BY <1>0, <1>2 DEF BeingPaid
  <2> QED
    BY <1>1, <1>3, <2>1 DEF PendingOnlyByFault
<1>11. ShownIsPaid'
  BY <1>1, <1>3, PayFacts DEF ShownIsPaid
<1> QED
  BY <1>6, <1>7, <1>8, <1>9, <1>10, <1>11

\* Whatever the status of an order was, failing it is what somebody asked for.
LEMMA PayFailOrder == ASSUME PayInv, TypeInv', NEW r \in Requests, FailOrder(r) PROVE PayInv'
<1> USE DEF PayInv
<1>0. PICK o \in Placed : o = req[r].order
  BY DEF FailOrder, TypeInv, Linked
<1>1. /\ UNCHANGED <<page, disturbed, cancelled>>
      /\ req' = [req EXCEPT ![r] = IdleRequest] /\ req[r].at = "fail" /\ o \in cancelled
      /\ orders' = [orders EXCEPT ![o].status = "FAILED"]
  BY <1>0 DEF FailOrder, UnchangedClient, StatusInv
<1>2. req'[r] = IdleRequest /\ \A x \in Requests \ {r} : req'[x] = req[x]
  BY <1>1, RowSet
<1>3. /\ Placed' = Placed /\ \A p : OrdersOf(p)' = OrdersOf(p)
      /\ orders'[o].status = "FAILED" /\ \A x \in Placed : orders'[x].page = orders[x].page
      /\ \A x \in Placed \ {o} : orders'[x] = orders[x]
  BY <1>1, StatusSet DEF OrderStatuses
<1>4. IdleRequest.at = "idle" /\ IdleRequest.page = NoPage /\ IdleRequest.waited = FALSE
  BY DEF IdleRequest
<1>5. \A x \in Requests : req'[x].at # "idle" => x # r /\ req'[x] = req[x]
  BY <1>2, <1>4
<1>6. /\ \A q \in Pages, x \in Requests : WaitsFor(q, x)' => WaitsFor(q, x) /\ x # r
      /\ \A q \in Pages : Shopping(q)' <=> Shopping(q)
  BY <1>1, <1>2, <1>4, OrdersAssumption DEF WaitsFor, Shopping
<1>7. \A x \in Requests : req[x].at \in Holding => req[x].order \in Placed
  BY DEF Holding, Unpaid, TypeInv, Linked
<1>8. WaitInv'
  <2>1. \A x \in Requests : req'[x].page \in Pages \ disturbed' => req'[x].waited
    BY <1>1, <1>2, <1>4, OrdersAssumption DEF WaitInv
  <2> QED
    BY <1>1, <1>6, <2>1 DEF WaitInv
<1>9. HoldInv'
  BY <1>3, <1>5, <1>7 DEF HoldInv, Holding, Unpaid
<1>10. StatusInv'
  <2>1. \A x \in Requests : req'[x].at \in Unpaid => orders'[req'[x].order].status # "COMPLETED"
    BY <1>3, <1>5, <1>7 DEF StatusInv, Holding, Unpaid
  <2>2. \A x \in Requests : req'[x].at = "completed" => orders'[req'[x].order].status = "COMPLETED" \/ req'[x].order \in cancelled
    BY <1>1, <1>3, <1>5, <1>7 DEF StatusInv, Holding
  <2>3. \A x \in Requests : req'[x].at \in {"find_to_fail", "fail"} => req'[x].order \in cancelled
    BY <1>5 DEF StatusInv
  <2>4. \A x \in Placed : orders'[x].status = "FAILED" => x \in cancelled
    BY <1>1, <1>3 DEF StatusInv
  <2> QED
    BY <1>1, <1>3, <2>1, <2>2, <2>3, <2>4 DEF StatusInv
<1>11. OnceInv'
  BY <1>1, <1>2, <1>3, <1>6 DEF OnceInv
<1>12. PendingOnlyByFault'
  <2>1. \A x \in Placed \ {o} : BeingPaid(x) => BeingPaid(x)'
    BY <1>1, <1>2 DEF BeingPaid
  <2> QED
    BY <1>1, <1>3, <2>1 DEF PendingOnlyByFault
<1>13. ShownIsPaid'
  BY <1>1, <1>3, PayFacts DEF ShownIsPaid
<1> QED
  BY <1>8, <1>9, <1>10, <1>11, <1>12, <1>13

-----------------------------------------------------------------------------

\* What every request that is over leaves as it was.
LEMMA OverFacts ==
  ASSUME TypeInv, NEW r \in Requests, req' = [req EXCEPT ![r] = IdleRequest],
         UNCHANGED <<orders, cancelled, disturbed>>
  PROVE  /\ \A x \in Requests \ {r} : req'[x] = req[x]
         /\ req'[r].at = "idle" /\ ~req'[r].waited /\ req'[r].page \notin Pages
         /\ \A x \in Requests : req'[x].at # "idle" => x # r /\ req'[x] = req[x]
         /\ \A q \in Pages, x \in Requests : WaitsFor(q, x)' => WaitsFor(q, x) /\ x # r
         /\ Placed' = Placed /\ \A q \in Pages : OrdersOf(q)' = OrdersOf(q)
<1>1. req'[r] = IdleRequest /\ \A x \in Requests \ {r} : req'[x] = req[x]
  BY RowSet
<1>2. IdleRequest.at = "idle" /\ IdleRequest.page = NoPage /\ IdleRequest.waited = FALSE
  BY DEF IdleRequest
<1> QED
  BY <1>1, <1>2, OrdersAssumption DEF WaitsFor, Placed, OrdersOf

\* The parts of the invariant that are about requests and orders alone.
LEMMA OverKept ==
  ASSUME PayInv, NEW r \in Requests, req' = [req EXCEPT ![r] = IdleRequest],
         UNCHANGED <<orders, cancelled, disturbed>>,
         req[r].at \notin Unpaid \/ ~req[r].waited
  PROVE  HoldInv' /\ StatusInv' /\ PendingOnlyByFault'
<1> USE DEF PayInv
<1>1. /\ \A x \in Requests \ {r} : req'[x] = req[x]
      /\ \A x \in Requests : req'[x].at # "idle" => x # r /\ req'[x] = req[x]
      /\ Placed' = Placed
  BY OverFacts
<1>2. HoldInv'
  BY <1>1 DEF HoldInv, Holding, Unpaid
<1>3. StatusInv'
  BY <1>1 DEF StatusInv, Unpaid
<1>4. \A o \in Placed : BeingPaid(o) => BeingPaid(o)'
  BY <1>1 DEF BeingPaid, Unpaid
<1> QED
  BY <1>1, <1>2, <1>3, <1>4 DEF PendingOnlyByFault

\* The page that gets its answer has the order that it shows, or none.
LEMMA PayAnswered ==
  ASSUME PayInv, TypeInv', NEW p \in Pages, NEW r \in Requests, PayCompleted(p, r) \/ PayRefused(p, r)
  PROVE  PayInv'
<1> USE DEF PayInv
<1>1. /\ WaitsFor(p, r) /\ req' = [req EXCEPT ![r] = IdleRequest]
      /\ UNCHANGED <<orders, cancelled, disturbed>> /\ req[r].at \notin Unpaid
  BY DEF PayCompleted, PayRefused, UnchangedShop, UnchangedFaults, Unpaid
<1>2. HoldInv' /\ StatusInv' /\ PendingOnlyByFault'
  BY <1>1, OverKept
<1>3. /\ \A x \in Requests \ {r} : req'[x] = req[x]
      /\ req'[r].page \notin Pages
      /\ \A q \in Pages, x \in Requests : WaitsFor(q, x)' => WaitsFor(q, x) /\ x # r
      /\ Placed' = Placed /\ \A q \in Pages : OrdersOf(q)' = OrdersOf(q)
  BY <1>1, OverFacts
<1>4. page \in [Pages -> PageRows] /\ \A q \in Pages \ {p} : page'[q] = page[q]
  BY PayFacts DEF PayCompleted, PayRefused, Show
<1>5. page[p].paying \/ page[p] = LeftPage
  BY <1>1 DEF WaitInv
<1>6. \/ page[p] = LeftPage /\ page'[p] = LeftPage
      \/ page[p] # LeftPage /\ PayCompleted(p, r) /\ page'[p].stage = "success" /\ page'[p].order = req[r].order
      \/ /\ page[p] # LeftPage /\ PayRefused(p, r) /\ page'[p].stage \in {page[p].stage, "sold_out"}
         /\ page'[p].order = page[p].order /\ ~page'[p].paying
  <2>1. CASE page[p] = LeftPage
    BY <1>4, <2>1 DEF PayCompleted, PayRefused, Show
  <2>2. CASE page[p] # LeftPage /\ PayCompleted(p, r)
    <3>1. page'[p] = [NewPage EXCEPT !.stage = "success", !.order = req[r].order]
      BY <1>4, <2>2 DEF PayCompleted, Show
    <3> QED
      BY <2>2, <3>1 DEF NewPage
  <2>3. CASE page[p] # LeftPage /\ PayRefused(p, r)
    <3>1. page'[p] = [page[p] EXCEPT !.paying = FALSE, !.stage = IF req[r].at = "sold_out" THEN "sold_out" ELSE @]
      BY <1>4, <2>3 DEF PayRefused, Show
    <3>2. page[p] \in PageRows
      BY <1>4
    <3> QED
      BY <2>3, <3>1, <3>2 DEF PageRows
  <2> QED
    BY <2>1, <2>2, <2>3
<1>7. WaitInv'
  <2>1. \A q \in Pages, x \in Requests : WaitsFor(q, x)' => q # p /\ WaitsFor(q, x)
    BY <1>1, <1>3 DEF WaitInv
  <2>2. page'[p].stage \in Early => ~page'[p].paying
    BY <1>6 DEF Early, LeftPage, NewPage
  <2>3. \A q \in Pages : page'[q].stage \in Early => ~page'[q].paying
    BY <1>4, <2>2 DEF WaitInv
  <2>4. \A x \in Requests : req'[x].page \in Pages \ disturbed' => req'[x].waited
    BY <1>1, <1>3 DEF WaitInv
  <2>5. \A q \in Pages, x \in Requests : WaitsFor(q, x)' => page'[q].paying \/ page'[q] = LeftPage
    BY <1>4, <2>1 DEF WaitInv
  <2>6. \A q \in Pages, x, y \in Requests : WaitsFor(q, x)' /\ WaitsFor(q, y)' => x = y
    BY <2>1 DEF WaitInv
  <2> QED
    BY <2>3, <2>4, <2>5, <2>6 DEF WaitInv
<1>8. OnceInv'
  <2>1. ASSUME p \notin disturbed, Shopping(p)' PROVE OrdersOf(p) \subseteq cancelled
    <3>1. PayRefused(p, r)
      BY <1>6, <2>1 DEF Shopping, Early, LeftPage, NewPage
    <3>2. req[r].at \notin Holding
      BY <3>1 DEF PayRefused, Holding, Unpaid
    <3> QED
      BY <1>1, <2>1, <3>2 DEF OnceInv
  <2>2. \A q \in Pages : q # p => (Shopping(q)' <=> Shopping(q))
    BY <1>4 DEF Shopping
  <2> QED
    BY <1>1, <1>3, <2>1, <2>2 DEF OnceInv
<1>9. ShownIsPaid'
  <2>1. ASSUME page'[p].stage = "success"
        PROVE  /\ page'[p].order \in OrdersOf(p)
               /\ orders[page'[p].order].status = "COMPLETED" \/ page'[p].order \in cancelled
    <3>1. CASE PayCompleted(p, r) /\ page'[p].order = req[r].order
      <4>1. req[r].at = "completed" /\ req[r].page = p /\ req[r].order \in Placed
        BY <3>1 DEF PayCompleted, WaitsFor, TypeInv, Linked
      <4> QED
        BY <3>1, <4>1 DEF HoldInv, Holding, StatusInv, OrdersOf
    <3>2. CASE page[p].stage = "success" /\ page'[p].order = page[p].order
      BY <3>2 DEF ShownIsPaid
    <3> QED
      BY <1>6, <2>1, <3>1, <3>2 DEF LeftPage, NewPage
  <2> QED
    BY <1>1, <1>3, <1>4, <2>1 DEF ShownIsPaid
<1> QED
  BY <1>2, <1>7, <1>8, <1>9

LEMMA PayForgotten == ASSUME PayInv, TypeInv', NEW r \in Requests, Forgotten(r) PROVE PayInv'
<1> USE DEF PayInv
<1>1. /\ req' = [req EXCEPT ![r] = IdleRequest] /\ ~req[r].waited
      /\ UNCHANGED <<page, orders, cancelled, disturbed>>
  BY DEF Forgotten, UnchangedShop, UnchangedFaults
<1>2. HoldInv' /\ StatusInv' /\ PendingOnlyByFault'
  BY <1>1, OverKept
<1>3. /\ \A x \in Requests \ {r} : req'[x] = req[x]
      /\ req'[r].page \notin Pages
      /\ \A q \in Pages, x \in Requests : WaitsFor(q, x)' => WaitsFor(q, x) /\ x # r
      /\ Placed' = Placed /\ \A q \in Pages : OrdersOf(q)' = OrdersOf(q)
  BY <1>1, OverFacts
<1>4. \A q \in Pages : Shopping(q)' <=> Shopping(q)
  BY <1>1 DEF Shopping
<1>5. WaitInv'
  <2>1. \A x \in Requests : req'[x].page \in Pages \ disturbed' => req'[x].waited
    BY <1>1, <1>3 DEF WaitInv
  <2> QED
    BY <1>1, <1>3, <2>1 DEF WaitInv
<1>6. OnceInv'
  BY <1>1, <1>3, <1>4 DEF OnceInv
<1>7. ShownIsPaid'
  BY <1>1, <1>3 DEF ShownIsPaid
<1> QED
  BY <1>2, <1>5, <1>6, <1>7

\* A page whose connection is lost may pay again, and is disturbed.
LEMMA PayConnectionLost == ASSUME PayInv, TypeInv', NEW r \in Requests, ConnectionLost(r) PROVE PayInv'
<1> USE DEF PayInv
<1> DEFINE p == req[r].page
<1>1. /\ WaitsFor(p, r) /\ p \in Pages /\ disturbed' = disturbed \cup {p}
      /\ UNCHANGED <<orders, cancelled>>
      /\ req' = [req EXCEPT ![r].waited = FALSE] /\ page' = [page EXCEPT ![p].paying = FALSE]
  BY DEF ConnectionLost, Disturb, UnchangedShop, WaitsFor, TypeInv, Linked
<1>2. /\ req'[r].at = req[r].at /\ req'[r].order = req[r].order /\ req'[r].page = p /\ req'[r].waited = FALSE
      /\ \A x \in Requests \ {r} : req'[x] = req[x]
  BY <1>1, PayFacts DEF RequestRows
<1>3. /\ page'[p].paying = FALSE /\ page'[p].stage = page[p].stage /\ page'[p].order = page[p].order
      /\ \A q \in Pages \ {p} : page'[q] = page[q]
  BY <1>1, PayFacts DEF PageRows
<1>4. /\ \A q \in Pages, x \in Requests : WaitsFor(q, x)' => WaitsFor(q, x) /\ q # p /\ x # r
      /\ Placed' = Placed /\ \A q \in Pages : OrdersOf(q)' = OrdersOf(q)
      /\ \A q \in Pages : q # p => (Shopping(q)' <=> Shopping(q))
  <2>1. \A q \in Pages, x \in Requests : WaitsFor(q, x)' => WaitsFor(q, x) /\ x # r
    BY <1>2 DEF WaitsFor
  <2>2. \A x \in Requests : WaitsFor(p, x) => x = r
    BY <1>1 DEF WaitInv
  <2>3. \A q \in Pages : q # p => (Shopping(q)' <=> Shopping(q))
    BY <1>3 DEF Shopping
  <2> QED
    BY <1>1, <2>1, <2>2, <2>3 DEF Placed, OrdersOf
<1>5. WaitInv'
  <2>1. \A x \in Requests : req'[x].page \in Pages \ disturbed' => req'[x].waited
    BY <1>1, <1>2 DEF WaitInv
  <2>2. \A q \in Pages : page'[q].stage \in Early => ~page'[q].paying
    BY <1>3 DEF WaitInv
  <2>3. \A q \in Pages, x \in Requests : WaitsFor(q, x)' => page'[q].paying \/ page'[q] = LeftPage
    BY <1>3, <1>4 DEF WaitInv
  <2>4. \A q \in Pages, x, y \in Requests : WaitsFor(q, x)' /\ WaitsFor(q, y)' => x = y
    BY <1>4 DEF WaitInv
  <2> QED
    BY <2>1, <2>2, <2>3, <2>4 DEF WaitInv
<1>6. HoldInv' /\ StatusInv'
  BY <1>1, <1>2, <1>4 DEF HoldInv, StatusInv
<1>7. OnceInv'
  <2>1. \A q \in Pages \ disturbed' : q # p /\ q \notin disturbed
    BY <1>1
  <2>2. \A x \in Requests : req'[x].at = req[x].at /\ req'[x].order = req[x].order
    BY <1>2
  <2> QED
    BY <1>1, <1>4, <2>1, <2>2 DEF OnceInv
<1>8. PendingOnlyByFault'
  <2> SUFFICES ASSUME NEW o \in Placed, orders[o].status = "PENDING", orders[o].page \notin disturbed'
               PROVE  BeingPaid(o)'
    BY <1>1, <1>4 DEF PendingOnlyByFault
  <2>1. PICK x \in Requests : req[x].order = o /\ req[x].waited /\ req[x].at \in {"created", "find", "update"}
    BY <1>1 DEF PendingOnlyByFault, BeingPaid
  <2>2. orders[o].page = req[x].page
    BY <2>1 DEF HoldInv, Holding, Unpaid
  <2>3. x # r
    BY <1>1, <2>2
  <2> QED
    BY <1>2, <2>1, <2>3 DEF BeingPaid
<1>9. ShownIsPaid'
  <2>1. \A q \in Pages : page'[q].stage = page[q].stage /\ page'[q].order = page[q].order
    BY <1>3
  <2> QED
    BY <1>1, <1>4, <2>1 DEF ShownIsPaid
<1> QED
  BY <1>5, <1>6, <1>7, <1>8, <1>9

-----------------------------------------------------------------------------

LEMMA PayNext == ASSUME PayInv, [Next]_vars PROVE PayInv'
<1>0. TypeInv'
  BY TypeNext DEF PayInv
<1>1. CASE \E p \in Pages :
             \/ Browse(p) \/ LoadProduct(p) \/ QueueDone(p) \/ ProceedToConfirm(p) \/ Expire(p) \/ Leave(p)
             \/ Pay(p)
  BY <1>0, <1>1, PayPage, PayPay
<1>2. CASE \E p \in Pages : PageTakesAnswer(p)
  BY <1>0, <1>2, PayReads, PayAnswered DEF PageTakesAnswer
<1>3. CASE \E r \in Requests : Server(r)
  BY <1>0, <1>3, PayReads, PayTxCommit, PayCompleteOrder, PayFailOrder DEF Server
<1>4. CASE \E r \in Requests : RequestDies(r) \/ ConnectionLost(r) \/ Forgotten(r)
  BY <1>0, <1>4, PayDies, PayConnectionLost, PayForgotten
<1>5. CASE \E o \in OrderIds : CancelOrder(o)
  BY <1>0, <1>5, PayCancelOrder
<1>6. CASE UNCHANGED <<req, page, orders, cancelled, disturbed>>
  BY <1>0, <1>6, PayUntouched
<1> QED
  BY <1>1, <1>2, <1>3, <1>4, <1>5, <1>6
     DEF Next, OpenForm, UpdateProduct, UpdateFails, CloseForm, Terminate, SaleStarts, Submit, UnchangedCustomers, vars

\* A unit is held by a pending order only while its page's request has it in hand, unless a
\* fault has hit that page's payment: whatever expires, is left or is failed meanwhile
\* (checkout/[productId]/page.tsx:339-360).
THEOREM PendingIsBeingPaid == Spec => []PendingOnlyByFault
<1>1. PayInv => PendingOnlyByFault
  BY DEF PayInv
<1> QED
  BY <1>1, PayInit, PayNext, PTL DEF Spec

\* A page that no fault has hit has one order at most that nobody asked to fail: the button is
\* disabled as long as the page waits (page.tsx:555-556), and no refusal comes after an order.
THEOREM PageOrdersOnce == Spec => []OneOrderPerPage
<1>1. PayInv => OneOrderPerPage
  <2> SUFFICES ASSUME PayInv, NEW p \in Pages, p \notin disturbed
               PROVE  Cardinality(OrdersOf(p) \ cancelled) <= 1
    BY DEF OneOrderPerPage
  <2> DEFINE S == OrdersOf(p) \ cancelled
  <2>1. \A o1, o2 \in S : o1 = o2
    BY DEF PayInv, OnceInv
  <2> HIDE DEF S
  <2>2. CASE S = {}
    BY <2>2, FS_EmptySet DEF S
  <2>3. CASE S # {}
    <3>1. PICK o : S = {o}
      BY <2>1, <2>3
    <3>2. Cardinality(S) = 1
      BY <3>1, FS_Singleton
    <3> QED
      BY <3>2 DEF S
  <2> QED
    BY <2>2, <2>3
<1> QED
  BY <1>1, PayInit, PayNext, PTL DEF Spec

\* The success screen shows an order of its own page, which is completed or was failed by
\* request: each page waits for its own request alone (page.tsx:350-352).
THEOREM SuccessIsPaid == Spec => []ShownIsPaid
<1>1. PayInv => ShownIsPaid
  BY DEF PayInv
<1> QED
  BY <1>1, PayInit, PayNext, PTL DEF Spec
=============================================================================
