------------------------------- MODULE Orders -------------------------------
(***************************************************************************)
(* The test shop: one product, the pages on which customers find and buy   *)
(* it, the order requests of the shop's server, and the seller who edits   *)
(* the product (testing/demo-server/src/services/order.service.ts, its         *)
(* repository, product.service.ts, and the pages of testing/demo-client).  *)
(* A page always orders one unit.                                          *)
(*                                                                         *)
(* Postgres runs transactions at READ COMMITTED: each statement reads what *)
(* is committed when it starts, and an UPDATE that waited for a row works  *)
(* on the row as the other transaction left it.  The decrement, the insert *)
(* and the commit of createWithDecrement are therefore one step: until the *)
(* commit nobody sees the row they lock.                                   *)
(***************************************************************************)
EXTENDS Integers, FiniteSets

CONSTANTS
    Pages,          \* the pages of customers, each of which goes once from the list to the checkout
    Requests,       \* requests the server may be working on at a time
    OrderIds,       \* ids of rows of the table orders
    Supply,         \* the units a product is created with, and those a seller types in later
    Chosen,         \* bound on the statuses that the seller chooses in a form
    MaxEdits,       \* bound on the saves of the seller's form
    MaxFaults,      \* bound on lost requests and replies
    MaxCancels,     \* bound on the orders that somebody has failed
    NoPage,         \* the page of a request that came from elsewhere
    NoOrder

OrderStatuses == {"PENDING", "COMPLETED", "FAILED"}
OrderRows     == [page : Pages, status : OrderStatuses]

ASSUME OrdersAssumption ==
    /\ IsFiniteSet(Requests) /\ Requests # {} /\ IsFiniteSet(OrderIds)
    /\ Supply \subseteq Int
    /\ MaxEdits \in Nat /\ MaxFaults \in Nat /\ MaxCancels \in Nat
    /\ NoPage \notin Pages /\ NoOrder \notin OrderIds \cup OrderRows

VARIABLES
    product,        \* the row: stock, status, and whether sale_starts_at lies ahead
    orders,         \* the rows: the page that ordered and the status, or NoOrder
    req,            \* the requests: where the server is, the page it came from and whether that waits, the order, the stock read
    page,           \* the pages: stage, what the product they loaded was like, whether `paying`, and `order`
    form,           \* the seller's edit form: where it is, its stock and status, and the stock it was loaded with
    edits, faults,  \* counters of the bounds
    supplied,       \* history: the units the seller meant to offer in all
    revived,        \* history: units sold while a form was open, which its save offers again
    disturbed,      \* history: the pages whose payment a fault has hit
    cancelled       \* history: the orders that someone asked the server to fail

vars == <<product, orders, req, page, form, edits, faults, supplied, revived, disturbed, cancelled>>

ProductStatuses == {"DRAFT", "UPCOMING", "ACTIVE", "SOLD_OUT", "TERMINATED"}
Verdicts        == {"gone", "live", "upcoming", "closed"}
Stages          == {"away", "browse", "queue", "select_address", "confirm", "success", "sold_out", "left"}
\* createOrder: "check" before its transaction, "read" and "write" in it;
\* completeOrder and failOrder: "find", then "update" or "fail".
Working         == {"check", "read", "write", "find", "update", "find_to_fail", "fail"}
Answers         == {"created", "completed", "sold_out", "error"}

IdleRequest == [at |-> "idle", page |-> NoPage, waited |-> FALSE, order |-> NoOrder, seen |-> 0]

\* A page keeps what it loaded until it has judged by it, and a page that was left keeps nothing.
NewPage    == [stage |-> "away", loaded |-> "closed", paying |-> FALSE, order |-> NoOrder]
LeftPage   == [NewPage EXCEPT !.stage = "left"]

\* A form that the bound lets nobody save again is as good as closed.
ClosedForm == [at |-> "closed", stock |-> 0, status |-> "DRAFT", loaded |-> 0, ordered |-> 0]

Placed    == {o \in OrderIds : orders[o] # NoOrder}
Ordered   == Cardinality(Placed)
OrdersOf(p) == {o \in Placed : orders[o].page = p}
FreshOrder == CHOOSE o \in OrderIds \ Placed : TRUE
FreeRequest == CHOOSE r \in Requests : req[r] = IdleRequest
HasFreeRequest == \E r \in Requests : req[r] = IdleRequest
Writing   == {r \in Requests : req[r].at = "write"}

TypeOK ==
    /\ product \in [stock : Int, status : ProductStatuses, later : BOOLEAN]
    /\ orders \in [OrderIds -> OrderRows \cup {NoOrder}]
    /\ req \in [Requests -> [at : Working \cup Answers \cup {"idle"}, page : Pages \cup {NoPage},
                             waited : BOOLEAN, order : OrderIds \cup {NoOrder}, seen : Int]]
    /\ page \in [Pages -> [stage : Stages, loaded : Verdicts, paying : BOOLEAN, order : OrderIds \cup {NoOrder}]]
    /\ form \in [at : {"closed", "open", "saving"}, stock : Int, status : ProductStatuses, loaded : Int, ordered : Nat]
    /\ edits \in Nat /\ faults \in 0..MaxFaults
    /\ supplied \in Int /\ revived \in Int
    /\ disturbed \subseteq Pages /\ cancelled \subseteq OrderIds

\* createProductSchema and updateProductSchema.
ValidStock(n) == n >= 1

\* The statuses among which the form of a new product lets its seller choose.
NewStatuses == {"DRAFT", "UPCOMING", "ACTIVE"}

\* What handleSubmit of the new product's page can bring about: the hour of the sale lies
\* ahead, or has passed or was left empty.
NewProducts == [stock : {n \in Supply : ValidStock(n)}, status : NewStatuses \cap Chosen, later : BOOLEAN]

Init ==
    /\ product \in NewProducts
    /\ orders = [o \in OrderIds |-> NoOrder]
    /\ req = [r \in Requests |-> IdleRequest]
    /\ page = [p \in Pages |-> NewPage]
    /\ form = ClosedForm
    /\ edits = 0 /\ faults = 0
    /\ supplied = product.stock /\ revived = 0
    /\ disturbed = {} /\ cancelled = {}

-----------------------------------------------------------------------------
(* The list of products and the checkout page.                              *)

UnchangedShop   == UNCHANGED <<product, orders>>
UnchangedSeller == UNCHANGED <<form, edits, supplied, revived>>
UnchangedFaults == UNCHANGED <<faults, disturbed, cancelled>>

\* What the card of a product offers: nothing is said of the stock, and a product that is
\* neither active nor upcoming has no card (getPublicProducts).
Card(x) == IF x.status = "ACTIVE" THEN "live" ELSE IF x.status = "UPCOMING" THEN "upcoming" ELSE "closed"

\* BrowsePage loads the list once; its countdown then only watches the clock.
Browse(p) ==
    /\ page[p].stage = "away"
    /\ page' = [page EXCEPT ![p].stage = "browse", ![p].loaded = Card(product)]
    /\ UNCHANGED req /\ UnchangedShop /\ UnchangedSeller /\ UnchangedFaults

\* "Buy Now": by the status that was loaded, or the hour that has come.
BuyOffered(p) ==
    /\ page[p].stage = "browse"
    /\ page[p].loaded = "live" \/ (page[p].loaded = "upcoming" /\ ~product.later)

\* What handleQueueDone makes of the product: a page also counts an upcoming one as
\* live once its hour has come.
Verdict(x) == IF x.stock <= 0 \/ x.status = "SOLD_OUT" THEN "gone"
              ELSE IF x.status = "ACTIVE" THEN "live"
              ELSE IF x.status = "UPCOMING" THEN "upcoming" ELSE "closed"

\* The click and the checkout page that loads the product: a reply that takes its time is a
\* later click, as what the click depends on does not go away.
LoadProduct(p) ==
    /\ BuyOffered(p)
    /\ page' = [page EXCEPT ![p].stage = "queue", ![p].loaded = Verdict(product)]
    /\ UNCHANGED req /\ UnchangedShop /\ UnchangedSeller /\ UnchangedFaults

\* The screens of the checkout.  The queue is a clock of three seconds that asks nobody.
QueueScreen(p)   == page[p].stage = "queue"
AddressScreen(p) == page[p].stage = "select_address"
ConfirmScreen(p) == page[p].stage = "confirm"
SuccessScreen(p) == page[p].stage = "success" /\ page[p].order # NoOrder
SoldOutScreen(p) == page[p].stage = "sold_out"

\* onDone of the queue screen: the page judges by what it loaded.
QueueDone(p) ==
    /\ QueueScreen(p)
    /\ page' = [page EXCEPT ![p] =
                  CASE page[p].loaded = "gone" -> [NewPage EXCEPT !.stage = "sold_out"]
                    [] page[p].loaded = "live" -> [NewPage EXCEPT !.stage = "select_address"]
                    [] page[p].loaded = "upcoming" /\ ~product.later -> [NewPage EXCEPT !.stage = "select_address"]
                    [] OTHER -> LeftPage]
    /\ UNCHANGED req /\ UnchangedShop /\ UnchangedSeller /\ UnchangedFaults

\* A customer who has an address goes on, one who has none is sent to the profile (Leave).
ProceedToConfirm(p) ==
    /\ AddressScreen(p)
    /\ page' = [page EXCEPT ![p].stage = "confirm"]
    /\ UNCHANGED req /\ UnchangedShop /\ UnchangedSeller /\ UnchangedFaults

WaitsFor(p, r) == req[r].page = p /\ req[r].waited

PayAlways(p) == ConfirmScreen(p)

\* The button that calls handlePay is on the confirm screen, disabled while paying.
PayEnabled(p) == ConfirmScreen(p) /\ ~page[p].paying

\* handlePay, up to its first await.
Pay(p) ==
    /\ PayEnabled(p)
    /\ HasFreeRequest
    /\ page' = [page EXCEPT ![p].paying = TRUE]
    /\ req' = [req EXCEPT ![FreeRequest] = [IdleRequest EXCEPT !.at = "check", !.page = p, !.waited = TRUE]]
    /\ UnchangedShop /\ UnchangedSeller /\ UnchangedFaults

\* A screen that is gone drops the answer.
PayCreatedIfShown(p, r) ==
    /\ req[r].at = "created" /\ WaitsFor(p, r)
    /\ req' = [req EXCEPT ![r] = IF page[p].stage = "confirm" THEN [@ EXCEPT !.at = "find"] ELSE IdleRequest]
    /\ UNCHANGED page /\ UnchangedShop /\ UnchangedSeller /\ UnchangedFaults

\* The success screen does not wait for the completion.
PayCreatedEarly(p, r) ==
    /\ req[r].at = "created" /\ WaitsFor(p, r)
    /\ page' = [page EXCEPT ![p].stage = "success", ![p].order = req[r].order]
    /\ req' = [req EXCEPT ![r].at = "find"]
    /\ UnchangedShop /\ UnchangedSeller /\ UnchangedFaults

\* The order is there: handlePay goes on to complete it, whatever screen shows by now.
PayCreated(p, r) ==
    /\ req[r].at = "created" /\ WaitsFor(p, r)
    /\ req' = [req EXCEPT ![r].at = "find"]
    /\ UNCHANGED page /\ UnchangedShop /\ UnchangedSeller /\ UnchangedFaults

\* A page that was left has no component to show the outcome.
Show(p, shown) == page' = [page EXCEPT ![p] = IF @ = LeftPage THEN @ ELSE shown]

PayCompleted(p, r) ==
    /\ req[r].at = "completed" /\ WaitsFor(p, r)
    /\ Show(p, [NewPage EXCEPT !.stage = "success", !.order = req[r].order])
    /\ req' = [req EXCEPT ![r] = IdleRequest]
    /\ UnchangedShop /\ UnchangedSeller /\ UnchangedFaults

\* The catch clause: SOLD_OUT changes the screen, any other message is shown on it.
PayRefused(p, r) ==
    /\ req[r].at \in {"sold_out", "error"} /\ WaitsFor(p, r)
    /\ Show(p, [page[p] EXCEPT !.paying = FALSE, !.stage = IF req[r].at = "sold_out" THEN "sold_out" ELSE @])
    /\ req' = [req EXCEPT ![r] = IdleRequest]
    /\ UnchangedShop /\ UnchangedSeller /\ UnchangedFaults

\* The three minutes are over.  handleExpire fails the order "if one exists", but the
\* page has one only on the success screen, where no countdown runs.
Expire(p) ==
    /\ ConfirmScreen(p)
    /\ page' = [page EXCEPT ![p].stage = "sold_out"]
    /\ UNCHANGED req /\ UnchangedShop /\ UnchangedSeller /\ UnchangedFaults

\* The links of the screens lead away from the checkout; a payment in progress goes on
\* without its screen.
Leave(p) ==
    /\ AddressScreen(p) \/ ConfirmScreen(p) \/ SuccessScreen(p) \/ SoldOutScreen(p)
    /\ page' = [page EXCEPT ![p] = LeftPage]
    /\ UNCHANGED req /\ UnchangedShop /\ UnchangedSeller /\ UnchangedFaults

-----------------------------------------------------------------------------
(* The server: createOrder, completeOrder, failOrder.                       *)

UnchangedClient == UNCHANGED <<page, form, edits, faults, supplied, revived, disturbed, cancelled>>

Answer(r, answer) == req' = [req EXCEPT ![r].at = answer]

\* createOrder before its transaction: a draft passes, a sale yet to start does not, nor
\* does an address that the customer has deleted on the profile page.
CreateCheck(r) ==
    /\ req[r].at = "check"
    /\ \/ Answer(r, "error")
       \/ Answer(r, CASE product.status \in {"SOLD_OUT", "TERMINATED"} -> "sold_out"
                      [] product.status = "UPCOMING" /\ product.later  -> "error"
                      [] OTHER -> IF product.stock < 1 THEN "sold_out" ELSE "read")
    /\ UnchangedShop /\ UnchangedClient

\* createWithDecrement, the read: only an active product goes on.
TxRead(r) ==
    /\ req[r].at = "read"
    /\ IF product.stock < 1 \/ product.status # "ACTIVE"
       THEN Answer(r, "sold_out")
       ELSE req' = [req EXCEPT ![r].at = "write", ![r].seen = product.stock]
    /\ UnchangedShop /\ UnchangedClient

\* The decrement is forgotten.
TxInsertOnly(r) ==
    /\ req[r].at = "write"
    /\ OrderIds \ Placed # {}
    /\ orders' = [orders EXCEPT ![FreshOrder] = [page |-> req[r].page, status |-> "PENDING"]]
    /\ req' = [req EXCEPT ![r] = [@ EXCEPT !.at = "created", !.order = FreshOrder]]
    /\ product' = [product EXCEPT !.status = IF req[r].seen - 1 <= 0 THEN "SOLD_OUT" ELSE @]
    /\ UnchangedClient

\* createWithDecrement, the decrement, the insert and the commit: the stock is the row's,
\* the status follows from the stock the transaction read.
TxCommit(r) ==
    /\ req[r].at = "write"
    /\ OrderIds \ Placed # {}
    /\ orders' = [orders EXCEPT ![FreshOrder] = [page |-> req[r].page, status |-> "PENDING"]]
    /\ req' = [req EXCEPT ![r] = [@ EXCEPT !.at = "created", !.order = FreshOrder]]
    /\ product' = [product EXCEPT !.stock = @ - 1,
                                  !.status = IF req[r].seen - 1 <= 0 THEN "SOLD_OUT" ELSE @]
    /\ UnchangedClient

\* completeOrder and failOrder: the SELECT, and for completeOrder the check of the status.
FindOrder(r) ==
    /\ req[r].at \in {"find", "find_to_fail"}
    /\ Answer(r, IF req[r].at = "find_to_fail" THEN "fail"
                 ELSE IF orders[req[r].order].status = "PENDING" THEN "update" ELSE "error")
    /\ UnchangedShop /\ UnchangedClient

\* completeOrder, the UPDATE: it does not look at the status again.
CompleteOrder(r) ==
    /\ req[r].at = "update"
    /\ orders' = [orders EXCEPT ![req[r].order].status = "COMPLETED"]
    /\ Answer(r, "completed")
    /\ UNCHANGED product /\ UnchangedClient

\* failOrder, the UPDATE: whatever the status was, and the stock stays as it is.
FailOrder(r) ==
    /\ req[r].at = "fail"
    /\ orders' = [orders EXCEPT ![req[r].order].status = "FAILED"]
    /\ req' = [req EXCEPT ![r] = IdleRequest]
    /\ UNCHANGED product /\ UnchangedClient

\* PATCH /api/orders/:id/fail from another tab or client of the customer.
CancelOrder(o) ==
    /\ o \in Placed \ cancelled
    /\ Cardinality(cancelled) < MaxCancels
    /\ HasFreeRequest
    /\ req' = [req EXCEPT ![FreeRequest] = [IdleRequest EXCEPT !.at = "find_to_fail", !.order = o]]
    /\ cancelled' = cancelled \cup {o}
    /\ UNCHANGED <<page, faults, disturbed>> /\ UnchangedShop /\ UnchangedSeller

-----------------------------------------------------------------------------
(* Faults of the network and of the server.                                 *)

Disturb(p) ==
    /\ faults < MaxFaults
    /\ faults' = faults + 1
    /\ disturbed' = disturbed \cup {p}
    /\ UNCHANGED cancelled

\* The server never gets the request, or dies with it: a transaction that was not
\* committed is rolled back, and the page's fetch rejects.
RequestDies(r) ==
    /\ req[r].at \in Working /\ req[r].waited
    /\ Disturb(req[r].page)
    /\ Answer(r, "error")
    /\ UNCHANGED page /\ UnchangedShop /\ UnchangedSeller

\* The connection is gone: the page's fetch rejects and the server works on for nobody.
ConnectionLost(r) ==
    /\ req[r].at \in Working /\ req[r].waited
    /\ Disturb(req[r].page)
    /\ page' = [page EXCEPT ![req[r].page].paying = FALSE]
    /\ req' = [req EXCEPT ![r].waited = FALSE]
    /\ UnchangedShop /\ UnchangedSeller

\* A request that nobody waits for is over.
Forgotten(r) ==
    /\ req[r].at \in Answers /\ ~req[r].waited
    /\ req' = [req EXCEPT ![r] = IdleRequest]
    /\ UNCHANGED page /\ UnchangedShop /\ UnchangedSeller /\ UnchangedFaults

-----------------------------------------------------------------------------
(* The seller.                                                              *)

UnchangedCustomers == UNCHANGED <<orders, req, page, faults, disturbed, cancelled>>

\* EditProductPage loads the product into its form.
OpenForm ==
    /\ form.at = "closed" /\ edits < MaxEdits
    /\ form' = [at |-> "open", stock |-> product.stock, status |-> product.status,
                loaded |-> product.stock, ordered |-> Ordered]
    /\ UNCHANGED <<product, edits, supplied, revived>> /\ UnchangedCustomers

\* The form offers these; a status that is none of them is sent back as it was loaded.
StatusChoices == {"DRAFT", "UPCOMING", "ACTIVE", "SOLD_OUT"}

\* The stock that was loaded, or another one typed over it.
StockChoices == Supply \cup {form.stock}

\* handleSubmit sends every field of the form, changed or not.
Submit(stock, status) ==
    /\ form.at = "open" /\ edits < MaxEdits
    /\ form' = [form EXCEPT !.at = "saving", !.stock = stock, !.status = status]
    /\ edits' = edits + 1
    /\ UNCHANGED <<product, supplied, revived>> /\ UnchangedCustomers

Reopen(shown) == form' = IF edits < MaxEdits THEN shown ELSE ClosedForm

\* updateProduct writes them all, whatever was sold or terminated meanwhile.  The form
\* stays as it is until the page is left: it may be saved once more.
UpdateProduct ==
    /\ form.at = "saving" /\ ValidStock(form.stock)
    /\ product' = [product EXCEPT !.stock = form.stock, !.status = form.status]
    /\ Reopen([form EXCEPT !.at = "open", !.loaded = form.stock, !.ordered = Ordered])
    /\ supplied' = supplied + (form.stock - form.loaded)
    /\ revived' = revived + (Ordered - form.ordered)
    /\ UNCHANGED edits /\ UnchangedCustomers

\* The schema refuses the stock, or the request is lost: the page shows an error.
UpdateFails ==
    /\ form.at = "saving"
    /\ Reopen([form EXCEPT !.at = "open"])
    /\ UNCHANGED <<product, edits, supplied, revived>> /\ UnchangedCustomers

\* Back, Cancel, and the redirect after a save.
CloseForm ==
    /\ form.at = "open"
    /\ form' = ClosedForm
    /\ UNCHANGED <<product, edits, supplied, revived>> /\ UnchangedCustomers

\* The dashboard offers the button by the list it loaded when it was opened, which may be
\* older than a status that forbids it, and terminateProduct does not look.
Terminate ==
    /\ product.status # "TERMINATED"
    /\ product' = [product EXCEPT !.status = "TERMINATED"]
    /\ UnchangedSeller /\ UnchangedCustomers

\* The hour of sale_starts_at comes.
SaleStarts ==
    /\ product.later
    /\ product' = [product EXCEPT !.later = FALSE]
    /\ UnchangedSeller /\ UnchangedCustomers

-----------------------------------------------------------------------------
Server(r) == CreateCheck(r) \/ TxRead(r) \/ TxCommit(r) \/ FindOrder(r) \/ CompleteOrder(r) \/ FailOrder(r)

PageTakesAnswer(p) == \E r \in Requests : PayCreated(p, r) \/ PayCompleted(p, r) \/ PayRefused(p, r)

Next ==
    \/ \E p \in Pages :
          \/ Browse(p) \/ LoadProduct(p) \/ QueueDone(p) \/ ProceedToConfirm(p) \/ Expire(p) \/ Leave(p)
          \/ Pay(p) \/ PageTakesAnswer(p)
    \/ \E r \in Requests : Server(r) \/ RequestDies(r) \/ ConnectionLost(r) \/ Forgotten(r)
    \/ \E o \in OrderIds : CancelOrder(o)
    \/ OpenForm \/ UpdateProduct \/ UpdateFails \/ CloseForm \/ Terminate \/ SaleStarts
    \/ \E stock \in StockChoices, status \in (StatusChoices \cap Chosen) \cup {form.status} : Submit(stock, status)

Spec == Init /\ [][Next]_vars

-----------------------------------------------------------------------------
(* Properties.                                                              *)

\* order.repository.ts:41-60.  The stock is checked and decremented in a transaction, but
\* not under a lock: transactions that run side by side all see the last unit.  This is
\* as far as it goes: the units ordered exceed those the seller meant to offer, and those
\* that a stale form has offered again, by no more than the requests beside the first.
SoldWithinSupply == Ordered <= supplied + revived + Cardinality(Requests) - 1

\* checkout/[productId]/page.tsx:339-360.  A unit is held by a pending order only while the
\* order's page is about to complete it, unless a fault hit that page's payment: nothing
\* ever takes up a pending order again.
BeingPaid(o) == \E r \in Requests : req[r].order = o /\ req[r].waited /\ req[r].at \in {"created", "find", "update"}
PendingOnlyByFault ==
    \A o \in Placed : orders[o].status = "PENDING" => BeingPaid(o) \/ orders[o].page \in disturbed

\* page.tsx:555-556.  One page orders once, whatever the countdown and the customer do
\* meanwhile; only after a lost reply may it order again what was ordered already, and
\* an order that somebody had failed does not count.
OneOrderPerPage ==
    \A p \in Pages : p \notin disturbed => Cardinality(OrdersOf(p) \ cancelled) <= 1

\* page.tsx:350-352, order.service.ts:72-79.  A page that shows success shows an order of
\* its own which is paid, unless somebody had the order failed.
ShownIsPaid ==
    \A p \in Pages : page[p].stage = "success" =>
        /\ page[p].order \in OrdersOf(p)
        /\ orders[page[p].order].status = "COMPLETED" \/ page[p].order \in cancelled
=============================================================================
