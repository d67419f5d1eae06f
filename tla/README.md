# Verification of flash-engine

flash-engine sells limited stock through a virtual waiting room. This directory
holds TLA+ specifications of its core, the TLC configurations that model-check
them, and theorems about them that the TLA+ proof system checks.

## 1. The system

| Part | State it keeps | Operations | Interacts with |
|---|---|---|---|
| Drain worker (`services/drain.service.ts`, `scripts/drain-process.lua`, `scripts/bulk-sold-out.lua`) | `activeDrains`, an interval per event; a batch per running call | `startDrain`, `stopDrain`, `initDrains`, `drainBatch`, `processWinner` | Redis queue, result, ticket and outstanding keys; event cache; `QueueAttempt` rows; webhooks |
| Queue admission (`controllers/queue.controller.ts`, `scripts/queue-admission.lua`) | -- | `joinQueue`, `verifyToken`, `getQueueStatus`, `getQueueInfo` | the same Redis keys; `UsedJti` rows; event cache |
| Ticket release (`controllers/release.controller.ts`) | -- | `releaseTicket` | stock, admitted and outstanding; `TicketRelease` rows; `startDrain` |
| Redis service (`services/redis.service.ts`) | one connection; the Lua scripts | `decrFloor0` and the other scripts | all of the above |
| Event cache (`services/event-cache.service.ts`) | a Map in the process | `getEventEntry`, `warmEventCache`, `evictEventCache` | Postgres |
| Event lifecycle (`controllers/admin.controller.ts`, `services/event-lifecycle.service.ts`) | status in Postgres and in Redis; test reset timers | create, activate, pause, resume, end, update, rotate secret, capacity, duplicate | everything above |
| Server bootstrap (`server.ts`) | -- | start, `initDrains` after listening, shutdown | drain worker, webhook worker |
| Webhook delivery (`services/webhook.service.ts`) | `flash:webhook:retry`, a Redis list; `workerBusy` | `fireWebhook`, `processRetryQueue` | client's server |
| Browser SDK (`packages/browser-sdk`) | the queue's state in the browser, a poll timer | `join`, poll, `destroy`, visibility handler | gateway |
| Demo shop (`apps/demo`) | screens of the tabs, `flash_queue_state` in localStorage; the server's active keys | configure, join, wait, buy, release, try the token again | gateway, through `lib/api.ts` (browser) and the server SDK (`verifyToken`, `releaseTicket`) |
| Test shop (`testing/demo-server`, `testing/demo-client`) | `products` and `orders` in Postgres; the checkout page, the seller's form | list, order, complete, fail; create, edit, terminate | its own database at READ COMMITTED |
| Simulator (`saas-dashboard/src/app/demo/page.tsx`) | refs shared by all its callbacks: users, counters, timers, joins in flight | start, stop, reset, join, poll | gateway's queue API |
| Dashboard and accounts (`saas-dashboard/src`, `auth.controller.ts`, `admin-auth.middleware.ts`, `superadmin.controller.ts`) | the cookie `flash_token`, `user` and `isLoading` per tab; accounts and their `suspended` flag | sign up, in, out; open an event and press its buttons; suspend, unsuspend | admin API |
| Reports (`admin.controller.ts`, `superadmin.controller.ts`; the pages and the chart of `saas-dashboard/src`) | none at the gateway; in a page its reports, `loading`, `fetching`, `error`, a timer | lists, statistics, timeline, overviews, live feed, health; load, poll, refresh | Postgres and Redis, read one after the other |
| React hook, health, JWKS, rate limits | see PROJECT.json | | |

The gateway is a single Node process. Its requests, interval callbacks and timers
interleave at every `await`; Redis executes one command, script or `MULTI` at a
time; Postgres is the only other party. There is no lock: the scripts, the
primary key of `UsedJti` and the order of the awaits are what keeps the sale
right. The behaviours that are hard to test, each with the line where it bites
and the property that watches it, are the hazards of PROJECT.json:

- a tick that takes longer than a second runs beside the next one;
- a popped user is in neither the queue nor the result hash for a while;
- stock moves between Redis, a running tick and a ticket, and three kinds of
  failure (a crash, a rejected command, a failed signature) may hit each move;
- verify and release of one ticket, retried or concurrent;
- the lifecycle handlers write to Postgres, to Redis and to the process's memory
  in turn, with users, ticks and other administrators in between;
- a restart forgets timers, cache and drains, and rebuilds only the drains;
- the clients are pages: a promise outlives the screen that waits for it, tabs share
  localStorage and cookies, a stopped run's answers arrive in the next one;
- the shops read what they judge by in one statement and write in another.

What makes each part correct: *drain* -- no oversell, no lost unit, no lost or
duplicated user, service in arrival order, a gate that holds and opens again;
*admission* -- the door keeps to the queue's cap, a user is in at most once;
*release and verify* -- a unit returns at most once, purchases never exceed the
inventory; *lifecycle* -- an active event is drained and a closed one is not;
*cache* -- no stale entry outlives the event; *webhooks* -- delivered or dropped
after three retries, never silently lost; *SDK* -- polling neither stops nor
multiplies, an answer is final, a destroyed object stays so; *demo shop* -- a ticket
buys one order or is given back, never both; *test shop* -- no more orders than stock,
no payment left hanging; *simulator* -- the numbers are those of the users;
*dashboard* -- a suspended account sells nothing, a tab shows who it acts as; *reports* --
a page always has something to show, and what it shows catches up with the sale.

## 2. Modules

| Module | Models | Composed of |
|---|---|---|
| `SaleQueue` | drain, admission, verify, release, one administrator, restart | `TicketSale` as its abstract specification |
| `TicketSale` | what a sale does with its units, whatever queue is in front of it | -- |
| `EventLifecycle` | one event in Postgres, Redis and the process, several administrators | `SaleLife` as its abstract specification |
| `SaleLife` | what an administrator may count on: the life of a sale | -- |
| `WebhookRetry` | first deliveries, the retry list and its worker | -- |
| `FlashQueue` | the browser SDK and its transport against the gateway's answers | -- |
| `DemoShop` | one customer of the demo shop: tabs, the shop's server, the gateway's view of the customer | the gateway's answers (SaleQueue has how it finds them) |
| `Orders` | the test shop's product, orders, checkout pages and seller | -- |
| `Simulator` | the dashboard's simulator over several runs | the gateway's answers |
| `Console` | tabs of the dashboard, accounts, suspension | transitions reduced to their row (EventLifecycle has the rest) |
| `Reports` | what a page of the dashboard shows of a sale, and the handlers that read it | transitions reduced to their row; the sale to how far it has come (SaleQueue has the rest) |
| `MC...` | the instances for TLC | one of the above |
| `..._proofs` | theorems, section 5 | one of the above |

### SaleQueue

One activated event. Every Redis command or script is one atomic step, and so is
a run of commands written in one turn of the event loop on the one connection
(`Promise.all` of two commands, a pipeline, a fire-and-forget command followed
by an awaited one): Redis runs them back to back. Every `await` separates steps.

| Variable | Code |
|---|---|
| `status`, `stock`, `admitted`, `cap` | fields of the hash `flash:event:{pk}` |
| `queue` | sorted set `flash:queue:{pk}`: join time per user, 0 when absent |
| `result` | hash `flash:result:{pk}` |
| `ticket` | `flash:ticket:{pk}:{user}`; the jti stands for the JWT |
| `outstanding` | `flash:outstanding:{pk}` |
| `pgStatus`, `won`, `used`, `released` | `SaleEvent.status`; jtis with a WON `QueueAttempt`, a `UsedJti`, a `TicketRelease` |
| `drainOn` | `activeDrains.has(pk)` |
| `cached`, `filling` | the event cache has the entry; some request is between its SELECT and `cache.set` |
| `booting` | the progress of `initDrains` after a restart |
| `tick[d]` | a running `drainBatch`: where it is, the popped users not processed yet with their scores, the current winner |
| `req[r]` | a running verify or release, after its checks |
| `admin` | the running lifecycle handler, one at a time |
| `now`, `joins`, `rejoins`, `owner`, `expired`, `sold`, `returned`, `dup`, `mishaps` | the clock and history the properties speak about |

Actions, in the order of the code:

- `Join`: `queue-admission.lua` when it returns QUEUED; every other return code
  changes nothing. Two joins may share a millisecond, then the user id decides. A user
  whom a tick has popped and not answered yet is in neither of the keys that the script
  looks at, so that the queue accepts the user again; `rejoins` counts these.
- `LookupMiss`, `LookupFill`: a request that misses the event cache.
- `TickStart` (the pipelined read: queue not empty, gate open), `Pop` (ZPOPMIN),
  `Claim` (`drain-process.lua`), `Lookup`/`Fill` (`getEventEntry`), `Sign` (JWT,
  SET and INCR, of which any may have run when the reply is lost), `SignFails`, `Refund`, `Audit` (the WON row), `BulkSoldOut`
  (`bulk-sold-out.lua`), `TickFails` (a call rejects, `drainBatch` ends).
- `VerifyStart`, `VerifyInsert`, `VerifyDecr`; `ReleaseStart`, `ReleaseMulti`,
  `ReleaseDecr`, `ReleaseRestart`, `ReleaseRow`.
- `PausePg`, `PauseRedis`, `PauseStop`, and likewise for resume and end;
  `AdminFails`; `UpdateCapacity`.
- `Expire`: 20 minutes after a ticket was issued its key and its JWT lapse.
- `Crash`: the process dies with all of `node`; `InitDrainsRead`,
  `InitDrainsStart`: the restart, while the server already answers.

Init is the state `activateEvent` leaves behind on what `seedRedis` wrote.

What is abstracted: JWTs, HMACs and tokens (a jti stands for them; a caller that
verifies has a token that was issued), rate limiting, webhooks, audit rows other
than WON, positions and polling (reads only). A pipeline or a script is executed
whole or not at all; a command that rejects may have been executed or not.

Failures and callers are switched on per run: `Faults` ("crash", "io" for
rejected commands and lost replies, "sign" for failing signatures), `AdminOps`,
and `ClientMay` ("overlap": two calls for one ticket at a time; "reuse": verify
of a ticket already given back). Without either the client's backend is orderly: one
call per ticket at a time, and none to verify a ticket it gave back. What users do is
never restricted. `mishaps` counts what went wrong: a call to Redis or Postgres that was
rejected or lost (`Mishap`), and each tick and request that a crash cut off. The
properties of run failures are about how much one mishap can do.

### TicketSale

What SaleQueue promises of the units, without queue, drain or handlers: a free unit is
offered as a ticket, a ticket is bought or not, what is given back is free again.
`Units` in SaleQueue is the refinement mapping. `FreeUnits` is `stock` and the units in the
hands of ticks (`Claimed`), so that claiming and refunding are stutters and signing is
`Offer`. `Place` is where a ticket stands: `owner` says that it was issued, `sold` and
`returned` what became of it, so that the UsedJti row is `Buy` and the MULTI of
`releaseTicket` is `GiveBack`. The misfortunes are parameters: `Lose` and `Repeat` exist
under lost calls and crashes, `Repeat` also when releases overlap, `Reuse` when callers verify
what they gave back. With an orderly backend and no fault none of the three is left, and
`KeepsToSale` says that no schedule loses a unit, frees one twice or sells it twice.

### MCSaleQueue

The instance for TLC, with the symmetry of jtis, ticks and requests, and who may be
accepted how often (`EachOnce`, `FirstTwice`). Users are numbers, not symmetric, because
ties in the sorted set go by user id. Runs with liveness properties use no symmetry.

### EventLifecycle, SaleLife, MCEventLifecycle

SaleQueue starts from an active event and has one administrator. EventLifecycle
leaves the queue out and looks at the event itself.

| Variable | Code |
|---|---|
| `pg` | the `SaleEvent` row: status; secret and webhook URL as version numbers |
| `status` | field `status` of `flash:event:{pk}` |
| `creating` | the transaction of `createEvent` and `duplicateEvent`, which seeds Redis before it commits |
| `cache`, `lookup` | the entry of the event cache; requests between their SELECT and `cache.set`, with the entry they will set |
| `drainOn`, `timer` | `activeDrains.has(pk)`, `testResetTimers.has(pk)` |
| `booting` | `initDrains` after a restart |
| `admin[a]` | a request in progress: its operation, where it is, and the row it read |
| `last`, `lost` | history: the last transition that went through; whether a settings request was cut off |

Every request is `Begin` (read, check the status), `WritePostgres`, then for a
transition `WriteRedis` and `FinishOpening`, `FinishPause` or `FinishClosing`
(cache, timer, drain), for a settings change `PatchHit`, or `PatchMiss` and
`PatchFill`, which caches the row that was read with the changed field put in. `PostgresFails`, `RedisFails` and `Crash` cut it off. The operations
are activate, pause, resume, end, suspend (`suspendClient`, through the same
`endEventCore`), rotate and update. `Together` names the pairs of operations that
callers run side by side, so that a run can say what it assumes of them: the code
itself takes no lock. `SaleLife` is the abstract life of a sale (PENDING, ACTIVE,
PAUSED and back, ENDED for good) that the row refines.

### WebhookRetry, MCWebhookRetry

`list` is `flash:webhook:retry`, `sending` and `failing` are calls of
`fireWebhook`, `pass[p]` is a running `processRetryQueue` with the copy it walks,
`workerBusy` is its guard. `Fire`, `FirstAnswered`, `FirstFails`, `Enqueue` (RPUSH and
LTRIM) follow `fireWebhook`; `StartPass`, `Retry`, `Unlist`, `Requeue` follow the
worker; `Tick` lets the waits pass; `Crash` kills all but the list. Payloads carry
timestamps, so entries of different webhooks differ and LREM finds the right one.

### FlashQueue, MCFlashQueue

One `FlashQueue` object. `state`, `timer`, `listening`, `pollCount` are its
fields; `req[r]` is a request of the transport (info, join, or one of the polls,
which may overlap), with its attempt; `controller` tells whose abort controller is
the current one; `hidden` is the tab; `server` is what the gateway has for the user.
`Answer` computes a reply from `server`, and the reply is taken up later, by
`JoinWon`, `JoinQueued`, `PollDone`, `PollAgain` and so on, so that answers arrive
late and out of order. `Fails` and `Retry` are the transport's loop, `Rejects` is an
HTTP error, the ten-second timeout or the last failure. `Destroy`, `Hide` and `Show` come
from the page at any time. Left out: the expiry warning; the PAUSED branch of
`join`, which this gateway never takes; browsers without `AbortSignal.any`.

### DemoShop, MCDemoShop

`tab[t]` is the screen of App.tsx and what its page knows (the availability, the
countdown, whether the second try was made); `store` is `flash_queue_state`; `gate`
is what the gateway keeps of the customer: result, whether the ticket key lives,
whether its jti is used, whether its release is logged; `orders` and `returned` count
what became of the ticket; `keysFit` says whether the server's active keys are those
of the event, which anyone may change in the settings. `call[c]` is a promise: an SDK
join and the polls it goes on with, a poll of the queue page, a purchase, a second
try, a release. It has its tab, how far it is, and whether the page that waits for it
still shows (`shown`): App's callbacks act on the tab whether it does or not, a page's
own state changes only if it does. `Verify` and `Confirm` are the two halves of
`/api/checkout`, `Release`, `ReturnUnit` and `LogRelease` those of
`/api/checkout/fail`, in the gateway's order. `Reload` starts a page again from
`store`, with the calls of the old one going on at the servers.

### Orders, MCOrders

`product` and `orders` are the rows; `req[r]` is a request at the server, between
its statements; `page[p]` is a customer's way from the list over the queue screen to
the checkout, with `paying` and `order`; `form` is the seller's edit form with the
stock it was loaded with. `CreateCheck`, `TxRead`, `TxCommit` are `createOrder` and
its transaction (decrement, insert and commit are one step, as nobody sees the locked
row before), `FindOrder`, `CompleteOrder`, `FailOrder` the status updates. The page's
`Pay` makes two calls in a row; `RequestDies` and `ConnectionLost` are the faults.
`Submit` and `UpdateProduct` write back the whole form, `Terminate` the status only,
`SaleStarts` is time. `supplied` and `revived` are history: what the seller meant to
offer, and what a stale form offered again.

### Simulator, MCSimulator

Runs are numbered by their `Start`. `users`, `stats`, `joinInFlight` and `pollTimer`
are the refs; `join[k]` and `poll[k]` are the pending parts of `joinUser` and
`startPolling` for a user and a run, which outlive the run; `entry` is the gateway.
`JoinWaits`, `JoinSent`, `JoinDropped`, `JoinAnswered` and `JoinFails` are `joinUser`
between its awaits, with the answer nobody expects thrown after `joining` was
decremented; `PollFires` to `PollFails` are the loop. Of the gateway, `JoinServed` answers
a join (a door that is closed leaves no trace of the user), `Drain` serves a user and
`Forget` is the end of the event or the reset of a test event.

### Console, MCConsole

`tab[t]` has the page, `user`, `isLoading`, the event opened and the status it shows;
`cookie[b]` is `flash_token` of a browser, which its tabs share; `req[r]` is a request
from the click to the answer: `by` is the account of the cookie it was sent with, `at`
how far the gateway is (admitted by the middleware, row checked, answered), `heard`
whether its page, or only its tab, will hear the answer. `registered`, `suspended` and
`status` are the gateway's rows. `Load` is a document that mounts `AuthProvider`,
`Shell` the redirect of the layouts, `Middleware` that of Next. Every 401 runs
`Expired`, which removes the cookie of the moment and reloads; every 403 of a
suspended account runs `ToSuspended`. `SuspendClient` sets the flag, looks for active
events and ends them, in three steps; `Fails` may end it, like any request, before each of
them, with what came before done. `overtaken` and `missed` are history: requests that were
let in before the flag, and events that a suspension which failed half-way, such a request
or the super admin himself has left open or opened.

### Reports, MCReports

One tab on one page about one event. `row` is its status in Postgres, `sold` how far the
sale has come (the counters in Redis and the attempts in Postgres, as one number); `call`
has a place for each part of a load, for the transition a button asks for, and for the
requests of the page's timers (`Polls`); each has what its handler still has to read and
what it has read (`todo`, `seen`). `ui.shown` are the reports on the page, with `loading`,
`fetching`, `error` and the action that runs; `chart` is the state of
`EventTimelineChart`. A handler is the set of what it reads (`GetEventStats`,
`ListEvents`, ...), with `AtOnce` for the reads that wait for no other and `ActiveOnly` for
those that ask Redis about active events only; `Read` is one read with its result. The pages
are told apart by what they load (`Parts`), whether they poll (`BoardTick`, `StatsTick`,
`ChartTick`) and what they show of it (`BoardView`, `LiveView`, `LoadView`, `ChartView`,
after the order of their returns). `Complete` is a `Promise.all` that is there, `Fail` one
that is not; `StatsAnswered`, `ChartAnswered` and `BoardAnswered` take up an answer whatever
came before it. `Sell` and `OpElsewhere` are the sale going on. No name is one of Console's, so
that the two are proved about in one module. Left out: the numbers
themselves, filters and sorting, Duplicate, and pages that are left.

## 3. Runs

| Run | Module | Expect | Properties | Question |
|---|---|---|---|---|
| flow | MCSaleQueue | pass | StockConserved, NobodyLost, WinnerHasTicket, GateOvershoot, ServedInOrder, TurnedAwayWhenEmpty, EveryoneAnswered | Is the sale right with one drain and one request at a time and no failures, with no cap or a cap of 1 that closes the gate? |
| overlap | MCSaleQueue | pass | OneTicketPerUser, DoorHolds, SoldWithinInventory, KeepsToSale | What becomes of users whom two ticks hold, because they joined again in the hands of one? Do two calls at a time of an orderly backend return a unit twice or sell too much, that is, is each step one of TicketSale? |
| failures | MCSaleQueue | pass | UnitsWithinMishaps, LostWithMishaps, ActiveIsDrained | How many units and users does a crash, a rejected command or a lost reply cost, or make up, during a sale that is paused, resumed and ended? Is an active event drained after pauses, resumes and restarts? |
| agree | MCEventLifecycle | pass | OpenOnlyIfActivated, TransitionsSettle, SettingsFresh, KeepsToLife | Do Postgres, Redis and the process agree again after every transition, with crashes and failed writes before it? |
| webhooks | MCWebhookRetry | pass | NothingForgotten, QueuedOnce, NotSentAgain, Settles | Is a webhook that no fault and no cap has hit neither lost nor doubled, and settled in the end? |
| sdk | MCFlashQueue | pass | PollsBounded, Final, DestroyedForGood, Answered | Does the SDK keep to one poll, tell an outcome once, and stop when it is destroyed? |
| shop | MCDemoShop | pass | OneOrder, BurntOnlyByFault, SoldOrReturned | What can two tabs, lost replies and reloads make of one ticket? |
| orders | MCOrders | pass | SoldWithinSupply, PendingOnlyByFault, OneOrderPerPage, ShownIsPaid | How far does the test shop oversell, and what does an interrupted payment leave? |
| simulator | MCSimulator | pass | CountersAgree, CapKept | Are the numbers those of the users, and how many joins are in flight, when runs follow each other? |
| console | MCConsole | pass | SuspendedStaysShut, RightAccount, NeverStuck | Does a suspended client keep an open event? Does a tab act as whom it shows, and can it get stuck? |
| reports | MCReports | pass | ShownTruly, CatchesUp | Has a page always something to show? Are the numbers of an ended sale final? Does a page that polls catch up, whatever overtakes what? |
| double_release | MCSaleQueue | violation | ReturnedOnce | section 4 |

That a ticket returns its unit once is the part of KeepsToSale without `Repeat` in run overlap;
ReturnedOnce says it by itself and is what double_release shows to fail when releases overlap.

The type invariants are theorems (section 5) and cost no run.

Three properties of SaleQueue have a number in their bound, because the code promises
less than one would like. UnitsWithinMishaps and LostWithMishaps allow a unit, or the
users of a batch, for every mishap: a crash after `drain-process.lua` loses a unit, a
release that fails behind its MULTI and is repeated makes one up. That no schedule does
more is what they say. OneTicketPerUser allows a ticket for every `rejoins`, and
GateOvershoot is a count of the tickets that wait for their owner (`Unsettled`), not of
`flash:outstanding`, which is less than they are where a ticket was decremented twice or
an INCR got lost.

Bounds of SaleQueue. flow: three users and jtis, one unit, batches of two, one tick and
one request; with one unit a winner, a user who finds the stock empty and one behind
for the bulk script come out of one batch and a queue, and a release lets the third be
served. A cap of 1 is reached by the first ticket, so that the gate is closed while two
users wait. overlap: three users, two ticks with batches of two, two requests, one unit
and two jtis, a door for two; the first user may be accepted twice (`MaxJoins`), so that
both ticks may hold that user, and `updateCapacity` sets and lifts the cap. failures: two
users in a batch of two, one tick, one request, one unit, two mishaps (`MaxMishaps`), which
is a loss and a repeat of it, or two of a kind, and every fault and every operation of the
administrator but the capacity. A unit comes back twice for a ticket at most `MaxDup` times.

EventLifecycle: two administrators and one lookup, since every hazard of it
is a pair, and two versions each of secret and URL (`MaxChanges`). In `agree`
callers follow `Orderly`, which names every pair of operations that the code stands
side by side: the same transition twice, activate and resume, end and suspend; both
settings, and a setting beside pause, end or suspend; user requests beside activate,
pause and resume; after a restart all but pause, end and suspend until `initDrains` is
through; an uncached event opened or paused. It is as large as it can be: with any
one of the other pairs added TLC finds TransitionsSettle, SettingsFresh or KeepsToLife
violated (section 4). WebhookRetry: three webhooks in a list
of two (the cap bites), two retries with different waits, two passes that the guard
keeps apart, one fault (`MaxFaults`). FlashQueue: a tab that is hidden once
(`MaxHides`), which makes two polls overlap, one retry per request, four polls
before POLL_TIMEOUT, and a page that starts with any result of an earlier visit.

DemoShop: two tabs, two calls at a time and one fault (`MaxFaults`: a reload, a lost
request or a lost reply). A ticket needs no more than two hands to be used and
released at once; of a third tab the first two know no more than of each other.
Orders: two pages, two requests of the server at a time, three orders (a page that
lost a reply orders again), one unit, so that the second transaction is the one too
many; one save of the seller's form (`MaxEdits`), one fault, one order that somebody
fails (`MaxCancels`), and of the statuses a seller may choose those that matter to a
sale (`Chosen`). Three requests, or a supply of two, give no new interleaving: the bound
of `SoldWithinSupply` for every number is the theorem. Simulator: two users for one
place (`Cap`), two runs (`MaxRuns`), one failed request. Console: one client beside the
super admin, two tabs in one browser or two, two requests at a time: each property
speaks of one tab and one account, and a second request is what may overtake the first.
The user opens the dashboard by its address and the rest by clicks (`Urls`), and the
button is the one that opens an event (`Buttons`), the only one that can leave a suspended
client's event open; `SuspendClient` ends it. Two tabs with two requests reach the
schedule in which one suspends and the other activates. The theorems about this module
hold for every set of buttons. Reports: every page, with two
requests of its timers at a time (an answer can be overtaken), one step of the sale
(`MaxSold`: a number is fresh or it is not), one transition by somebody else (`MaxOps`) next
to any number of clicks, and one failure. A timer that finds both places taken
waits for one, and so does the first request of the chart.

CHECK_DEADLOCK is off wherever the system may stop: a sale in which everybody has an
answer, an ended event, an empty retry list, a user who was told, a shop sold out, a
simulator that was reset. Only Console never stops, and there it is checked.

Fairness. SaleQueue: weak fairness of every tick, because `setInterval` fires again
and again while the drain is on and an awaited command returns, of every verify or release
that has begun, for the same reason, and of `initDrains`; none of users, of the client's
backend or of administrators. EveryoneAnswered supposes of them that every ticket is bought
with or given back in the end, and only then holds behind a gate: fairness of `Expire` would
not do, because a ticket that lapses keeps its place at the gate. WebhookRetry: a request ends (a five-second timeout), commands
are answered, the interval fires and time passes; nothing says that an endpoint ever
answers. FlashQueue: timers fire, a request ends (a ten-second timeout) and a user
who left the tab comes back; the gateway need not answer, nor serve anyone, for
POLL_TIMEOUT is an outcome too. Reports: strong fairness of the timers, because `setInterval`
fires whether or not there is room in `Polls`, and weak fairness of the requests they make,
which the gateway answers or fails; none of users, of loads or of the sale.
CatchesUp speaks of a sale that has come to rest, since a page is always some way
behind one that moves. DemoShop, Orders, Simulator and Console state no
fairness: a person may leave a page open for good, and what ought to happen in the end
does not always (section 4: a customer waits for a lapsed ticket, an order stays PENDING,
a user of the simulator whose poll loop was overtaken is never asked for again), so that
a liveness property would say less than the safety properties do.

## 4. Where code and comments part

**double_release.** `releaseTicket` reads `TicketRelease`, returns the unit, and
writes the row last; the comment at release.controller.ts:250-252 says the
awaited row stops two concurrent releases. It does not: both pass the check
before either writes, and `TicketRelease.jti` is not unique.

One run shows a violation; of what else the comments say and the code does not, a property
has the part that is true, with the excess in its bound.

Met while modelling, without a run of their own. Each is a schedule the models
allow once the assumption named is dropped, or one the models show and the properties
count or leave out.

Gateway:

- `verifyToken` does not look at `TicketRelease` (queue.controller.ts:421): the token of
  a ticket that was given back stays good for its 20 minutes, while its unit is sold
  again (`ClientMay` with "reuse" breaks SoldWithinInventory), although
  release.controller.ts:19-20 calls "more winners than inventory" what it prevents.
- When a release has run its MULTI and its row is not written, because the insert fails
  (answered 200 all the same) or a command before it does (500), then "client retries and
  the duplicate check catches it", says release.controller.ts:181-184. But the check reads
  that very row: the retry returns the unit again. Run failures reaches this with one lost
  call, and UnitsWithinMishaps counts it: a unit too many per mishap.
- The gate "Resumes automatically next tick" (drain.service.ts:85-86), but only verify and
  release decrement `flash:outstanding`. A ticket that simply expires holds its place at
  the gate until the event ends, so that a queue behind `maxConcurrent` such tickets is
  never answered. EveryoneAnswered therefore supposes, wherever there is a cap, that every
  ticket is bought with or given back; without that TLC finds it violated by one ticket
  that lapses under a cap of 1.
- The gate counts `flash:outstanding`, not tickets: a ticket that is verified and then
  released decrements it twice (queue.controller.ts:447, release.controller.ts:222), and an
  INCR that is lost never counts. More tickets may then wait than `maxConcurrent` and a
  batch: one for each of these, as GateOvershoot has it.
- "No other drain can claim the same users" (drain.service.ts:93-94), but a user whom
  ZPOPMIN took and drain-process.lua has not reached is in neither the queue nor the
  result hash, may join again, and is then held by a second tick as well. Run overlap
  reaches this. The user may get two tickets (OneTicketPerUser allows one for each
  `rejoins`), and a winner may be downgraded by the second answer (TurnedAwayWhenEmpty
  leaves out those who joined again).
- `resumeEvent` warms the cache with the row it read before its awaits. A rotation
  answered in between is undone in the cache, although admin.controller.ts:1003 says the
  old secret is invalidated immediately.
- Opening, pausing and closing side by side (`Orderly`): a resume that read PAUSED
  writes ACTIVE over an end, and so on. Two rotations at a time, a rotation beside a
  lookup or an activation: the cache keeps an old entry. A lookup or a settings change
  that fills the cache during an end: it keeps a dead one. A pause or an end between
  the SELECT and the loop of `initDrains`: the drain starts all the same.
- `endEventCore` does not read the results of its pipeline: an end answers 200 with
  the queue open in Redis (`TransitionsSettle` counts it as failed).
- Pause leaves the test reset timer armed, so a paused TEST event loses its queue
  after five minutes, although users "keep their place" (admin.controller.ts:651-653);
  `suspendClient` never clears it.
- `suspendClient` ends the active events only: a paused one stays, and one that a
  request admitted before the flag activates afterwards stays open (`overtaken`). When it
  fails after the flag is written (superadmin.controller.ts:86-96) the account is suspended
  and the event sells on (`missed`), although clients/page.tsx:242 says "This will end all
  their active events immediately". The page offers Unsuspend then, not a second try.
- A release on a paused event with users waiting starts its drain again.
- A batch may issue `rateLimit` tickets beyond the one the gate has room for; ticks
  that overlap serve out of order.
- A retried webhook is pushed back without the LTRIM, so the list may exceed 1000
  for a while; its wait counts from the start of the pass. It is sent four times, not
  three.

Browser SDK:

- A retry of a request that sleeps when `destroy()` comes goes out after it, which
  `DestroyedForGood` allows, and a join that answers then brings the object back to life
  (its first part without `~flaky`); the visibility listener outlives the outcome, so that a tab that comes back
  polls again and `won` may be told twice or turn into `error` (`Final` without
  `shows = 0`); `join` tells `won` without a token when the ticket has lapsed; a timeout
  is not retried; a paused event fails the join for good. ALREADY_JOINED is no event,
  so that the React hook stays `idle`.

Demo shop:

- The expired screen says "Your reservation expired. Please rejoin the queue."
  (App.tsx:154), but the gateway keeps the result of a winner: the join is answered WON
  without a token and `handleJoin` does nothing, and the queue page waits for good. After
  a release the same happens with the released token, which still verifies.
- The gateway burns the token before the order exists (server.ts:149): a lost reply is an
  order the customer sees as offline and then as used, or a burnt ticket without an order
  (`burnt`). The screen may then release a paid ticket.
- A late answer QUEUED overwrites the saved `won_checkout`; a late WON drags a tab from
  the confirmed screen back to the checkout (`crowded`).
- `joinQueue` of lib/api.ts shows every error, and a paused event, as sold out.
- `/api/checkout/fail` releases with the active keys, not with those of the token. The
  map of winners that the webhook fills (server.ts:53-57) is never read.
- OrderConfirmed.tsx says that the shield did not fire for every answer but 409, also
  when the server is offline or the token has lapsed.

Test shop:

- The stock is read again inside the transaction, but not under a lock
  (order.repository.ts:38-44): it oversells by up to one unit per request beside the
  first, which is the bound of `SoldWithinSupply` and no better one holds.
- The SOLD_OUT flag follows the stock that the transaction read, so an ACTIVE product may
  be left without stock; it also overwrites a TERMINATED that came in between, and a
  Terminate overwrites SOLD_OUT.
- `failOrder` neither looks at the present status nor returns the unit, and no page calls it,
  though its route and the comment of `handleExpire` say so. An order whose completion was
  lost stays PENDING, and Pay again orders a second unit.
- The edit form writes the stock it was loaded with: what was sold meanwhile is offered
  again (`revived`). It may be saved twice before it redirects.
- Nothing turns UPCOMING into ACTIVE: a sale that has begun shows as live and answers
  SOLD_OUT.

Simulator:

- Start and reset set `joinInFlight` to 0 with joins under way, whose `finally` makes it
  negative: more than ten are then in flight (`strays`). Two clicks on Start during the
  request for the event start two runs; the answers of a stopped run count in the next
  (`mixed`). An unexpected answer decrements `joining` twice.

Dashboard:

- A wrong password is a 401, hence "Session expired" and a reload. A suspended client
  with a session gets a 401 too and lands on `/login`; only a login leads to
  `/suspended`.
- A late 401, or a failed `me`, removes the cookie the browser has by then. A tab that
  wrote the cookie while its own `me` was under way, and tabs that share a cookie, may
  show one account and act as another, or stay blank (`mixed`).
- The pages with a timer do not wait for an answer before they ask again, so that requests
  pile up at a slow gateway. An answer to a timer that was stopped since overwrites the
  final statistics of an ended event, and nothing fetches them again (`crossed`); so does a
  status that changes between the two parts of a load.
- The event pages poll the statistics, never the event: a status changed by somebody else
  does not show, and a button that no longer fits is answered 409 and stays. The owner's
  page of a PAUSED event polls nothing.
- The chart sets its error once and never clears it, though its timer goes on.
- The live page says "No active events" while its second load runs after a first that
  failed; a load that fails beside one that succeeds leaves its banner over fresh numbers.
- The pages show fields that the API does not return: `timeline` of an event (so that
  `EventTimelineCard` never shows), `activeEvents` of the overview, `totalEvents` of a client.
- A super admin may suspend himself. The admin page offers no Force End for an ACTIVE
  event, and shows fields that the API does not return.

## 5. Proofs

Each theorem holds for every value of the constants that the module's named ASSUME
admits, which is far beyond the instances of section 3, and under the hypotheses it
states itself. Those are about faults, callers and the number of drains, and never stronger
than what the run assumes that checks the same property. Every invariant, action property and refinement of section 3 is stated by a
theorem; what is left to TLC, the liveness properties, stands at the end.

`SaleQueue_proofs` (any number of users, jtis, overlapping ticks and requests). Where
nothing is said, for every fault and every caller; `NoLoss` stands for no lost call and no
crash (signing may fail), `OneDrain` for one tick at a time.

| Theorem | Property | Assumes |
|---|---|---|
| `TypeCorrect` | TypeOK, TicketsGenuine | -- |
| `NoOversell` | units fall short of the inventory by `mishaps` and exceed it by `dup` at most | -- |
| `UnitsOffByMishaps` | UnitsWithinMishaps | releases of a ticket do not overlap |
| `NoUnitLost` | StockConserved | `NoLoss` |
| `DrainKeptRunning` | ActiveIsDrained | -- |
| `OneTicket` | OneTicketPerUser | -- |
| `LostOnlyWithMishaps` | LostWithMishaps | -- |
| `NobodyForgotten` | NobodyLost | `NoLoss`, no end |
| `WinnersServed` | WinnerHasTicket | `NoLoss` |
| `FirstComeFirstServed` | ServedInOrder | `OneDrain` |
| `SoldOutMeansEmpty` | TurnedAwayWhenEmpty | no crash, signing works, no end |
| `GateHolds` | GateOvershoot | `OneDrain`, a constant cap; batches of any size |
| `OneReturn` | ReturnedOnce | releases of a ticket do not overlap, `NoLoss` |
| `SoldKeptBounded` | purchases <= inventory + `dup` | nor is a ticket verified that was given back |
| `NoOverselling` | SoldWithinInventory | both |
| `DoorKeptBounded` | the door, up to `dup` | -- |
| `DoorKept` | DoorHolds | no overlapping release, `NoLoss` |
| `SaleImplementsTicketSale` | KeepsToSale | -- (faults and callers are parameters of TicketSale) |

The arguments; none of the properties is inductive alone.

- Types: a request adds its jti to `used` or `released`, so the type of those needs that
  requests only carry issued jtis, which rests on the rows (TicketsGenuine).
- Units: each step moves one between stock, a tick and a ticket (`ClaimedMoves`,
  `ElementSize`), or loses it with a mishap, or counts it in `dup` (`UnitsExplained`). A crash
  loses one for each tick that holds one, which are no more than the ticks it cuts off. A
  release must be of an issued ticket for its unit to come out of `Live`.
- Mishaps: a ticket is `Repeatable` that was given back and has neither its row nor a
  release on the way to it: the next release passes the check. `RepeatsCounted` says that
  `dup` and the repeatable tickets together are no more than `mishaps`: a mishap makes a
  ticket repeatable, a repetition turns it into a unit, and it is repeatable again only
  when that release fails too. This is why each mishap pays for one unit, and it rests on
  no two releases of a ticket being past the check (`ReleasesApart`, which breaks in run
  double_release) and on none of them having a row (`ReleasesFresh`).
- Purchases: those that stand are of tickets that hold their unit (`SoldLive`), because a
  ticket that is being verified was not given back and is at no release (`VerifiesApart`); the
  rest is the count of units.
- Users: a user may be in several places at once, so the places are counted. `PlacesCounted`
  says that the batches a user is in, the ticks that have the user in hand, the tickets of
  the user and a place in the queue are one and `rejoins` at most, and that whoever has been
  in one and waits no more has a result or the event is over. It needs `AdminAgrees`: the end
  wipes the results, and only the status keeps such a user from joining anew. OneTicketPerUser
  is a part of the sum, and a user who never rejoined is in one place only (`PlaceAlone`).
- Users lost: a tick holds `RateLimit` users at most (`BatchSizes`), so that a lost call, or a
  tick that a crash cuts off, forgets no more (`Forgets`); no other step but the end drops one
  (`ForgottenNext`). `NobodyForgotten` is the case without mishaps, `WinnersServed` has that a
  winner is in the hands of a tick or owns a ticket (`WinnersHold`).
- Order: `PoppedFirst`, nobody in the queue came before somebody in the batch; a bulk script
  that finds stock puts the whole batch back with its scores.
- Sold out: `drain-process.lua` and `bulk-sold-out.lua` say SOLD_OUT in the step that sees no
  unit, and to a user who waits; such a user has no answer yet, unless the user joined again
  (`WaitingFresh`). The third place that says it is the refund of a winner whose ticket cannot
  be signed, and while the event stays cached and signing works no tick gets there
  (`NoDowngrade`).
- The gate, in two halves. `CounterOvershoot`: a tick past its check saw `outstanding` below
  the cap, and a batch in progress is counted in by what it has yet to sign, so the counter
  and the batch overshoot the cap by less than a batch (`GateInv`). `CounterSees`: the counter
  misses no more of the tickets that wait than there are tickets both verified and given
  back, repeated releases and mishaps; a request on its way to its own decrement stands for
  one (`Settling`).
- The door: places in the queue and in batches, units in hand and tickets, against `admitted`
  (`DoorCounts`), with `dup` for units a release counted out twice. A user in two batches has
  two places and was admitted twice, so nothing need be assumed of users.
- The refinement: each step is one action of TicketSale or leaves `FreeUnits` and `Places`
  alone (`SaleStep`). `SaleInv` has what the steps rest on. The count of units and the types make
  `FreeUnits` a number, and positive at `Offer`. TicketsGenuine makes a release one of an
  issued ticket. `CallersInv` says that without "overlap" and "reuse" a ticket being verified was
  not given back, so that verifying is `Buy`; by `OneReturn`, without "overlap" and loss the MULTI
  is `GiveBack`. Otherwise the step is `Reuse` or `Repeat`, which TicketSale then allows. A signed
  token that was not parked is `Lose`.

`EventLifecycle_proofs` (any number of administrators and lookups, every fault):

- `LifecycleTypes`: `Spec => []TypeOK`.
- `OpensOnlyIfActivated`: `Spec => []OpenOnlyIfActivated`, whatever overlaps. It is
  not inductive: a request that is about to write Redis, warm the cache or start the
  drain must have written Postgres before, and so must a lookup that is about to fill
  the cache. `WritesOrdered` says so; `OpenInv` is the conjunction.
- `LifecycleKeepsToLife`: `Spec => KeepsToLife`, that is, the row implements
  `SaleLife`, when callers overlap as `Orderly` says or less: two transitions may run side by
  side, but only two that open or two that close. `LifeInv` adds to `Base` (below) that the
  status a transition read is still there when it writes, or one beside it has made the
  same of it already (`StatusHeld`, `SameTarget`); a crash or a lost reply ends the request and
  keeps it so. For other pairs it is false: a resume that read PAUSED beside an end.
- `LifecycleSettles` and `LifecycleCacheFresh`: TransitionsSettle and SettingsFresh, when
  callers overlap as `Orderly` says or less, which is the instance of run agree with any
  number of callers. The invariant is `Base /\ Agree`. `Base` says which requests are in
  progress side by side (`Overlapping`), so that every step knows its neighbours
  (`Neighbours`). `Agree` says what has already been brought into agreement at each step
  of a request: Postgres with the operation (`PostgresAgrees`), then Redis
  (`RedisAgrees`), then timer, drain and cache (`ProcessAgrees`); that a settings request that
  finds the cache cold has only pauses beside it (`ColdAlone`); and that the row a request carries is
  the present one where the request will put it into the cache (`RowsFresh`,
  `CacheFresh`).

`WebhookRetry_proofs` (any number of webhooks, entries, retries, passes and faults, any
waits and any cap):

- `WebhookTypes`: TypeOK, with that no entry carries more attempts than
  `processRetryQueue` allows. That needs `WorkInv`: one pass runs at a time, and it pushes back
  no entry that is at the limit.
- `WebhookOnce`, `WebhookNotSentAgain`: QueuedOnce and NotSentAgain, from `HookInv(h)` for each
  webhook that no fault has hit. The list and the copy of a pass each hold it once at most; its
  entries have as many attempts as it was sent, one less between the answer and the command
  that brings the list up to date (`Done`); and once it was answered no entry is left but
  that one.
- `WebhookRemembered`: NothingForgotten, from `Remembered` beside `HookInv`: LREM must not take
  the entry that was just pushed.

  The worker filters the list (`FromDue`), LREM removes the first match and LTRIM cuts the
  front. What the proofs need of these is stated for one entry each (`FromDueIs`, `WithoutIs`,
  `TrimIs`, and the `Fewer` lemmas: what is left was there). Where one would argue by
  induction, `LeastNat` gives the least element of a set of naturals.

`FlashQueue_proofs` (any number of polls, retries and switches of the tab):

- `QueueTypes`, `PollsStayBounded`, `AnswersAreFinal`, `DestroyIsForGood`. The two action
  properties are false from an arbitrary typed state, so all four come out of one
  inductive invariant, `PollInv`. Its parts: while `join` is under way, or was never
  called, no timer is armed and no poll in the air (`JoinInv`); once the outcome is told
  neither is, unless the tab was hidden (`OverInv`); as long as no request of the join had to
  be repeated neither of the two sleeps, and a `join` under way holds the abort controller, so
  that `destroy` reaches it (`AbortInv`); a destroyed object has no timer and no listener
  (`DestroyedInv`), so that all it can send is the repetition of a request that sleeps. `PollsBounded` is its last conjunct: a poll that fires moves
  from the timer into the air, and only `Show` makes a second one.

`DemoShop_proofs` (any number of tabs, calls and faults):

- `DemoShopTypes`; `OneTicketOneOrder`: `Spec => []OneOrder`; `OnlyFaultsBurn`:
  `Spec => []BurntOnlyByFault`. `OrderInv` is the inductive invariant of both: at most one
  call is between `Verify` and `Confirm` (`Paying`), it is a purchase or a second try, and
  it is there only while the ticket is used and has no order.
- `SoldXorReturned`: `Spec => []SoldOrReturned`. `SoldInv` adds to `OrderInv` that, while
  nothing was lost and the ticket was on one checkout screen, the call that used the ticket
  or gave it back is still the one its screen waits for, or no checkout screen is left. The
  disabled buttons are all that keeps a purchase and a release apart, and they are enough.

`Orders_proofs` (any number of pages, requests, orders, edits and faults):

- `OrdersTypes`: not inductive without `Linked`, which ties a request to the row it
  completes.
- `OversellBounded`: `Spec => []SoldWithinSupply`. `SupplyInv` is `TypeInv /\ Balance /\
  Floor`: `Balance` says that stock and orders together are what was supplied and revived,
  also for the stock a form was loaded with; `Floor` says that the stock falls below one by no
  more than the requests that are not between the read and the write, each of which may
  still take one.
- `PendingIsBeingPaid`, `PageOrdersOnce`, `SuccessIsPaid`: PendingOnlyByFault, OneOrderPerPage
  and ShownIsPaid, from one invariant, `PayInv`. A page waits for one request at most
  (`WaitInv`); from its creation to the answer that it is completed an order is in the hands
  of the request its page waits for (`HoldInv`); the status of a row is what that request's
  place says (`StatusInv`); a page that no fault hit has no order but the one in hand
  (`OnceInv`).

`Simulator_proofs` (any number of users and runs):

- `SimulatorTypes`, which includes that no counter is negative; `SimulatorKeepsCap`:
  `Spec => []CapKept`, with `Unborn` (joins of runs that have not begun are not under way)
  and `Counted` (the joins under way are no more than `joinInFlight` and the strays).
- `SimulatorCountsRight`: `Spec => []CountersAgree`. `AgreeInv` adds that, while nothing is
  mixed, only the present run has joins and polls (`OneRun`), and a join that will still count
  its user finds the user `joining` (`JoinUsers`). A user who changes status changes two
  counters, which is arithmetic on the sizes of the sets of users (`With`).

`Dashboard_proofs` (Console: any number of clients, browsers, tabs and requests; Reports: any
number of places for requests of timers, of steps of the sale, of transitions and of failures):

- `ConsoleTypes`, `RightAccountHolds`, `NeverStuckHolds`, `SuspendedStaysShutHolds`, from
  `Inv == TypeOK /\ Shapes /\ SessionInv /\ Marked /\ SuspendedStaysShut`. `Shapes` says which
  requests can be how far; `SessionInv` that a tab has one `me` under way at most, that it
  asks for the account of the cookie, and that a tab without a user that waits for none has
  no cookie. `SuspendedStaysShut` names what may be open on a suspended account, and each has
  its cause in a request: a suspension under way, one that failed behind the flag (`missed`),
  a request let in before it (`overtaken`, which `Marked` says of every such request) or the
  super admin.
- `PagesShowTruly`: `ReportsSpec => []ShownTruly`, from `ReportsInv`. Two of its parts say
  why no page is blank: the super admin's overview, system and live pages without a report are
  fetching or have an error (`BoardInv`), and what another page loads is shown together and stays (`ListInv`).
  The rest say why the numbers of an ended sale are final (`FinalNumbers`). An action is taken
  on a page at rest, and the parts of a load and a transition are never under way together
  (`ActionInv`), so that no load has read the row before the page's own transition wrote it; and a
  load that nothing crossed carries the row as it is (`RowInv`). `crossed` remembers a status
  that changed under a load and an answer that came after its timer was stopped.

Only model-checked: the liveness properties EveryoneAnswered (flow), Settles (webhooks),
Answered (sdk) and CatchesUp (reports), which rest on fairness and so on ENABLED, out of the
prover's reach.

## 6. Plan and limits

Done in this order: SaleQueue with its first theorems; EventLifecycle with the
refinement of SaleLife; WebhookRetry; FlashQueue and its theorems; Orders; DemoShop;
Simulator; Console, each with theirs; Reports and its theorem; TicketSale and the theorem that
SaleQueue implements it. What would add most next, in SaleQueue: the test reset, the 48 h
expiry of the event hash during a sale, commands that ioredis repeats after a reconnect.

Not modelled, and why:

- rate limits, health and JWKS: pure I/O and a library's counters. HMACs, JWTs, password
  hashes and the key cache of the server SDK: data that the models reduce to whether it
  fits.
- the React hook: one FlashQueue per mount.
- demo shop: the log, the warning of a second tab, the change of the user id by Reset Demo,
  the map of winners that nothing reads.
- test shop: accounts, addresses, favourites and pictures (independent rows without a
  rule between them), quantities other than one (the page orders one), the shift that
  the form's local time gives `sale_starts_at` at each save.
- dashboard: the numbers and the sorting of the lists, the forms that create events and
  change settings and the Duplicate button (their handlers are in EventLifecycle), the
  documentation pages, and a super admin who suspends himself.
