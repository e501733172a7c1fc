# FreshCart: TLA+ models and proofs

This directory holds the specifications kept beside the FreshCart services: a TLA+ module per
component, the TLC configurations that model-check it on a small instance, and theorems proved
with TLAPS for every value of the constants. Every definition is translated from the code under
`src/services`; `PROJECT.json` maps each one to the lines it stands for.

- `tlasany M.tla` parses a module, `tlc -workers 2 -config X.cfg M` checks a configuration,
  `tlapm M_proofs.tla` checks the proofs of a module.
- `PROJECT.json` lists the components, the runs, the mutants that show that each property can be
  broken by a bug in the code, the hazards with the properties that watch them, and the theorems.

## 1. The system

FreshCart is five Go services. Clients speak HTTP to the **api-gateway**, which limits rates, checks
tokens and proxies to the **user-service**, the **product-service**, the **order-service** and the
**notification-service**. The order-service calls the product-service over HTTP and publishes events
to RabbitMQ; the notification-service consumes them. Each service has its own database (Postgres for
users, products and orders, MongoDB for notifications; the gateway keeps counters in Redis). The
Kubernetes manifests run two replicas of each service, up to five of the gateway and the order-service.

| Component | State | Operations | Talks to | What is hard |
|---|---|---|---|---|
| product-service: stock | `products.stock` (Postgres), gauge `inventory_level` (process) | create a product, change its stock, rebuild the gauges at start | called by the order-service | check and write are two statements; the gauge is set outside any lock; restarts, lost answers |
| product-service: reads | none | list, search, get | | nothing: one SELECT each |
| product-service: inventory consumer | `products.stock` (Postgres), gauges, buffered deliveries (each process) | apply `inventory.update`, read the stock back, set the gauge, ack or dead-letter | RabbitMQ | a redelivery is applied again; the gauge is read back in a later statement, by replicas that overlap; nothing in the repository publishes these messages |
| order-service: circuit breaker | state, counters, time of the last failure, one mutex | admit, record success, record failure | wraps every call of the client | the call runs without the mutex: results arrive in another state |
| order-service: resilient client | the loop of each call, the request body | attempt, back off, give up, cancel | breaker, product-service | retries of a request whose body the first attempt consumes: some fail unsent, some are sent and served again |
| order-service: creation saga | slots of `sagaSemaphore`, list of reservations (process); `orders`, `order_items` (Postgres) | take a slot, read and reserve each item, pay, commit, publish; compensate | product-service, RabbitMQ, Postgres | partial failure, lost replies, contexts that end, crashes |
| order-service: status | `orders.status` | validate, release the stock, write, publish | product-service, RabbitMQ | overlapping requests: the write does not look at what was validated |
| order-service: reads | none | get, list | | nothing |
| notification-service: consumer | connection, buffered deliveries (process); `notifications` (MongoDB) | dial, bind, consume, insert, ack, dead-letter | RabbitMQ | at-least-once delivery over lost connections and processes |
| notification-service: reads | none | list | | nothing |
| api-gateway: rate limiter | one sorted set per client (Redis) | prune, count, add | Redis | count and add are separate; a request keeps the time it took; scores in whole seconds; errors let requests through |
| api-gateway: auth, proxy | none | validate a token, forward, give up | every service | its 5 s timeout ends the contexts behind it, not the work of handlers that do not look at them |
| user-service | `users` (Postgres) | register, log in, issue a token, read a profile | called through the gateway | the UNIQUE constraint decides races; every error of the INSERT is a 409; answers get lost; expiry in whole seconds |
| middleware, health, metrics, tracing | spans, logs, counters | | | read by nothing else |
| deployment and scripts | manifests, dashboards, shell scripts | | | they say how many replicas run and what is restarted |

What makes each of them correct:

- **Stock**: a product is never sold beyond its stock; the gauge shows the row.
- **Breaker**: it opens, probes and closes exactly when the results say so, whoever recorded them.
- **Client**: what it answers agrees with what the server saw, which serves a call at most once per attempt;
  every call ends; once the server answers again the breaker closes.
- **Saga**: an order exists only with all its stock; the answer says which; a slot of the
  bulkhead always comes back; every request is answered.
- **Status**: an order moves along `pending -> confirmed -> packing -> out_for_delivery -> delivered`
  or to `cancelled`, never past a stage; a cancelled order has given its items back, once; events
  tell what happened.
- **Notifications**: an event that reached the queue is stored or dead-lettered, and stored twice only
  because something was lost.
- **Rate limiter**: what passes in a second is bounded by `burst` and by the requests that overlap;
  nobody is refused for what an earlier second saw.
- **Inventory consumer**: every update that is acknowledged was applied, once unless something was lost;
  while nothing is lost the stock is what the acknowledged updates add up to.
- **Accounts**: an address belongs to whoever was told so; credentials that were confirmed get in; a token
  names the account it was issued to and passes for 24 hours.
- **All together**: what is missing from the shelves is what the orders that stand contain, and what a
  user is told is what happened to the order.

## 2. The modules

| Module | Models | Checked by | Proved in |
|---|---|---|---|
| `ProductStock` | `createProductHandler`, `updateStockHandler`, `initInventoryMetrics` | `MCProductStock` | `ProductStock_proofs` |
| `CircuitBreaker` | `circuitbreaker.go` | `MCCircuitBreaker` | `ResilientClient_proofs` |
| `ResilientClient` | `client.go` and `retry.go`; extends `CircuitBreaker` | itself | `ResilientClient_proofs` |
| `OrderSaga` | `createOrderHandler` and what it calls, with the stock updates it causes | `MCOrderSaga` | `OrderSaga_proofs` |
| `OrderStatus` | `updateOrderStatusHandler`, `releaseStockForOrder`, `publishOrderEvent` | `MCOrderStatus` | `FreshCart_proofs` |
| `Notifications` | the publisher's connection, RabbitMQ's queue, `startRabbitMQConsumer` of the notification-service | `MCNotifications` | `Notifications_proofs` |
| `RateLimiter` | `rateLimitMiddleware` in every replica, with Redis | `MCRateLimiter` | `Gateway_proofs` |
| `InventoryConsumer` | `startRabbitMQConsumer` of the product-service in every replica, its queue | `MCInventoryConsumer` | `InventoryConsumer_proofs` |
| `Accounts` | `registerHandler`, `loginHandler`, `getUserHandler`, `generateToken`; `authMiddleware`, `proxyHandler` | `MCAccounts` | `Gateway_proofs` |
| `OrderRequests` | abstract: what placing an order promises | `MCOrderSaga`, as `ImplementsRequests` | `OrderSaga_proofs` |
| `AtLeastOnce` | abstract: what a consumer that acknowledges by hand promises | `MCNotifications`, `MCInventoryConsumer` | `Notifications_proofs`, `InventoryConsumer_proofs` |
| `FreshCart` | the life of an order across the services, extends `OrderStatus` and composes it with `OrderRequests` and `AtLeastOnce` | `MCFreshCart` | `FreshCart_proofs` |
| `SumTheorems` | no code: lemmas about `SumFunctionOnSet`, which the ledgers of stock add up with | | itself |

How state and actions correspond to the code:

**ProductStock.** `rows` and `stock` are the table, `level` the gauge. A handler is a goroutine slot:
the number of handlers bounds how many requests are served at once, not how many are served. `select`,
`update` and `gauge` are the points between two SQL statements (and between the second one and the
gauge), each statement being a transaction of its own. `Restart` kills a process with its requests and
rebuilds the gauges from what the query returns, which may be part of the table. Postgres may still be
at an UPDATE whose process has died (`orphan`): it commits after the gauges were rebuilt, or never. A
statement fails without effect, is acknowledged, or takes effect while its handler is told of an error
(`UpdateUnheard`, `InsertUnheard`). `contended` (products two requests were served for at once) and
`unheard` (products with an UPDATE nobody heard of since the start) are history variables. Products are
created with a stock that is not negative. The SELECT that getProductHandler makes changes nothing and
is left out.

**CircuitBreaker.** `Execute` holds the mutex twice, before and after the call, so a caller has two
atomic steps, admission and result, and anything may happen in between. Time is an `age` since the
last recorded failure that `Tick` raises up to `OpenTimeout`. `recent`, a window of the latest results
recorded since the last transition, and `openFor` are history variables that only properties read.

**ResilientClient.** One goroutine per caller, all on one breaker, whose variables and actions the module
takes over; the specification of the two together is `ClientSpec`, and `Spec` remains that of the breaker. An attempt is admitted (`Launch`) or
rejected, reaches the server (`Reach`) or not, and ends with a response or an error. A request with a
body (PATCH) shares one reader among all its attempts: `Do` sends `req.Clone(ctx)`, which copies the
reader and does not rewind it, so an attempt that follows one that was sent finds the body at its end.
On a connection from the pool the transport sees that nothing was written, rewinds the body with `GetBody`
(set at main.go:703, kept by `Clone`) and sends the request in full (`Reach`); on a new one the attempt fails
before anything is sent, and the breaker counts that as a failure of the server
(`BodyMissing`). How long a backoff takes is abstracted; that it can be cancelled is not.

**OrderSaga.** `pc` follows `createOrderHandler` from the bulkhead to the answer. A stock call is one
step `Send` per attempt that starts a *job*, the goroutine in the product-service, and one of: its reply,
`Timeout` (the job runs on), `CallCancelled`, `SendFails`. An attempt that failed in a way that is retried is
followed by another, up to `MaxSends` in all, or by none that is sent (`AttemptFails`, `Retries`): the client
may retry, and whether a retry of a request that was sent is sent again is the connection's business (see
ResilientClient). So one call can have several jobs that take effect. A job is two
statements (`Select`, `Update`). `Compensate` and the loop around it release the items in the order of
the list, log what fails and go on. `taken` is a ledger of every unit of stock that moved for an item,
`unheard` counts for each item the attempts that were given up while their job could still take effect.
`Faults` is a constant: which failures the environment may produce, so that a run or theorem says under
which failures a property holds.

**OrderStatus.** A handler validates against the status it has read (`Validate`), gives items back one
call at a time if the order is being cancelled, writes the status in a statement that does not look at
the old one (`WriteStatus`) and publishes. That statement commits by itself, so one whose connection is lost
(`WriteFails`) or whose process dies (`Crash`) may be left behind: its handler is then at `orphan`, and Postgres
commits it at any later time or never (`OrphanCommits`, `OrphanDies`). A release that is retried inside the
client may be made more than once (`ReleaseLost`). All failures may happen in every run; the history variables
`faults` (what has failed so far) and `overlapped` (orders a request was let through for while another, or an
UPDATE that another left behind, was at work on it) let
properties say what they depend on. Requests that are refused change nothing and are not steps.

**Notifications.** RabbitMQ is modelled as the code uses it: durable queue, transient messages
(`DeliveryMode` is not set), topic exchange that drops what no queue is bound for, no confirms, no
prefetch limit, acks valid only on the connection that delivered. `place` says where the broker has
each message, `held` and `handling` what a consumer has. A lost connection leaves its deliveries in
`limbo` until the broker notices; the client's loop still works on what it has buffered, and its acks
mean nothing. The order service's channel is made once per process (`RestartPublisher` is a new
process). The order in which one consumer works on its deliveries is left open.

**RateLimiter.** (Its specification is `LimiterSpec`.) A request is at one of four points: idle, its time taken (`prune`), pruned (`count`),
found room (`add`); the pipeline is not a transaction, so its two commands are two steps. The clock
ticks freely, so any step may be late by any time. `window` is the sorted set with whole seconds as
scores, and goes when its last entry does or when `expires` is reached (`Evict`; a second of the model
is not exact about when). `RedisFails` lets the request through at any point, with or without the effect
of the command that failed: the code looks at no error of ZADD and EXPIRE, and fails open on any of the
pipeline, the 100 ms of its context and the client's hanging up included. `passed` counts what was let
through by the second it took, `through` by when that was decided.

**InventoryConsumer.** The broker side is that of Notifications but for the default exchange: what is
published before the queue is declared is gone, and messages may be persistent or not. `step` stands
between the statements of the loop: the UPDATE, the SELECT that reads the stock back (both transactions of
their own, other replicas in between), the gauge, the ack. An UPDATE may be committed although it returns an
error (`UpdateFails`), and then the message is dead-lettered all the same. The code has no lower bound for
the stock here and acknowledges an update that names no product; `inventory_ghost.cfg` has one. A process
that dies starts again with the gauges of the rows it could read. `unheard` and `applied` are history.

**Accounts.** A request is followed at both ends: `gate` is the gateway (authentication and proxy), `job`
the handler in the user service, which never looks at its context, so `GiveUp` after 5 s leaves the job
running and its answer is lost. The clock runs in ticks, several to a second, because `generateToken` cuts
the expiry to a whole second; a token carries who it names, when it expires and (history) when it was issued.
`InsertFails` is every error but a conflict, a lost answer of an INSERT that took effect included: the
handler answers 409 to all of them. `Crash` takes a process with its jobs, and an INSERT already sent may
still be executed (`InsertOrphan`). A profile request asks for any id, its own or another's: the handler does
not compare it with the token. `First72` is what bcrypt looks at of a password: `GenerateFromPassword` refuses
one of more than 72 bytes, `CompareHashAndPassword` cuts it (`Matches`), so a login with a longer password
that begins with the right one succeeds.

**OrderRequests** and **AtLeastOnce** are abstract. The first says what an order request does to the stock
and to the orders, with no calls, jobs, slots or retries; `OrderSaga` implements it by the refinement mapping
at the end of that module (`StageOf`, `TakenOf`) under the failures that do not lose a reply. The second is
a queue with a worker, where work may be repeated once for each loss; `Notifications` implements it with
`stored` as the work, `InventoryConsumer` with `applied`. That everything is acknowledged or rejected at the
end is no part of them: it is `EventHandled` of Notifications.

**FreshCart** (`CartSpec`) puts the three parts on one stock, one orders table and one exchange. The variables
of the status part are those of OrderStatus, which it extends; the other two are instances (`Placing`, `Telling`). The saga part takes the
steps of `OrderRequests` (`PlaceOrder`, `AnnounceOrder`), status requests those of `OrderStatus` (`StartChange`,
`GiveBackStock`, `FinishChange`) and the notification service those of `AtLeastOnce` (`TellUser`); what one
part does that another sees is conjoined: a release of OrderStatus adds the quantity of the item to the stock,
a published event enters the queue if it is one of `Messages` (the events that are followed), a status request
needs a row, which is there from the commit on, before the saga has announced or answered anything. In this
module the requests for one order take turns and do not fail, because OrderStatus is about what happens then.

How the modules fit together: `ResilientClient` takes its steps with those of `CircuitBreaker`, which it extends
(so it drives the breaker only as that module allows, by the shape of its actions); `OrderSaga` uses what
`AnswersTruthful` says of the client (`MaxSends` attempts per call, each served at most once) and contains the
update path of the product service; `OrderSaga` refines `OrderRequests`, `Notifications` and `InventoryConsumer` refine
`AtLeastOnce`; `FreshCart` composes the two abstract specifications with `OrderStatus`. `RateLimiter` and
`Accounts` are the two sides of one middleware chain of the gateway: what the first lets through is a request
of the second.

## 3. What the runs show

| Run | Instance | Shows |
|---|---|---|
| `stock_concurrent` | 1 product, 3 handlers, quantities to 2 | stock is never below `-(handlers - 1) * MaxQty`, with restarts and orphaned statements; a product whose requests never overlapped is not oversold and its gauge is current |
| `breaker` | 3 callers, thresholds 3 and 2, timeout 2 ticks | every transition is earned, none is overdue; an open breaker becomes ready to probe |
| `client` | a PATCH and a GET caller, 2 retries | a response came from the server, an error only after all retries, and a call is served at most once per attempt; every call ends; the breaker closes for good once the server answers again, retries that fail for want of a body notwithstanding |
| `saga_clean` | 3 sagas on 2 products, 2 slots, no lost replies | compensation is exact, both databases agree at rest, each saga is a request of `OrderRequests` (`ImplementsRequests`) |
| `saga_faults` | 2 sagas for 1 slot and 1 product, 2 attempts per call, every failure but an unknown COMMIT | no order without its stock, none that took more of it than attempts were given up, and an answer that says whether it exists, whatever fails; slots accounted; every request whose process lives is answered, the one that waits for the slot included |
| `saga_cancel` | 2 sagas, contexts end | *violated*: the saga is told that an item is reserved, its context ends, the next step fails, and the release fails before it is sent: the stock stays taken for no order |
| `status_changes` | 1 order of 2 items, 2 handlers, all failures | stages are not skipped, cancelled orders gave back, events are truthful, orphaned UPDATEs included; a terminal status is final unless a request met another one or the UPDATE it left behind |
| `notifications` | 2 replicas, a good and a malformed message, 2 losses, all failures | an at-least-once channel (`DeliversAtLeastOnce`: acked is stored, duplicates bounded by losses), nothing is forgotten, no event is dropped while a replica consumes, queued events are handled |
| `rate_limit` | 1 client, 2 requests at once, burst 1, 3 seconds, 1 Redis error | at most `burst + 2n - 1` requests of one second pass (one more for each error), late ones included; whoever is refused, `burst` requests were let through since its second |
| `accounts` | 3 requests, 2 addresses, 3 passwords (one too long for bcrypt, which begins with another), 2 ticks a second, a lifetime of 1 s | 201 means that the address is the client's and nobody else's, 409 that it is somebody else's unless a statement failed; confirmed credentials get in; tokens pass for their lifetime less at most a second; a profile that is found is there, and one's own is found unless the SELECT fails |
| `inventory` | 2 replicas, 2 updates of one product and a malformed message, 1 loss, all failures | an at-least-once channel; while nothing is lost the stock agrees with what was acknowledged, and some replica's gauge with the stock |
| `fresh_cart` | 2 orders of 2 items each on 2 products, 2 status requests at once, 1 loss, two events followed | stock is conserved, notifications exist of what happened, the latest event is the status unless a request came before the confirmation |

Why the bounds are enough to be interesting:

- Three handlers on one product are the least where "the last to pass the check" differs from both
  "the first" and "the only other one"; `MaxStock` (2) is less than two maximal reservations.
- Three callers let results of calls admitted in closed, open (half-open probe) and half-open states
  arrive in any other; the failure threshold (3) is above the success threshold (2), so mixing up the
  two is seen. Two ticks separate "just failed", "half way" and "ready".
- The sagas of `CrossedItems` name two products in opposite orders over a stock that serves one and a
  half of them, and one names a product that does not exist after one that does: reservations are
  refused after an earlier one succeeded, and the bulkhead (2) is full with a third saga waiting.
- The two sagas of `saga_faults` (`WaitingItems`) have one slot, so one of them waits while the other runs with
  every failure, timed-out attempts included (a slot that is not given back makes the waiting request stay: that
  is the mutant of `EveryRequestAnswered`). One wants a product, the other the same product and one that
  does not exist; two attempts per call are the least that can take an item twice.
- An order with two items has a release between them that can fail; two handlers are the least that
  overlap. `MaxReleases` (3) is above the number of handlers, so `ReleasesBounded` (in `status_counts.cfg`)
  is not implied by it.
- `MaxLosses` (2) lets a connection or process be lost again during the redelivery after the first loss.
  Two messages of different kinds make "settled the wrong delivery" visible.
- Two requests and three seconds are the least in which the bound of `rate_limit` is reached: both count
  an empty window, and two more are late until the key has expired two seconds on. With one less in the
  bound the run fails.
- Three requests of `accounts` are two registrations that race and a login that follows one of them, or a
  registration, a login with its token and a profile request with that; with two ticks to a second, a token
  issued in the second half of one lives for one tick less.
- Two updates of one product in `inventory` let two replicas be between UPDATE and gauge at once, which is
  where a gauge ends up old; one loss is one redelivery.
- The orders of `fresh_cart` want more of a product together than there is and are cancelled or delivered
  independently; one of their event streams is followed to the user.

Some type invariants are checked by configurations that are not runs of their own in `PROJECT.json`
(section 6, last table), as are properties of which the listed runs have a stronger form.

Deadlock is checked everywhere. In OrderSaga, OrderStatus, Notifications, InventoryConsumer, Accounts and FreshCart,
where work can be finished, a `Rest` step says what finished means, so a system that stops anywhere else is found; the other models
can always serve one more request or let time pass.
Symmetry is used over processes and requests that the specification treats alike, in runs of invariants and
in `inventory`, whose only other property is a safety refinement (no fairness, no liveness).

## 4. Fairness

Safety runs use `Spec`; liveness runs `FairSpec`.

- `CircuitBreaker`: time passes (`Tick`), calls return (the HTTP client has a 5 s timeout), and a
  caller that records does so (a mutex held for a few assignments). No caller is assumed to make a
  request, so the property is "ready to probe", not "half-open".
- `ResilientClient`: a goroutine in the loop goes on: the breaker answers at once, an attempt ends
  within 5 s, a backoff after its delay; time passes (`ClientTick`). Starting and cancelling calls is not
  assumed; `BreakerCloses` has as its premise that there are calls again and again and that the server has
  stopped failing them (`Outage`).
- `OrderSaga`: the goroutine that can move does, jobs included. Taking a slot needs only *weak*
  fairness, because a request takes a slot once and every holder gives it back. Failures, timeouts and
  cancellations are not assumed: a call ends by its own job's reply. A crash ends a saga, and the
  property then says `crashed`.
- `Notifications`: consumers dial for ever (every 5 s) and end each delivery within the 5 s of the insert;
  the broker delivers what it has and notices dead connections by heartbeat. That losses stop is the
  bound `MaxLosses`. The broker is not assumed to come back, so `EventHandled` speaks of the time it
  stays up.
- `InventoryConsumer`, `Accounts`, `FreshCart`: safety only. The loop of the consumer is that of
  Notifications, whose liveness is checked there; that every saga is answered is checked in OrderSaga.

## 5. What is proved

All theorems hold for every value of the constants allowed by the named assumptions of each module
(finite sets of processes, thresholds at least one, item lists no longer than `MaxItems`, and so on).

- **ProductStock.** `TypeCorrect`, and `OversellIsBounded`: `stock >= -(n - 1) * MaxQty` for n handlers.
  The bound is not inductive: what matters is what has passed the check but is not written. The
  invariant `OversellInv` says that some handler `w`, the last to pass the check, exists such that the
  bound survives even if every other pending reservation is written at the largest quantity and `w`'s at
  its own (`Owed`). Passing the check makes the handler the new witness (`CheckKeepsBound`); a write
  moves its quantity from `Owed` into `stock` (`WriteKeepsBound`). `NotOversoldAlone` and
  `GaugeCurrentAlone` are about a product outside `contended`, from `SerialInv`: at most one handler is at
  it, its check still holds when it writes, and what it is about to put into the gauge is in the row.
- **CircuitBreaker.** `CountersInvariant`: the counters count exactly the latest run of equal results
  since the last transition. From it `NothingOverdue` (the breaker never sits through the results that
  should have moved it) and the action property `TransitionsAreEarned`.
- **ResilientClient.** `ClientTypeCorrect` and `AnswersAreTruthful`, from `CallInv`: what each phase of the loop says of
  the attempts made so far: no call reaches the server more often than it makes attempts, of which there are at
  most `MaxRetries + 1`. `ClientCountsAttempts` carries `NothingOverdue` over to the breaker behind the retries.
- **OrderSaga.** `BaseInvariant` (types, where the loops are, slots, and that a job names an item of its
  saga), hence `TypeCorrect` and `BulkheadHolds`: `len(sagaSemaphore)` is the number of running sagas on
  every path and under every failure. `OrdersOwnTheirStock` and `AnswersMatchOrders`, assuming that
  `"commitUnknown"` is not among the faults, from `OrderInv`: the answer is decided once
  (`StageOK`), a failed saga owns no order (`OrderOK`), and as long as a saga has not failed nothing of it is
  given back (`LedgerOK`). The argument for the ledger is a count of attempts: each one that was, or may yet be,
  served for an item is the one that succeeded, the one the saga waits for, or one that was given up
  (`ItemOK`), so the item is taken at least once and at most once more than `unheard` says.
  `SagaImplementsRequests` and `CompensatesExactly` assume that `Faults` has only `"unavailable"`,
  `"orderDB"` and `"brokerDown"`, failures that are answered: every step maps to a step of `OrderRequests`
  or a stutter. What `OrderInv` lacks for that is the other half of a saga's life: `CleanInv` says of a
  failed saga that it has no job but the one it waits for, and that an item is still taken exactly if its
  release was refused or is still to come (`FailedOK`, `ToRelease`). `StockAgreesWithOrders` states
  `StockMatchesOrders` under the same failures: `StockInv` says at every moment that a product lacks what
  the ledger of all sagas has taken of it, each step of a job moves one entry of the sum and the row
  alike, and at rest `CleanInv` leaves the entries of the orders and of releases that were refused, which
  the property excludes.
- **OrderStatus.** `TypeCorrect`; `StagesInOrder` and `EventsTellTheTruth` from `HistoryInv` (what a
  handler has read is a status the row has had, and its target follows it); `CancellationReleases` from
  `ReturnedInv` (what a cancelling handler has passed in its loop is given back);
  `FinalWithoutOverlap` from `AloneInv` (the only handler at an order, or the only UPDATE left behind there, was
  let through on the status the order still has).
  These hold with any number of handlers and under every failure. Three more are about runs in which
  nothing fails. `CancellationReleasesOnce` rests on `CalmInv`: in an order no two requests worked on at the
  same time, an item is given back once if the order is cancelled or its only handler has passed the item on
  the way there, and not at all otherwise. `LastEventIsCurrent` adds that the handler at the order is
  between write and event whenever the two disagree (`CalmLatestInv`). `ReleasesAreBounded` needs no such
  order: `CountInv` counts the handlers that have passed an item and those that still come to it, two
  disjoint sets as long as nobody has written, and nobody joins them afterwards.
- **Notifications.** `TypeCorrect`; `AckedAreStored` (a delivery marked inserted is stored);
  `NothingForgotten` from `HandsInv` (a delivery is in the buffer or with the loop, not both, and a new
  connection starts empty-handed); `DuplicatesAreBounded` from `CopiesInv`: what is stored, plus the
  consumers that still have the event in hand, plus one if the broker will deliver it again, is at most
  one more than the losses. `ImplementsAtLeastOnce` puts these together: every step of the pipeline is a
  step of `AtLeastOnce` or a stutter, because the bound holds after every insertion and what is
  acknowledged has been stored (`StoredInv`). `EventsAreQueued` is an action property, from `BoundInv`: a
  consumer that is connected has bound every key, so an event published meanwhile finds a queue.
- **RateLimiter** (in `Gateway_proofs`). `LimiterTypeCorrect`, and `WindowIsBounded` from `CountInv`, a count per client and second.
  While the second lasts, what has passed is in the window but for failures (members are told apart,
  prunes spare the current second, and only a failure leaves an entry in a key that is about to expire), so
  whoever finds room was preceded by fewer than `Burst`; with what is about to be added that makes
  `Burst + n - 1`. When it is over, at most the n requests under way can follow, whatever they find.
  `RefusalsAreJust` is an action property from `RefusalInv`: the entries of a window with scores from a second
  on are at most the requests let through since then, because a request decides no earlier than the time it took.
- **Accounts** (in `Gateway_proofs`). `TypeCorrect`, `RegistrationsAreTruthful`, `LoginsAreTruthful` and `AdmissionsAreTimely`, with any
  number of requests, any tick and lifetime, and under every failure, from `AccountsInv`. Of the rows it says
  that each is its registration's own, inserted once, under an address of its own (`UsersOK`); of a request
  that a job past its check has the row it found (`JobOK`), that a token names a row and counts from the
  second it was issued in (`TokenOK`), and that the service's answer is true already before the gateway
  forwards it (`AnswerOK`). Rows and tokens only come, so a step has to answer for its own request alone
  (`UntouchedOK`, `OneRequestStep`); the rounding of the expiry is `ExpiryBounds`.

- **InventoryConsumer.** `TypeCorrect`. `ImplementsAtLeastOnce` goes the way of Notifications with `applied` as
  the work (`HandsInv`, `CopiesInv`, `AppliedInv`). `StockAgreesWithQueue` says what the stock is while nothing
  is lost: every replica with deliveries is then connected (`ConnectedInv`), so an applied update leaves the
  queue, and each UPDATE adds one message to the sum of those that count. `SomeGaugeIsCurrent` from `GaugeInv`:
  for each product some replica is right or about to be, that is, its gauge shows the stock, or it has
  still to read the stock, or holds a reading that is current. Whoever writes becomes that replica.
- **FreshCart.** That the steps of the composition keep the invariants of OrderStatus is proved first
  (`StatusInv`), then `CartInv`: a request of OrderStatus is at an order only after the commit, and before
  it nothing of the order was changed or given back. `StockIsConserved` follows from `LedgerInv`, a
  ledger of every item: `stock = InitStock - sum of quantity * (taken - given back)`, which reservation,
  compensation and release change by one entry each. `UsersAreToldTheTruth` from `ToldInv`: a published event
  tells a status the order had, and each status had is published but for the one a handler is about to tell
  and a confirmation of a saga that has not got there. `LatestEventIsCurrent` from `LatestInv`, for orders
  nobody asked to change before the confirmation was published.
- **SumTheorems.** `SumFunctionOnSet` over a finite set is an integer (`SumIsInt`), splits off any one element
  (`SumSplit`), changes with one entry (`SumChange`) and needs only the entries that are not zero
  (`SumOfSupport`). The folds of the community modules are a CHOOSE of a recursive function; that the
  function exists is proved here for subsets of a finite set, by an induction stated as membership in a
  set (`SubsetInduction`), which needs no operator parameter.

The proofs of OrderStatus are in `FreshCart_proofs`, which builds on them, and those of RateLimiter and Accounts
share `Gateway_proofs`.

Only model-checked: liveness, that is `OpenEnds`, `BreakerCloses`, `CallEnds`, `EveryRequestAnswered` and `EventHandled`, which with
`ENABLED` is out of the proof system's reach. Every other property of a run that passes has a theorem. The theorems
of the saga that assume something of `Faults` assume what the runs of those properties do; no other theorem does.
No module here declares a RECURSIVE operator.

## 6. Where the code and what is said of it differ

The run `saga_cancel` ends in a counterexample to something the repository says; `PROJECT.json` quotes it:
`releaseReservedStock` runs with the request's context (main.go:744). In the trace a saga hears that its first
item is reserved, its client hangs up, reading the second product fails, and the release of the first fails
before it is sent because the context has ended: the item stays taken for no order (main.go:455: "On any
failure, compensating transactions release reserved stock"). `ReservedIsReleased` asks only for items the saga
was told are reserved, and only when no call of it is in flight, so a compensation with a context of its own
would satisfy it.

Further configurations, kept here and run the same way, violate their one property:

| Configuration, module | Property | What happens |
|---|---|---|
| `stock_oversold`, MCProductStock | `NeverOversold` | `updateStockHandler` reads the stock and subtracts in separate statements, the second without the check (main.go:742, :756): two overlapping requests sell the last unit; main.go:734 says "Check if stock would go negative", :716 "HTTP 409 if insufficient stock" |
| `status_undone`, MCOrderStatus | `TerminalIsFinal` | the UPDATE of the status does not repeat the check: `packing` over `cancelled`, after the stock was given back; SYSTEM_DESIGN_OUTLINE.md:138 draws "cancelled --> [*]" |
| `notify_deaf`, MCNotifications | `PublishedWhileUp` | `connectRabbitMQ` runs once: after a broker restart each publish of a running order-service fails with a log line; completed.md:134 says "State changes publish events to RabbitMQ" |
| `accounts_conflict`, MCAccounts | `ConflictMeansTaken` | any error of the INSERT is answered 409, an address nobody has included; user-service main.go:321 says "Returns HTTP 409 Conflict if the email already exists" |
| `cart_overtaken`, MCFreshCart | `LatestEventAlwaysCurrent` | the row can be seen and its status changed between the commit and the publishing of the confirmation: "confirmed" is the latest event of an order that is packed |
| `gauge_stale`, MCProductStock | `GaugeCurrent` | two overlapping updates set the gauge in the opposite order, or an UPDATE takes effect and its handler is told of an error; until the next change the gauge is not the "Current inventory level" main.go:88 calls it |
| `breaker_on_time`, MCCircuitBreaker | `HalfOpenOnTime` | a late failure in the open state restarts the wait (circuitbreaker.go:164); SYSTEM_DESIGN_OUTLINE.md:184 says half-open 10 s after opening |
| `client_body`, ResilientClient | `RetryHasBody` | `Clone` does not call `GetBody`; main.go:702 says the body is re-read on retries. That happens only where the transport itself retries, on a connection from the pool; on a new one a retry of a PATCH fails unsent and counts against the breaker |
| `saga_lost_reply`, MCOrderSaga | `SagaAtomic` | a reservation that timed out for its caller commits later and is not in the list to release |
| `saga_oversold`, MCOrderSaga | `SagaAtomic` | without any failure: while a product is oversold, a release smaller than the deficit is refused with 409 and forgotten |
| `saga_commit`, MCOrderSaga | `OrdersHaveTheirStock` | a COMMIT whose acknowledgement is lost is taken for a rollback: the order exists, its stock is released, 500 is answered |
| `rate_window`, MCRateLimiter | `SlidingWindow` | scores are whole seconds, so the window is the clock second: around its end up to twice `burst` requests pass within less than a second; main.go:229 says "Maximum burst size allowed within a 1-second window", ARCHITECTURE.md:78 "sliding window" |
| `notify_restart`, MCNotifications | `DeadLettersKept` | messages are transient, in the dead-letter queue too; ARCHITECTURE.md:77 says they are not lost |

And these pass; they are kept out of the list of runs because they repeat one of its questions:

| Configuration, module | Checks |
|---|---|
| `status_counts`, MCOrderStatus | `ReleasesBounded`: an item is given back at most once by each handler that saw the order confirmed; `CancelReleasesOnce` and `LastEventCurrent`: for orders whose requests never overlapped, a cancellation releases each item once, and the latest event is the status |
| `inventory_ghost`, MCInventoryConsumer | the properties of `inventory` and the type invariant, with a message that names a product without a row |
| `accounts_types`, MCAccounts; `client_types`, ResilientClient | the type invariants of these two |

Met while reading and not a matter of a run: the breaker's own rejection is retried through
the backoffs, while SYSTEM_DESIGN_OUTLINE.md:185 says only 5xx and connection errors are; the list of
reservations dies with a process that crashes, and its stock stays taken (completed.md:145-146 says failed
orders release and are atomic); completed.md:288 promises 503 when the bulkhead is full,
while the handler waits for a slot until its context ends and only then answers 503; the semaphore is
per process, so two replicas run twice as many sagas; retry.go:17 caps the delay including its jitter,
`calculateDelay` caps first and then adds the jitter; the parameter `rps` of the rate limiter, "Maximum
requests per second per client", is read by nobody; ARCHITECTURE.md:11 calls the limiter a token bucket.

## 7. Plan

Done, in this order: ProductStock, CircuitBreaker, ResilientClient, OrderSaga, OrderStatus, Notifications,
RateLimiter, each with its runs and its proofs; then OrderRequests and AtLeastOnce with the refinements and
their proofs, Accounts with its proofs, InventoryConsumer, and FreshCart; then the proofs of these two and of
whatever the runs checked without a theorem. Left, by importance:

1. `FreshCart` with status requests that fail and overlap on one order, which bounds by `MaxReleases` how far
   stock and orders can drift apart.
2. An abstract specification of stock as its callers see it (a bounded account), implemented by ProductStock
   with one handler.

## 8. Not modelled

- Reads (product lists and search, orders, users, notifications): one query each, no state.
- Middleware, health checks, metrics other than the stock gauge, logs and spans: nothing reads them.
- The bodies of HTTP and AMQP messages beyond what handlers branch on: a body parses or it does not
  (`DecodeFails`, `Malformed`).
- A second process of the product-service shares the table and has its own gauges: ProductStock has one
  process; more handlers stand for the other's requests as far as the table goes.
- Prices and totals; payment is a step that always succeeds, as in the code.
- Time, other than the breaker's timeout: that a call times out, a context ends or a heartbeat is missed
  may happen at any moment.
- Redis losing its data (a request then finds an empty window, as after `Evict`), clocks of the gateway's
  replicas that disagree, and a ZADD that takes effect long after its error.
- Passwords and tokens beyond what decides: a password equals another or not, a token is one the service signed
  or none; hosts' clocks agree. Users are never deleted by the code, nor are rows of any table.
- In FreshCart: failures and overlaps of status requests on one order, which are in OrderStatus, and what
  breaks the refinement of OrderRequests (lost replies, hang-ups, crashes), which is in OrderSaga.
- Compose files, Kubernetes manifests, dashboards and shell scripts.
