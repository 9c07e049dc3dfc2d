# A verification project for the ecommerce platform

The platform is an event-driven marketplace that mostly sells cash on delivery.
Each service owns a Postgres database. Work crosses service boundaries through
an outbox written in the same transaction as the state change, through HTTP
calls under idempotency keys, and through Kafka. What can go wrong is therefore
rarely inside one request: it lies in the order in which requests, retries,
the reaper, the sellers and the couriers meet.

This directory models the services and workers in which such orders matter: the
saga and what it commands, the delivery and its money, the storefront, the search
read model, and the smaller services with a state machine or a queue of their own.
Everything is translated from the code under `src/`.

## 1. Survey

### Parts and their state

| part | state it keeps | operations that change it |
|---|---|---|
| inventory-service | two counters per product, reservation rows, idempotency keys | reserve, release, consume |
| order-saga | saga row, one seller order per seller, outbox, idempotency keys | start_saga, advance_saga, cancel_children_of_ended_saga, transition_seller_order, reaper, outbox cleanup |
| saga-dispatcher | claims, attempts and parking on the outbox rows, processed_events | claim, record, handle, mark processed, forget, defer, park |
| payment-service, card | append-only ledger, idempotency keys | charge, refund |
| payment-service, escrow | double-entry journal | book delivery, settlement, payout |
| fulfillment-service | shipments, settlement batches and rows | book, courier callback, import settlement |
| circuit breaker and bulkhead | breaker state, failures, probe flag, slots | before call, on success, on failure |
| cart-service | cart in Redis and in Postgres, checkout lock | add, checkout, sweep |
| bff-checkout | none of its own | quote, fraud check, start_saga |
| webhook-handler | Redis marks, processed events, outbox | receive |
| notification-service and -worker | notification rows with claims | enqueue, claim, send, settle |
| dlq-reprocessor, kafka consumer | offsets, unsent dead letters, retry counts | republish, wait, escalate, commit |
| stream-processor, search, reindex-worker | projected product document | project, backfill, reap |
| audit-service | hash chain | append, verify |
| media, seller and reviews services | one status machine each | upload/scan/delete, onboard/decide, write/report/moderate |
| catalog, pricing, promotion, tax, user, delivery-quote | one new row per request | create |
| fraud, personalisation | appended observations | evaluate, record |
| api-gateway, bff-shop, bff-seller, websocket-gateway | none, or a library's | forward |

### How they interact

`bff-checkout` calls `start_saga`, which writes the saga row, one seller order
per seller and a `ReserveInventoryCommand`. `saga-dispatcher` claims commands
from that outbox and carries each out: it calls inventory-service or
payment-service and reports the result to `advance_saga` as an event. The
transition tables turn the event into a new state and perhaps another command.
Under cash on delivery the saga is over once the stock is reserved: from there
sellers and couriers move each seller order with `transition_seller_order`,
whose commands release or consume that seller's stock. Orders from before
migration 017 take the card flow: charge, confirm, complete, with refunds and
releases as compensation. A reaper times out stale sagas and cancels seller
orders stranded under an order that has ended.

Delivery is a second circle: fulfillment-service books a parcel, courier callbacks
move it and drive the seller order, a delivered seller order commands an escrow
booking, and settlement files say what cash the courier has handed over. Listing and
buying form a third: seller-service says who may sell, catalog-service and
bff-checkout ask it each time. The search index is a fourth: change events, dead
letters, backfills, the reaper and seller refreshes all write the same documents.

### What makes it hard

- A release or consume reads the reservation rows without a lock and locks the
  stock rows one by one.
- `advance_saga` locks the saga row but not the seller orders it reads.
- A command is several HTTP calls. Each may be lost before or after it took
  effect, and the command then starts again from its first call.
- The dispatcher records a command before its effect, claims by lease and not by
  lock, and caps its attempts.
- The reaper compensates without knowing what has happened.
- Couriers report late, twice and out of order; a settlement file may repeat a
  parcel or be sent again.
- seller-service, media-service and cart-service load a row, decide and write back,
  with no lock in between.
- Two writers own different fields of one search document, and a third deletes it.
- A dead letter is in the producer's buffer when the offset of its message is
  committed.
- A send that timed out may have come through, and a scan's result does not say which
  scan it is of.
- A breaker's answers arrive in another state of the circuit than the one their
  call was let through in.

The hazards are listed one by one in `PROJECT.json`, each at its line, with the
properties that would catch it.

## 2. Modules

| module | models | state and actions |
|---|---|---|
| `Inventory` | inventory-service | `available`, `reserved`: the counters; `row`: reservation rows; `bound`: idempotency keys; `tx`: what an open transaction has selected and locked. A reserve is one transaction on one row and one action. A release or consume is `Begin` (the select), `LockItem` per row, then `Commit`, `CommitFails`, `LockTimeout` or `RefuseConsume` |
| `StockPromise` | what inventory-service promises | units on the shelf, promised per order, unattributed and sold; a promise is given back once or sold once |
| `SagaTransitions` | transitions.py, cod_rules.py, split_rules.py | the transition tables as sets of rows, `resolve`, `plan_transition`, `children_to_cancel`, `derive_order_status` |
| `OrderSaga` | order-saga | `saga`, `method`, `child`, `outbox`, `applied` (keys), `open` (an advance between its read and its commit). Actions: `start_saga`, `AdvanceRead`/`AdvanceCommit`/`AdvanceFails`, `transition_seller_order`, `Sweep` |
| `Payment` | payment-service, card | `ledger`, `charged` (keys), `refund` (a refund between its read and its commit, under the advisory lock) |
| `Dispatcher` | saga-dispatcher's queue | `out` (outbox columns), `recorded` (processed_events), `job`, `loop`. One action per statement of `process_one` and `dispatch_loop`, with lease expiry, death of a handler and time in poll intervals |
| `Checkout` | the five above together | instances of `Inventory`, `OrderSaga` and `Payment`, and `work`: where the dispatcher is with each command. One action per HTTP call; any call may be lost before or after its effect |
| `SellerOrders` | seller orders as other services know them | constants only: reference, seller, amount due |
| `Escrow` | payment-service, escrow | `ledger` of double entries, `call` (a booking between its read and its commit), `contract` (the commission rate). Delivery, settlement and payout bookings, the unique index that decides between two copies, rounding, a commit that fails |
| `Fulfillment` | fulfillment-service | `parcel`, `driving` (calls a committed callback still owes order-saga), `rows` and `ingest` (settlement files), `index` (couriers' words and their validation) |
| `Delivery` | seller, courier, fulfillment, order-saga, dispatcher and escrow together | adds `road` (what physically happened), `child`, `effects` and `command` |
| `Sellers` | seller-service | `seller`, `terms`, `clerk` (a decision not yet committed), `opened`, `cleared`. Each handler is a read (`Decides`) and an `_apply` that writes the columns that changed |
| `Storefront` | catalog, pricing, fraud, delivery-quote, bff-checkout over `Sellers` | `listed`, `prices`, `evaluated`, `quotes`, `attempt` (one POST /api/checkout), `orders`. One action per downstream call |
| `DeadLetters` | KafkaAvroConsumer, dlq-reprocessor | `log`, `dlq` and offsets per topic, `unsent` (dead letters in the producer's buffer), `lost` (those a death took), retry counts in Redis; send a letter, republish, wait, escalate, die, restart |
| `SearchIndex` | stream-processor, seller refresh, reindex-worker, search filter, over `DeadLetters` | `doc`, `hot`/`seen` (the index's refresh), `hand` (a refresh in progress), `pass` (a backfill in progress), and the sources' own state, among it `stocked` (the available quantity), `held` (reservations not yet released or consumed) and `told` (the quantity the last `InventoryReserved` carried) |
| `Webhook` | webhook-handler | `seenKeys` (Redis), `processedHooks`, `emitted`, `hookReq`; one action per layer, failures before and after the commit |
| `Notifications` | notification-service and -worker | `note` rows with claims, `batch` and `sending` per worker, `answers` (what the provider said, call by call), `reached` (messages that came through, also on a call that timed out), `stranded`; claim, send, settle, back-off, death |
| `Reviews` | reviews-service | submissions, edits and reports in progress, the moderator, the order's status and the two windows |
| `Media` | media-service | registrations under one key; `scans` (the outcome of each scan begun), `recorded` (scans whose result was taken), `change` (a status change between read and commit). A result may be reported at any time and again |
| `Audit` | audit-service | the hash chain, appends as read of the tail and commit, `verify_chain` against every single altered record |
| `CircuitBreaker` | resilience.py | `circuit`, `failures`, `probe`, `elapsed`, `flight`; `Enter`, the three ways a call ends, the reset window |
| `Cart` | cart-service | `cache` (Redis), `rows`, `keys`, `lock`, one step of each request; both sweeps, lapsed locks, eviction, failing and dying requests |
| `InventoryProofs`, `OrderSagaProofs`, `RecordsProofs`, `CartProofs`, `StorefrontProofs`, `DeliveryProofs`, `SearchTopicsProofs`, `SearchProofs` | | the theorems and their proofs (section 5) |
| `MCInventory`, `MCOrderSaga`, `MCCheckout`, `MCDelivery`, `MCStorefront`, `MCSearch`, `MCCart` | | constants for TLC |
| `MCServices` | | eight components that share nothing in one instance: a behaviour chooses one of them and is a behaviour of it |

Operators whose comment begins with "Fault" are plausible mistakes in the
definition that follows them. No specification uses them; putting one in the
place of the definition makes a property fail, which shows that the property
depends on that code.

### Abstractions

- In `Inventory`, answers that leave everything as it was (404, lock timeout on
  a reserve, a second live hold of one product by one order) are stuttering.
- Money is an integer, and in `Checkout` one unit. An order's lines are fixed.
- `OrderSaga` keeps commands only. The events written beside them change nothing
  in these services.
- `OrderSaga` splits `advance_saga` into read and commit. `Checkout` takes it as
  one step, since the race between the two is the subject of `OrderSaga`.
- `Dispatcher` keeps one bit per command: has its effect been achieved.
  `Checkout` replaces the bit by the effects and takes from `Dispatcher` that
  one handler works on a command at a time. It also assumes that no handler dies.
- `Checkout` settles the escrow booking without its ledger; `Delivery` has it.
- A death in `Dispatcher` ends one handler. The batch around it goes on, as with
  `gather(return_exceptions=True)`; all handlers of a process dying together is
  a number of deaths.
- Amounts in `Escrow` are integers of the minor unit and the commission is computed
  as the code does, in basis points with its rounding.
- `Sellers` numbers uploads; which file was uploaded is data.
- `Storefront`: an answer that refuses (400, 404, 409) ends the attempt. Totals and
  fees are data, so what is checked is which calls an order rests on.
- `SearchIndex` has one seller who owns every product, since a refresh is per seller.
  Prices and stock levels are version numbers. A topic is one partition. That a
  ProductCreated without name and sku is skipped (stream-processor main.py:91) is left
  out: catalog-service always sends both.
- `DeadLetters`: librdkafka sends the letters of a topic in order, at any time after
  `produce`. A worker that dies in the middle of `consume` does so before its write,
  between the write and the commit, or afterwards with letters unsent.
- `Media`: a scanner reports the scans that were begun and no others, and a
  `start_scan` that finds the asset already scanning begins none.
- `Notifications`: what a provider may answer is what `classify` tells apart.
  "retryable" stands for a timeout, a 5xx and an adapter that raises, and the message
  may have come through or not.
- `Dispatcher`: the branches of `handle` that settle a command without calling anybody
  (main.py:277, 289, 297, 456) are the answer "ok"; `Checkout` has them one by one.
- `Escrow`: a seller without a contract is a booking that is refused, and its command
  is parked. seller-service says so with a 409 (seller_service.py:379-384), which
  escrow_service.py:99-104 passes on as a 503, so the command is parked only when its
  attempts are used up.
- `Delivery`: courier words that mean nothing for the parcel's status change nothing and
  are not sent; an operator confirms a settlement that a matched row supports, which the
  code leaves to the operator.
- `Reviews`: an order that is not found, or an order-saga that does not answer, ends the
  submission without a trace (order_client.py:45-67). The moderator rules once.
- `Sellers`: an upload replaces the whole set of documents; the code replaces the types
  it contains (seller_service.py:236-243).
- `Storefront`: a retry with the same key starts when the attempt before it has ended.
- `Audit`: a hash is the value it was computed from, so equal hashes mean equal
  inputs. A payload is read back from its JSONB column as it was written; a number
  that Postgres prints differently (a float such as 1e16) is outside the model.
- `CircuitBreaker` has one breaker and one bulkhead; a call that outlives the reset
  window happens only with `Outlive`, because the HTTP timeouts of the callers are
  shorter than the 30 seconds of the window.

## 3. Runs

Run one with `tlc -config <run>.cfg <module>`.

| run | module | outcome | question |
|---|---|---|---|
| Inventory_serial | MCInventory | holds | One request per order at a time: do ledger and counters agree (`LedgerAgrees`), is an ended row final (`EndedRowIsFinal`), is `StockPromise` implemented (`KeepsPromise`)? |
| Inventory_race | MCInventory | holds | Requests of one order overlap: is stock still conserved (`StockConserved`), does every transaction end though two lock the same rows in opposite orders (`RequestsFinish`)? |
| Inventory_overlap | MCInventory | violated | Requests of one order overlap: do ledger and counters agree? |
| OrderSaga_split | MCOrderSaga | holds | An order across two sellers under repeated, delayed and reordered events, seller actions and the reaper: is it charged once, is what left with a courier left alone, does the buyer's status only advance, is no seller left with live work? |
| Dispatcher_queue | Dispatcher | holds | Exclusive claims, no loss without a death, no row both parked and processed, no starvation |
| Dispatcher_crash | Dispatcher | violated | Is every processed command done, also when a handler dies? |
| Checkout_mixed | MCCheckout | holds | Do stock, money and order agree in each of six settings? |
| Checkout_replay | MCCheckout | violated | Are committed goods held, with scarce stock and lost calls? |
| Delivery_road | MCDelivery | holds | From the confirmed seller order to the settled cash: is each thing booked once and balanced, do records follow the road, do goods and debts agree, is cash matched once, is every delivery booked or parked in the end? |
| Storefront_open | MCStorefront | holds | Sellers come, go and are stopped while buyers check out: is the review honoured, does a stopped seller get no order, does every order rest on its own evaluation and quote? |
| Search_index | MCSearch | holds | Is the index true once it is quiet, is every event accounted for, is a reindex that says it is complete complete, does visibility settle? |
| Services_each | MCServices | holds | Eight components, each against its own concurrent requests, failures and deaths |

Several properties are conjunctions of invariants of one component, so that each
stands for one promise: `LedgerIsSound` (types, booked once, the books balance,
rounding in the seller's favour, true answers), `RoadIsRecorded`,
`GoodsAndDebtsAgree` and `CashIsMatchedOnce` for a delivery; `ReviewIsHonoured` for
a seller; `LettersAreAccountedFor` (an event leaves unhandled in two ways only, retries
are bounded) for dead letters; `WebhookIsSound`, `NotificationsAreSound`, `MediaIsSound`, `AuditIsSound`,
`BreakerIsSound`, `RefundsAreSound` and `CartIsSound` for the services;
`HandedOffIsLeftAlone`, `OutboxTellsTheTruth` and `MoneyFollowsTheOrder` for the
saga. Each part is defined and explained in its module.

### Bounds

A run covers several circumstances by choosing a `setting` at the start.

- **Inventory.** Two listed products with 2 and 1 units, one unlisted, two orders,
  two workers, quantities 1 and 2. This is the least that has a full reserve, a
  refused one, an order with two rows, and two transactions that lock the same
  two rows in opposite orders. Keys bound the number of reserves: 4 in the serial
  run, 3 in the others.
- **OrderSaga.** One order, two sellers and two keys, so that every event can
  arrive twice under different keys. Orders share no state in order-saga.
- **Dispatcher.** Two dispatchers, two commands with batches of one, so that a
  command can be stuck behind another; three attempts, waits of up to two
  intervals, one death.
- **Checkout.** One unit of each listed product. `big` needs both sellers, `small`
  competes with it for the last unit of p2, and `odd` names a product without a
  stock row. Two attempts in the mixed run and three in the replay run. The six
  settings of `Checkout_mixed` are: `big` and `small` over a reliable network; `big`
  with every call lossy; `big` with busy stock rows; `odd` with every call lossy;
  `small` as a card order with every call lossy; and the same with a refused charge.
  Scarcity together with lost calls is left to `Checkout_replay`, because that is
  where the code fails.
- **Delivery.** One seller order of an odd amount at a rate that does not divide it,
  so that rounding shows; three remittance files (a plain one, one that repeats it
  behind an unknown parcel, one that is short and has the row twice); three courier
  mappings, two of which validation must refuse. Settings (`Apart`): two calls to
  order-saga racing; all three files; two workers on one command while operators
  book, pay and change the contract; a commit that fails.
- **Storefront.** Two sellers with a product each, a cart that mixes them, two
  attempts under one key. Settings: onboarding with one request at a time; two
  overlapping requests on one seller; the shop, with suspensions, reinstatements and
  calls that are not answered.
- **Search.** Three products, five events, `MAX_RETRIES` 2 (3 in the code) and
  `BATCH_SIZE` 2 (500), so that a backfill has more than one batch and an event is
  escalated. Eleven settings: product, prices, backfill and reaper that overlap; a
  reaper whose calls fail; stock reserved, released, consumed and refused; a release or
  consumption whose event fails and comes back without its type; an event that fails
  until it is escalated, with Redis and a worker that dies, without Redis, and with a
  broker that drops messages; changes of standing against prices, against
  listings, and with failing calls; listings between the batches of a backfill.
- **Services.** Two webhook events and two requests, Redis up or down, keys that
  expire, one failure; three notifications, two workers of whom one may die, batches
  of two, two attempts; four people reporting a review of which three hide it; two registrations
  and two status changes of one asset with two scans, in three settings (changes that
  overlap; one at a time; and no result reported twice either); three audit records,
  two appenders; four callers, threshold 3 and bulkhead 3, so that a straggler and a
  probe can be in flight together; two orders, three charge keys, two refunders, four
  ledger rows; seven cart requests in four settings (one at a time, overlapping
  checkouts whose lock lapses, overlapping adds, requests that fail or die).

`SYMMETRY` is used in `Inventory_serial` and `Inventory_overlap`, where no liveness is
checked.

### Fairness

- `Inventory`: a request with an open transaction runs on. The event loop
  schedules it, and `lock_timeout` ends every wait for a row lock.
- `OrderSaga`: the reaper sweeps every minute.
- `Dispatcher`: the loop, the handlers (every call has a timeout), time and the
  expiry of leases go on, and a service does not shed one command for ever. The
  last is strong fairness on the answers other than `shed`; `ClosesOnceHealthy` is
  the reason: a circuit whose downstream has come back closes.
- `Delivery`: the dispatcher polls, and each of its requests is answered. Nothing is
  assumed of couriers, sellers or operators.
- `SearchIndex`: stream-processor's and reindex-worker's loops and the coalescing
  window go on. Nothing is assumed of the sources.
- `Services`: the payment provider keeps sending what it has had no 2xx for;
  requests are served; workers run and a back-off ends; callers keep calling and
  calls return, and a downstream that has come back does not answer every call with a
  4xx (strong fairness on `OnSuccess`: a circuit that gets nothing but 4xx answers stays
  half open, and lets one call through at a time); the cart's sweeps run every minute and a request that began goes on.

### Deadlock

`Dispatcher` polls for ever and `Delivery` always has a call that may be repeated;
both are checked for deadlock. The other runs switch the check off, because their
systems really stop: keys, orders, events and ledger rows are bounded, and a platform
on which every order has ended has nothing left to do.

## 4. What the violated runs show

1. **Inventory_overlap.** A release and a consume (or two releases) of one order
   read the same held row, and both settle it. The sum of units is right but the
   reserved counter drops below what other orders hold.
2. **Dispatcher_crash.** A handler dies between `record_processed_event` and the
   effect. The row is reclaimed, taken for a duplicate and marked processed.
3. **Checkout_replay.** A reserve that was rolled back and starts again finds its
   keys bound. Each line is answered 200 from the cache, and the saga is told that
   the stock is reserved while nobody holds it.

Further disagreements came up while modelling. Those with a configuration file can be
run as they are; TLC reports a violation of the property named.

| file, module | property | what happens |
|---|---|---|
| OrderSaga_van, MCOrderSaga | `ParcelIsNotCancelled` | A card order is ending; the saga has read a seller order as confirmed without a lock (saga_orchestrator.py:356). The seller dispatches it, and the saga overwrites it with CANCELLED, though "A saga cannot undo a van" (order-saga main.py:175) |
| Checkout_cancel, MCCheckout | `FinishedSellerOrderHoldsNothing` | A seller cancels while the reserve is on its way (cod_rules.py:133-136). The release finds nothing; the hold made afterwards stays |
| Checkout_latecharge, MCCheckout | `EndedOrderKeepsNoMoney` | The reaper's refund runs before the charge, records REFUND_NOOP, and the charge that lands afterwards is never given back. `MoneyIsKeptOnlyByALateCharge` shows that this is the only way |
| Delivery_unbooked, MCDelivery | `NeverSilentlyDropped` | A commit that fails for any reason is taken for the unique index and answered as booked (escrow_service.py:184-194), so a liability is dropped without being parked |
| Storefront_ban, MCStorefront | `BannedIsFinal` | A decision made from a status read before the ban overwrites it, though BANNED is terminal (seller_rules.py:60) |
| Storefront_retry, MCStorefront | `RepeatedKeyIsAnswered` | A checkout retried after its quote is refused with 409 by delivery-quote-service, against "the service MUST return the previously committed result with its original HTTP status code" (ARCHITECTURE_STATE_FINAL.md:42) |
| Search_suspend, MCSearch | `SuspendedIsHidden` | A product first indexed around a suspension is missed by the refresh of its seller and is served (search_engine.py:57) |
| Search_backoff, MCSearch | `BackedOffIsReread` | A dead letter left uncommitted during its back-off is passed by the commit of the next one and is never read again (dlq-reprocessor main.py:16) |

The next ones are reproduced by checking the formula named, which the module defines,
on the instance described.

- `EndedOrderHoldsNothing`, with a card order on a reliable network: a saga reaped
  at PAID is only refunded (order-saga main.py:120), so its stock stays held.
- `BusyRowIsRetried`, with `busy` and one order: inventory-service answers a busy
  row with 409 "retry shortly", and the dispatcher parks a release at its first
  attempt (dispatch_rules.py:312).
- `NoRestInCompensation`, with `odd` under `CheckoutFairSpec`: a saga reaped at
  PENDING whose reserve then fails stays at TIMED_OUT.
- `NetPositionIsTrue`, in the payment part of `Services_each`: a declined charge
  keeps its amount in the ledger, so the sum over all rows is not the net position.
- `ParkedIsNotProcessed`, with `SlowHandlers`: a handler that outlives its lease
  parks a row that a second holder has marked processed.
- `ToldIsRecorded`, in the webhook part: a request that fails after its Redis mark
  makes the provider's retry a duplicate, and the event is lost although "a retry is
  the correct outcome" (webhook-handler main.py:173).
- `DeadWorkersRowsEnd`, in the notification part: "a worker that dies mid-send does not
  strand its rows" (notification-worker main.py:14). A claimed row is SENDING and only
  PENDING and RETRY are claimable (main.py:61-78), so a dead worker's rows stay.
- `StockIsCurrent`, in `Search_index`: a release raises the available quantity
  (inventory_service.py:232-250), but InventoryReleased is not indexed
  (event_rules.py:64), so the index shows too little until the next reservation. The
  same event, dead-lettered and republished without its header, does have the shape of
  a reservation and is indexed.
- `NoLetterIsLost`, in `Search_index`: the offset of a failed message is committed while
  its dead letter is in the producer's buffer (kafka_client.py:104, 117-122). A worker
  that dies then loses it with a healthy broker, although "losing it loses the only
  remaining copy" (kafka_client.py:33).
- `InfectedIsFinal`, in the media part with changes that overlap: `_load` takes no lock,
  so a scan started before the verdict was committed writes "scanning" over "infected",
  and the asset can be served again, though "INFECTED is terminal" (media_rules.py:18).
- `LatestScanDecides`, in the media part with repeated reports: a result does not name
  its scan, so the repetition of an earlier scan's "clean" is taken for the verdict of
  the scan under way. `plan_scan_result` (media_rules.py:136) refuses a duplicate only
  when no scan is in progress.
- `RulingStands`, in the review part: a report handled while the moderator clears a
  review hides it again (review_service.py:320). `QuietRulingStands` holds.
- `WhatWasAppendedVerifies`, with `Abroad`: a timestamp with another offset than UTC
  is hashed as written and verified as read back (audit_rules.py:17-21).
- `StaysOpen`: the success of a straggler closes an open circuit before its window
  ends. `SingleProbe` needs calls shorter than the window (`Outlive` FALSE).
- `NoDoubleOrder`, with the cart's setting `Reading`: a read that overlaps a checkout
  puts the old cart back into Redis, and a second checkout orders it again.
- `OneActiveCart`: two first adds at once make two active rows, where the service assumes "at most one active cart
  per user" (cart_service.py:26).
- `OnlyDeliveredGoodsAreConsumed` does not extend to card orders: a seller may
  dispatch before the charge is answered, and a refused charge then releases goods
  that are on a van.
- If every seller of a paid card order cancels, the stock is released and nothing
  refunds the payment. No line of the repository says what should happen.

The code also shows, outside what the properties claim: the outbox cleanup deletes
rows of any state after seven days (order-saga main.py:249); a write to the
dead-letter topic that raises is logged and the offset committed, where the caller
expects the exception (kafka_client.py:105, 124-125; in the model a broker that drops
messages, of which `NothingVanishes` says nothing); a republished seller event loses
its type header (dlq-reprocessor main.py:185); a caller that returns a 5xx without
raising counts as a success of its breaker; two settlement files imported at the same
time may both match a parcel (shipment_service.py:297-301); an add whose commit fails
after the write to Redis is added again by its retry (cart_service.py:101).

## 5. Proofs

The theorems hold for every value of the constants: any number of orders, sellers,
products, keys, workers, callers, requests, attempts and failures. Each rests on an
inductive invariant, and the reason for it is the same throughout: a handler acts on
what it read earlier, so the invariant has to say why that is still true. Every
component whose safety properties the runs check has its theorem, except `Checkout`.

| module | component | theorems | inductive invariant, and why it is needed |
|---|---|---|---|
| `InventoryProofs` | inventory-service | `TypesAreKept`, `StockIsConserved`, `EndedRowsAreFinal` (without overlap) | `StockInv`: a consume subtracts at commit what it checked when it locked the row. What was checked still holds (`ConsumeCovered`), because row locks exclude each other, selected rows exist, and a row exists only under a bound key. `HoldInv` adds, without overlap, that selected rows are still held |
| | | `LedgerAgreement`, `PromiseIsKept` (without overlap) | `LedgerInv` adds the partial unique index and that `reserved` counts the units of the live rows, each unit a pair of row and number, so that the sum is a cardinality. `PromiseIsKept` is the refinement of `StockPromise`: the initial states map to its initial states, and every step to one of its steps or to none |
| `OrderSagaProofs` | order-saga | `ChargesAtMostOnce`, `HandedOffStaysHandedOff`, `BuyerStatusAdvances` | `SagaInv`: the saga row is locked from read to commit, so what an advance decided still applies when it commits; a charge is commanded only on leaving PENDING, and no saga returns there; under cash on delivery no seller acts before the saga has handed off. `DerivedIsMonotone` carries the buyer's status over any set of sellers |
| | circuit breaker | `BreakerStaysSound` (no call outlives the window) | `BreakerInv`: a circuit about to half-open has no call left from before, so the probe is alone |
| | webhook-handler | `WebhookStaysSound` | `HookInv`: at most one open transaction has inserted an event, and none has inserted one that is processed |
| | media-service | `MediaStaysSound` | `MediaInv`: the key lets one registration past its INSERT; a change under way was allowed by the state it loaded, which, one change at a time, is still the state (`ChangesSound`); every scan but the last has had its result taken, and only a scan that was begun is reported (`ResultsTaken`), so while none is reported twice the result that ends a scan is its own |
| `RecordsProofs` | payment-service | `RefundsStaySound` | `RefundInv`: the advisory lock keeps a refund the only one of its order, so the order is still unsettled when it commits, and the charge it found is still in the append-only ledger |
| | audit-service | `AuditStaysSound` | `AuditInv`: the records are a chain, and an append in progress is linked to the tail or its sequence number is taken, in which case its INSERT fails. `verify_chain` on an altered chain needs no induction: it stops at the first record that does not fit, and every earlier one does |
| | saga-dispatcher | `ClaimsAreExclusive`, `OutboxStaysTrue` (while the lease outlasts the handler) | `DispatchInv`: a handler works under a live claim on a row that is neither processed nor parked, alone; a loop claims only when its gather has returned; without a death, a record in processed_events belongs to a command that is done or being tried |
| `CartProofs` | notification-service and -worker | `NotificationsStaySound` | `NoteInv`: a claimed row is in at most one batch, once; its attempts count the answers of the provider, but for the one under way, and while a row can still be claimed every answer so far was in doubt, so an answer that was not is the last |
| | cart-service | `CartStaysSound` | `CartInv`: rows that were handed over are no longer active, rows claimed by a checkout still are, and no two checkouts claim the same one, whether the Redis lock has lapsed or not. One request at a time, the active row, Redis and what a request holds show the same items, or differ by the add under way |
| `StorefrontProofs` | seller-service and the shop | `ReviewStaysHonoured`, `HandlersFollowTransitions`, `StoppedSellersGetNoOrder`, `OrdersWereQuoted` | `SellersInv`: a pending decision leads past the review only if it is the approval or the seller has been approved, whatever commits in between; one request at a time, the row is still the one that was read, so what is written is what was decided. `ShopInv`: how far a checkout has got tells what it has made sure of, and an order is vouched for by the attempt that placed it |
| | reviews-service | `ReviewsStayEarned`, `ReportsAlwaysCount` | `ReviewsInv`: an order fetched as delivered stays so; when enough reports are filed and the review is still visible, some report has yet to count; nobody is half way through a report when an uncontested ruling stands |
| `DeliveryProofs` | courier, fulfillment, order-saga and escrow | `LedgerStaysSound`, `RoadStaysRecorded`, `GoodsAndDebtsStayInStep`, `CashStaysMatchedOnce` | `Inv` follows a parcel through the services: what a callback still owes order-saga has happened on the road; a seller order on its way has moved no stock; a command to book exists only for delivered goods; what an open call is about to commit balances and is rounded in the seller's favour; the unique index leaves one entry set per order and reason. While files are ingested one at a time, the open file and the committed rows together match a parcel once; without that only `MatchedCashWasCollected` is claimed |
| `SearchTopicsProofs`, `SearchProofs` | stream-processor, dlq-reprocessor, reindex-worker | `LettersStayAccountedFor`, `QuietIndexStaysTrue`, `ReindexStaysComplete` | `Inv`: every message on a topic, in the buffer and among the dead letters was published and is not ahead of its table; no document is ahead either; every event is in one of the places `NothingVanishes` names (`Accounted`), and a letter that is in the buffer moves to the dead-letter topic or, with a death, to `lost` (`ProducerInv`); republications are bounded by the counter and the restarts; what a backfill has behind its cursor is indexed, in its batch or on its list of failures; and while nothing has failed, the versions of a field are on the topic in order, the last one included, every message has its type, so that a release is never taken for a reservation, and no document is behind what was read |

The modules are grouped by size of context, not by subject: the prover translates
every definition in scope for every obligation. `SearchProofs` continues
`SearchTopicsProofs` for the same reason; the second has the invariant and the steps
of topics and dead letters, the first the worker, the refresh, the backfill and the
theorems.

Assumptions are named in the modules that declare the constants and evaluated by TLC:
quantities, caps and bounds are naturals (positive where zero makes no sense), amounts
and rates in `Escrow` integers, null values differ from real ones, products of the
search index are numbered, since the backfill pages by id, and finitely many are
listed at first, an order has a seller, and a seller starts unknown, registered,
active or suspended. Which hypothesis a theorem adds is in its statement and in the
table.

Sums and finite sets: the prover has no induction over data. The two facts that need
one (a sum that is zero because every summand is, a finite set of numbers has a least
and a greatest element) are proved by a least counterexample in the well-founded
order of strict inclusion, and the stock ledger is counted by cardinality.

Only model-checked:

- the four safety properties of `Checkout` (`CommittedGoodsAreHeld`,
  `OnlyDeliveredGoodsAreConsumed`, `UnchargedOrderHoldsNothing`,
  `MoneyFollowsTheOrder`). They relate the stock, the saga, the ledger and the place of
  the dispatcher in each command; an inductive invariant has to describe every
  combination of these, and none has been written yet. The components they rest on are
  proved one by one;
- every liveness property: fairness and ENABLED are beyond the prover.

## 6. Not modelled

- **resilience.js**: the breaker of the Node services, the same machine as
  resilience.py in a single thread.
- **api-gateway**: chooses a rate-limit tier; a library counts.
- **promotion, tax, user**: one new row and its event per request under a key; no row
  is written twice.
- **personalisation, search ranking, quality signals**: scores in floating point over
  appended observations, which TLC does not have.
- **bff-shop, websocket-gateway**: forwarding and fan-out without state.
- **infrastructure, migrations, scripts**: deployment and schema. The unique indexes
  and checks the code relies on are in the modules of their services.
- **Within modelled parts**: the outbox cleanup loop and the normalisation of lines in
  order-saga, retention, the Redis topology, seller metrics, and every query.

## 7. Plan

1. Two settlement files imported at the same time, and the outbox cleanup against a
   clock for the age of rows.
2. An abstract specification of a delivery (delivered once, owed once, paid once)
   that `Delivery` implements, as `StockPromise` is for `Inventory`.
3. An inductive invariant for `Checkout`, from the invariants of `Inventory`,
   `OrderSaga` and `Payment` and the place of the dispatcher in each command.
