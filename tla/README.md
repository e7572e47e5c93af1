# Zosh Bazaar: the payment platform in TLA+

This directory holds TLA+ models of the server of the marketplace
(`src/server`), the TLC runs that check them, and proofs that TLAPS checks.
They cover the part that moves money and goods: the customer's wallet with its
ledger and lock, payment attempts with gateway webhooks and polls, checkout with
the stock and the life of the orders, refunds and chargebacks, the settlement of
sellers, and the background work (outbox and e-mail queue).

Paths below are relative to `src/server/src/modules/payment` unless they begin
with `src/`.

## 1. The system

The repository is a Node/Express server with MongoDB and Redis, five React
front ends (client, admin, seller, logistics, delivery partner) and shared
packages. Only the server keeps state. Its handlers are async functions: every
`await` is a point at which another request may run, several server processes
may share one database, and almost no handler uses a MongoDB transaction.
Mutual exclusion, where there is any, comes from `utils/distributedLock.js`, a
Redis key with a time to live that nobody renews and no write is fenced by.

| component | state | operations | talks to |
|---|---|---|---|
| wallet (`services/WalletService.js`) | Wallet, WalletReservation | top up, reserve, release, commit, credit a refund | lock, ledger; called by orchestrator and refunds |
| ledger (`services/LedgerService.js`) | LedgerJournal, LedgerPosting | post a journal (idempotent by key), balances | called by all money services |
| distributed lock | Redis key with token and TTL | acquire, release | wallet, orchestrator, refund, checkout |
| payment orchestrator | PaymentIntent, PaymentAttempt | initialise checkout, submit an attempt, handle capture, handle failure, poll | wallet, ledger, orders, outbox, gateways |
| webhooks (`services/PaymentWebhookService.js`) | PaymentWebhookEvent | process a gateway event once | orchestrator |
| routing, registry, adapters | provider health (in memory) | choose a gateway, call it | gateways |
| outbox | PaymentOutbox | enqueue, dispatch with back-off | sockets, e-mail |
| checkout and orders (`src/server/src/modules/customer/services/order.service.js`) | Order, OrderItem, stock of products and variants | create with stock deduction, roll back, change status, cancel, return | orchestrator, sellers |
| refunds, chargebacks (`services/RefundService.js`) | Refund | refund up to the order total, dispute life cycle | wallet, gateways, ledger |
| settlements (`services/SettlementService.js`) | Settlement, SettlementBatch, SellerRiskHold | batch, pay out, recover an ambiguous payout, mark paid | payout rail, ledger |
| reconciliation | ReconciliationRecord | match statements, resolve discrepancies by two people | ledger |
| logistics, delivery partners | Shipment, shifts, routes, OTPs | assign, scan, deliver, fail, collect cash | orders |
| e-mail queue | Redis list, dead letters | enqueue, retry with back-off | SMTP |
| idempotency (middleware, `utils/idempotency.js`) | IdempotencyKey | reserve a key, replay an answer | all financial routes |
| circuit breaker (`src/server/src/modules/ai/policies`) | counters in memory | admit, record success or failure | AI providers |
| deletion worker, realtime, catalogue, cart, accounts, admin pages | documents | CRUD, sweeps, pushes | — |

What makes it hard, by component:

- *Wallet*: concurrent calls for one user, a crash between the reservation's
  status and the balance, a lock that expires, a credit that is sent again.
  Correct means: holds are covered, spent money stays spent, the ledger shows
  what the wallet shows.
- *Orchestrator and webhooks*: the same capture arrives as the gateway's answer,
  as an event (twice, late, out of order with a FAILED one) and through polls;
  each handler saves the status of a copy it read some awaits ago. Correct
  means: nothing is confirmed without a capture, a capture confirms everything
  once, and no two gateways charge for one intent.
- *Orders*: stock is deducted and put back by separate updates, of a product and of
  the variant that a seller may remove; cancellation, roll-back, capture and courier
  write the same order without a version. Correct means: an order that lives has its
  units, one that does not has none; a failed checkout leaves nothing behind; a key
  places one order; nothing unpaid ships.
- *Refunds and chargebacks*: money leaves before its record is saved. Correct
  means: a refund pays once, all of them together stay within the order's total,
  what is COMPLETED is in the books, and a chargeback ends once.
- *Settlements*: the bank's answer may be lost, and an admin or an inquiry settles
  the batch later. Correct means: a batch is paid once, is put down as paid only after
  that, and a transfer the bank has taken is never forgotten.
- *Outbox, e-mail*: at-least-once loops in several processes, with crashes.
  Correct means: nothing that was stored is lost, and nothing is sent twice
  without a reason, in processes that remember keys in two places and for a day.

`PROJECT.json` lists each component with its status, and each hazard at its line.

## 2. The modules

| module | what it is |
|---|---|
| `Wallet` | one wallet, its reservations, the ledger lines it causes, its lock, calls as processes |
| `WalletPromise` | the abstract wallet: credit once, hold, hand back or spend, each in one step |
| `WalletRefinement` | the mapping from `Wallet` to `WalletPromise` |
| `WalletProofs` | theorems about `Wallet`, with proofs |
| `LedgerSchema` | what the collections of the ledger accept, for the modules that post journals to it |
| `PaymentStatus` | the transition tables of intents and attempts |
| `PaymentPromise` | the abstract checkout: paid, then booked, then confirmed, then announced |
| `PaymentOrchestrator` | one intent: attempts, webhooks, polls, capture and failure handlers; refines `PaymentPromise` |
| `PaymentProofs` | theorems about `PaymentOrchestrator`, with proofs |
| `OrderStatus` | the transition table of orders, and which statuses put stock back |
| `OrderStock` | checkout, stock of products and variants, roll-back, status updates, capture and courier on the orders of several carts |
| `OrderProofs`, `OrderCalmProofs` | theorems about `OrderStock`, with proofs |
| `RefundPromise` | the abstract refund: opened within the order's total, paid once, booked, completed |
| `Refund` | the refunds and chargebacks of one order; refines `RefundPromise` |
| `RefundProofs` | theorems about `Refund`, with proofs |
| `PayoutPromise` | the abstract settlement: a batch is paid once, and put down as paid after that |
| `Settlement` | batches, payouts, inquiries and the bank; refines `PayoutPromise` |
| `SettlementProofs`, `SettlementCalmProofs` | theorems about `Settlement`, with proofs |
| `ServerProcess` | what background workers share: processes and a bound on faults |
| `Outbox`, `EmailQueue` | the sweep of the payment outbox; the e-mail queue, its workers and dispatcher |
| `Background` | both in the same processes, which crash with all they have in memory |
| `BackgroundProofs` | theorems about `Background`, with proofs |
| `MC...` | model values, symmetry and instances for TLC |

`PaymentOrchestrator` has one intent and what a capture does to documents of the
payment; `OrderStock` has many orders and the capture as one of those that write
them. What the two share, `handleAttemptCapture`'s order loop, is an action in each
(`SaveOrder`, `Confirm`), with the same write.

### Wallet

A call of `WalletService` is a member of `Calls` with `pc`, `op` and `arg`. The
steps are the store accesses in the code's order:

| operation | steps |
|---|---|
| `reserveFunds` | Acquire, Find, Move (guarded `$inc`), Record (upsert), Unlock |
| `releaseReservation` | Acquire, Find, Record (`save`), Move, Unlock |
| `commitDebit` | Acquire, Find, Record, Lookup, Header, two lines, Move, Unlock |
| `topupWallet`, `creditRefund` | Acquire, Lookup, Header, two lines, Move, Unlock |

The reserve moves first and records second, the others the other way round;
`HoldsCovered` depends on exactly that. A returned or thrown error leads to
`unlock`, the `finally` block. A busy lock is no step, because `acquire` fails
before anything is written. `Crash` ends a call anywhere and leaves its lock as
`Orphan` until `Reclaim`; `Expire` takes the lock from a call that is still
running. The wallet is ACTIVE throughout and exists already
(`getOrCreateWallet` is the initial state); amounts are whole paise, as
`Money.toMinorUnits` makes them. `liability` is the balance of the
CUSTOMER_WALLET account as `LedgerService` would sum it, `contra` the other
account of the same journals.

A release or commit is only begun for an intent that has a reservation document:
their only callers, the two attempt handlers, act for an attempt, and an attempt
is made after `reserveFunds` returned.

### PaymentOrchestrator

A request is a member of `Requests` with a record of its locals: where it is,
its job (`submit`, `webhook`, `poll`), its attempt, and the statuses *its copies*
of the documents show. `SetIntent` and `SetAttempt` are the two
`transitionStatus` functions: they ask the table about the copy and write the
stored status unconditionally, as Mongoose's `save()` does. The handlers:

| code | actions |
|---|---|
| `PaymentController.submitPaymentAttempt` and the service method | Submit, ReadIntent, Reserve, Route (routing and failover guard), Count, Insert, Process, Call, Save, Unlock |
| `processWebhook` | Deliver, Match, then a handler, CloseEvent |
| `checkAndRecoverAttemptStatus` | Poll, Rail, then a handler |
| `handleAttemptCapture` | ReadAttempt, RereadIntent, SaveAttempt, SaveIntent, WalletStep, PostCapture, then per order ReadOrder, SaveOrder, Report, Enqueue |
| `handleAttemptFailure` | ReadAttempt, RereadIntent, SaveAttempt, SaveIntent, WalletStep, Enqueue |

`Throw` says where an exception ends: a submission unlocks, a webhook marks its
event FAILED, a poll swallows it. Four calls of the handlers have a `try` of their own
and go on when they fail: `commitDebit` or `releaseReservation` (a busy wallet is such a
failure), `postJournal`, the seller's report and `enqueueEvent`. `Lapse` is that
failure, and `lapses` remembers at which of them it has happened. The wallet appears only through the status of
the intent's reservation (the wallet's own module has the rest), the ledger as
the set of attempts with a capture journal. The gateway is the environment: a
set of facts per attempt (opened, declined, captured) that only grows.
`Shares` says how much the wallet may pay; `Init` chooses one, which is
`initializeCheckout`. The controller's lock `attempt:intent:<id>` and the
service's `intent:<id>` have the same length and holder and are one lock here.

Left out: pricing, signatures, amount and currency checks (taken as passed), the
cart, transaction log and sockets; cached idempotent answers of the attempt
route; the legacy payment path.

### OrderStock

A worker is a request with its step and locals: the checkout it handles, the
order it is at, the value it will save (`target`), the lines it has to do or has
done. `claim` is a ghost that counts the units taken for an order and not put back.

| code | actions |
|---|---|
| `initiateCheckout` with its lock and stored answers | Begin, Again, CreateIntent, Record, Unlock, Refuse |
| `createOrder` with a transaction | Transact: all its writes, or an error and none |
| `createOrder` without one | Validate, Create, Deduct (the `$gte` condition), Attach; CreateFails, PopulateFails |
| its compensation | Undo, UndoItems, UndoOrders |
| `rollbackOrders` | Roll, RollPut, RollSave, RollFails |
| `updateOrderStatus` (sellers, admins, `cancelOrder`, `requestReturn`) | Update, Put, Save, UpdateFails |
| `handleAttemptCapture`'s order loop | Capture (read), Confirm (save) |
| a delivered shipment | Deliver, from any status |
| a seller's update of a product | RemoveVariant |
| process, lock | Crash, Expire |

A line names a variant if its product has variants: the cart sees to that
(`src/server/src/modules/customer/services/cart.service.js:311`), and
`OrderStockAssumption` says it. `Take` and `PutBack` are the updates of a line:

| line | deduction | putting back |
|---|---|---|
| without a variant | guarded by the product's count, which goes down | the product's count goes up |
| with one | its filter asks for the variant and for *a* variant with enough units (`Matched`), the positional update may count down either, and the product's count is not looked at | found by the variant; if the product has it no longer, nothing happens and nothing is reported |

So the counts of variants, and of the products that have some, may go below zero.
`RemoveVariant` is the seller's update of a product that leaves a variant out
(`product.service.js:396`): the product's count becomes the sum of the others, and the
ghost `withdrawn` counts what went. Two variants of one product in a cart, a variant that
is set INACTIVE and sellers who set counts themselves are not modelled (section 6).

`Written` is what Mongoose's `save()` does: it writes the paths whose value the
handler changed relative to the copy it read, so a status equal to the one that was
read is not written, and any other replaces what is stored by then. A line is in
one order of a checkout because a product has one seller (an assumption). `key` is
chosen in `Init`: the two carts may come with one Idempotency-Key or with two.

### Refund

The Refund document is known by its key; the collection's unique index admits one
for each key and one without. Steps: Ask (route, lock), Find, Sum (the ceiling),
Create, Dispatch (PROCESSING), then Header, Postings, Credit for the wallet or
GatewayRefund, Header, Postings for the card, Complete, Enqueue, Release, Record;
MarkFailed is the catch block, AnswerLost and AccessFails lead there or past it,
as the try block's place in the code says. Amounts are sets of units, so that the
sum of earlier refunds is a cardinality. Chargebacks: OpenChargeback,
MoveChargeback (evidence, expiry), ResolveChargeback, SaveOutcome, BookLoss. BookLoss
asks `LedgerSchema` whether the ledger takes the journal: it takes neither its type
nor one of its parties, so the handler of a loss always ends with an error after
the outcome was saved, and every retry meets the saved outcome.

### Settlement

A request loads a batch and works on its copy: Generate and Create (with the unique
indexes on reference and UTR, in which a missing value counts as null), Execute,
SaveReview or SaveSubmitting, Call, SaveAnswer; Recover, Inquire, SaveFound; Mark,
Settle, SavePaid, PostJournal. `bank` and `transfers` are the bank's side
(external): it takes an instruction under the batch's key once, makes the transfer
now or later, and tells its UTR, which is of that batch. Mark may enter, by mistake,
the UTR of another batch's transfer. An error of a store access and a crash are one
action (Fail): the operation ends where it is. PostJournal asks `LedgerSchema`, which
does not list the type of this journal: `markBatchSettled` ends with an error, its batch
PAID, and returns early when it is tried again. `journal` therefore stays empty, as
it does in the code; the promise is about the status instead.

### Outbox, EmailQueue, Background

Each process sweeps the outbox: StartSweep (find), Process, Dispatch, Publish, and
Retry in the catch block; an event that is due again is found by the next sweep, also
when it is PROCESSING. One sweep at a time per process stands for the timer whose
sweeps may overlap. A job is in Redis, in the memory of a process, in a worker's hands
(Take, Check, Send, Log, Mark, Fail), waiting for its timer (Requeue), or done. Crash
is one action for both: the sweep dies, and all jobs, timers and keys in the
process's memory are lost; a lost Redis connection stays lost until a restart, which
is what `redis.service.js` does. A push or a pop whose answer is lost may have been
done (`Push`, `PopFails`): a job may be doubled, or lost without a crash. An idempotency
key is stored in Redis for a day and, beside it, in the memory of the client that stored
it (`mirror`), which answers when Redis has no such key or fails; a dispatcher without
Redis has a memory of its own (`cached`). `Lapse` is the end of the day in Redis,
`Forget` that in a memory; `lapsed` counts the former.

## 3. The runs

| run | model | checks |
|---|---|---|
| `wallet` | 2 calls, 2 intents (2 and 1 paise), 1 credit of 3 sent up to twice, 1 crash, 1 expired lock; about 990 000 states | `TypeOK`, `HoldsCovered`, `HoldsExact`, `LedgerBacksWallet`, `BooksBalance`, `CommittedIsFinal`, `LockComesFree`, `KeepsPromise` |
| `payment` | 2 requests, 2 gateways, 2 attempts, 2 orders, the wallet paying nothing, a part or all, no faults; about 1 300 000 states | `TypeOK`, `OneLiveProvider`, `ConfirmedIsAnnounced`, `SucceededIsReconciled` |
| `paymentFaults` | 2 requests, 1 gateway, 1 attempt, 1 order, part paid from the wallet, 1 crash, 1 expired lock, failures of one of the caught calls; about 430 000 states | `LoneCaptureReconciled`, `CaptureConfirms`, `KeepsPromise` (refines `PaymentPromise`) |
| `orders` | 2 workers, a cart of two sellers and another that wants both of its products, one of them with 2 variants, 1 key and transactions or 2 keys and none, 2 events; about 730 000 states | `TypeOK`, `UnitsFollowStatus`, `CheckoutIsAtomic`, `KeyPlacesOnce`, `StrayCaptureNeedsRetry`, `ShippedIsPaid`, `CancelledStays` |
| `refunds` | 2 requests; keys for 2 units to the wallet and 2 to the card, none for 1 unit, of a total of 3; 1 chargeback; 3 events; about 1 700 000 states | `TypeOK`, `RefundCeiling`, `CompletedIsBooked`, `SuccessIsCompleted`, `OutcomeStands`, `KeepsPromise` (refines `RefundPromise`) |
| `settlements` | 2 batches, 2 requests, 2 events; about 2 600 000 states | `TypeOK`, `OneOpenBatch`, `PayoutStaysInSight`, `PaidStays`, `KeepsPromise` (refines `PayoutPromise`) |
| `background` | 2 processes, 1 event with 2 retries, 2 jobs with one key, 3 faults; about 42 000 states | `TypeOK`, `DispatchedOnce`, `DuplicateWasSent`, `SentOnce`, `NeverLost`, `JobSettles` |
| `walletTopup`, `paymentDoubleCharge`, `paymentRegress`, `paymentLost`, `paymentWalletAlone` | as the wallet and payment runs, without faults | one violated claim each, see section 5 |

*Why the bounds are enough.* Two calls give every interleaving of a pair, and
the hazards in the code are races of pairs: a holder against the one that took
over its lock, a webhook against a poll, a cancellation against a capture. The two
wallet intents together need exactly the one credit, so a reserve may fail, and a
hold counted twice shows at once. Two attempts are the least with a failover. The two
carts compete for the last units of a product and for the last one of a variant, so
that either may be refused; the other variant has a unit left, so that the variant can
be oversold and the wrong one counted down; and one cart has two orders, so that an undo
or a roll-back has something to forget. One lapse of a key is the least with which an
e-mail may rightly go out twice. Two of the refunds do not fit in the total together. Two batches are the
least for the unique indexes to matter. With an event (a fault, a status update, a
mistake), every point at which it may happen is tried; with two, a fault may meet a
retry or an update. `MaxSends`, `MaxCrashes`, `MaxExpiries`, `MaxAttempts`,
`MaxLapses`, `MaxEvents`, `MaxRetries` and `MaxFaults` are the bounds; the theorems
need none of them.

*Instances that leave something out.* Refunds and chargebacks of one order share
only the requests and the count of events, so in a behaviour of `MCRefund` there are
refunds or the chargeback; the theorems are about `Refund!Spec`, where they mix. In a
behaviour of `MCOrders` the two carts have one key and a database with transactions (then
locks expire and couriers deliver), or two keys and a database without (then the
checkouts overlap and compensate by hand). All mixed together, `OrderStock` has 2 000 000
states on this instance; it was checked once and found right, but takes too long for a run
that is repeated. The theorems cover every mixture: all properties of this run are proved. The
outbox and the e-mail queue share the processes and the faults, so in a behaviour of
`MCBackground` there are events or e-mails.

*Symmetry.* `payment` and its violation runs use that of requests and gateways,
`orders` of workers and keys, `refunds` of requests, `settlements` of requests and
batches; no expression orders them. `paymentFaults`, `wallet` and `background` check
liveness and use none.

*Ghosts.* Some properties speak of what whole operations do, one at a time, and
say of the rest only that it is the rest. A ghost remembers which is which, and no
guard reads it: `calm` (orders and batches on which no two operations overlapped and
none failed half-way), `quiet` (events no two sweeps and no fault met at), `apart`
(e-mail keys likewise), `orderly` (chargebacks operated on one at a time and not set
aside after their end), `withdrawn` (units of removed variants), `asked` (refunds asked for again),
`doubtful` and `expired` (a lock expired under its holder). Section 5 says what the
code does outside of them.

*Fairness.* `Wallet` assumes that a running call goes on (its store answers) and
that a dead call's key disappears (Redis EX). `PaymentOrchestrator` assumes the
same of a running request, and strong fairness of the delivery of a captured
event: gateways redeliver until they get a 2xx, which only a PROCESSED event
gives. It is strong because the model's two requests may both be busy again and
again, which is no reason for a server to refuse a delivery. `Background` assumes
weak fairness of each process's timer and accesses, of the time of a retry coming,
and of the steps of each job; faults are finitely many. Nobody has to start a call,
to pay, or to poll.

*Deadlock.* The wallet run checks for deadlock. The others do not: once the bounded
number of attempts, checkouts, refunds, batches or jobs is used up and everything is
delivered, nothing is left to do.

## 4. What is proved

### The wallet

`WalletProofs` proves, for every number of calls, intents (finitely many), credits,
amounts, crashes and expired locks:

- `TypeCorrect`: `Spec => []TypeOK`, in particular that balances are never
  negative. The `$gte` guards carry it, without the lock.
- `HoldsAreCovered`, `HoldsAreExact`, `LedgerIsBacked`: the three invariants.
- `CommitmentsAreFinal`: the action property `CommittedIsFinal`.
- `BooksAreBalanced`: `BooksBalance`, though locks expire.
- `WalletKeepsPromise`: `Wallet` implements `WalletPromise`.

The assumptions are those of `WalletAssumption`: intents are finitely many,
amounts are positive integers, keys of intents and credits differ.

The invariants are not inductive: they say nothing of a call that has moved the
balance and not yet recorded it. `IInv` adds, as long as no lock has expired,
that only the lock's holder is away from `idle`, what that holder knows (a release
that is about to record has seen a RESERVED document), how far `reserved` is
ahead of the recorded holds at each of its steps, and, without faults, how far the
ledger is ahead of the wallet. `Invariance` proves `IInv` with one lemma per
action (`FindStep`, `RecordStep`, `MoveStep`, ...). The sum of the holds is the
cardinality of a set of paise, so that adding or removing one hold is a lemma
about finite sets (`TotalAdd`, `TotalRemove`) and no recursion is needed. TLC
checked `IInv` as an invariant before the proof was attempted.

The refinement rests on the same invariant. A call takes effect at one of its steps: a
reservation when its document is written, the other operations when they move the
balance. The mapping of `WalletRefinement` adds what the running call has moved and not
written (`FundsTaken`) and hides what it has written and not moved (`LedgerLead`,
`Settling`, `InProgress`); each other step is shown to stutter.

The books cannot lean on the lock, since `BooksBalance` is claimed when locks have expired
and several calls write journals at once. `BooksInv` gives up the single holder: calls
between the two lines of a journal are in `Over` or `Under`, by the side they have written,
and the two accounts differ by what these sets owe.

### Payments

`PaymentProofs` proves, for every number of requests, gateways, orders, attempts,
crashes, expired locks and failed calls, and every share of the wallet:

- `PaymentTypeCorrect`: `Spec => []TypeOK`.
- `ConfirmationsArePaid`: `ConfirmedMeansPaid`. It needs no lock and no unique
  order of events: it is what a handler has seen on the way to its step.
- `PaymentKeepsPromise`: `PaymentOrchestrator` implements `PaymentPromise`. Every step
  is the gateway taking money, the ledger booking an attempt that is paid, an order being
  confirmed that is paid and booked, one event about a confirmed order for each attempt,
  or the wallet's share moving; any other step stutters, those of faults included.
- `SucceededAreReconciled`: `SucceededIsReconciled`, once no request runs and none has
  died: an intent that is SUCCEEDED is not ahead of its orders, its journal or its event.
- `LiveProviderUnique`: `OneLiveProvider`, while no lock expires.
- `ConfirmationsAreAnnounced`: `ConfirmedIsAnnounced`, while no request dies and
  `enqueueEvent` does not fail.
- `LoneCapturesReconciled`: `LoneCaptureReconciled`, while no request dies and the
  first attempt is the only one.

The assumptions are those of `OrchestratorAssumption`, among them that a checkout may
have an attempt at all (`MaxAttempts > 0`). `ConfirmedMeansPaid` says
nothing of a handler that is about to post or confirm, so it is not inductive.
`IInv` adds, for each request, what it knows at its step (`Sound`: inside the
capture handler its attempt is paid, at the orders it has posted), that two
requests never open the same attempt at its gateway (`Apart`; the unique index is
why), that no gateway knows an attempt that does not exist (`Unopened`), and that
a payment from the wallet alone stops at the intent (`WalletAlone`), because that
is the one way into the capture handler without a gateway. `RInv` adds `Routed`:
a submission holds the lock, and what the failover guard saw in `Route` still
holds when `Insert` makes the attempt. There is one lemma per action (`CallKeeps`,
`InsertRouted`, ...); `Keeps` and `RoutedKept` say what each has to show. TLC
checked both invariants before the proofs were attempted.

`KeepsPromise` covers `ConfirmedMeansPaid` in `PaymentPromise`'s own terms, so no run
lists the latter. The refinement needs `IInv` and `Saved`: the order a handler is about
to announce is confirmed. A confirmation is never taken back, which is why a handler may
work from a list of orders it read long ago. What is not promised is a journal after
`postJournal` has failed: the code goes on and confirms the orders, and `Slip` is that
step, named in the promise rather than left out.

`SucceededIsReconciled` speaks of moments at which nothing runs; `Reconciling` says it of
the others: once the intent is SUCCEEDED, each order is confirmed or on the list of a
handler in its loop, or a handler stands before the loop. The difficulty is a second
handler that skips what the first has done: it may take an order for done only when it
is. `ReconcilingStep` says what a step must show, which is that it strikes off its list
nothing but confirmed orders.

For `LoneCapturesReconciled` the code's difficulty is that both handlers save copies of
documents without a condition. The proof is that they never meet on one attempt: when a
gateway's no is final (`NoIsFinal`), a failure handler runs only for an attempt that is
not paid and never will be (`Never`), and a capture handler only for one that is paid.
`LInv` adds, for a checkout whose first attempt is alone (`Lone`), how intent, attempt,
gateway and reservation agree (`Agree`), which statuses a request's copies may have
although the documents have moved on (`Solo`), and that a captured attempt is reconciled
or has a handler on its way (`Carried`). The last is what redelivered webhooks and polls
could break, by taking the attempt for done too early.

### Orders

`OrderProofs` proves, for every set of workers, carts, keys, orders and products and
any number of faults, with and without transactions:

- `OrderTypeCorrect`: `Spec => []TypeOK`, with the stock of a product without variants at
  least 0; the `$gte` condition of the deduction carries it. Of other counts it says
  only that they are integers, because the code lets them go below zero.
- `KeysPlaceOnce`, `StrayCapturesNeedRetry`, `ShippedArePaid`: the invariants
  `KeyPlacesOnce`, `StrayCaptureNeedsRetry` and `ShippedIsPaid`.

None of the last three is inductive: what a worker writes rests on what it read some
steps ago. `OrderInv` adds what each worker knows at its step (`Knows`), that it holds
its key's lock until that expires and found no answer under it (`Locked`), that no two
workers handle one submission (`Single`), and how intents, answers and outcomes agree
(`Stored`, `Recorded`, `PaidIsAnswered`). Then a roll-back never marks a paid order as
failed: paid means answered, and the roll-back's own submission has no answer yet.
`Frame` is what a step of one worker may change of what the others rely on;
`PlaceKeeps` and `OtherKeeps` reduce each action to a few conditions. The proofs use
of `OrderStockAssumption` that the orders belong to submissions, that quantities are
numbers, that a product is in one order of a cart (for the deduction of a
transaction), and that lines name variants exactly of products that have some.

`OrderCalmProofs` proves `UnitsAreTaken`, `CheckoutsAreAtomic` and `CancelledOrdersStay`
(the properties `UnitsFollowStatus`, `CheckoutIsAtomic` and `CancelledStays`), about
orders that are calm, and `PlainStockIsNeverOversold`. Between two steps of an operation they do not hold, so `CalmInv`
says how far the operation has come: at most one worker has a calm order in its scope;
the order claims exactly the lines this worker has taken and not yet put back (`done` of a
checkout, `todo` of a roll-back or an update), with one clause per phase of the code
(`Doing`); and an order nobody works on is `Settled`. `Tidy` is what holds of a worker's
locals even when others have touched its orders. `CheckoutStays`, `LeavesCalm` and
`BesideCalm` reduce an action to the orders in its worker's scope; `TakesLine` and
`PutsLine` are the two directions of the `$inc`. The compensation puts back line by line
what `done` lists, and the roll-back and the cancellation what `items` lists, which is why
the invariant also has `items[o] = ProductsOf(o)` from `Attach` on.

The first half of `UnitsFollowStatus` needs no calm: whatever overlaps or dies, what is
missing from a shelf is claimed by some order or went with a variant, and what is there
too often was put back twice for one. `AddsUp` says so with cardinalities of sets of
units, those of a negative count subtracted; a deduction or a restocking moves units of
one order (`AddsUpStill`), a transaction those of all orders of a cart at once
(`TransactAddsUp`), where the code's one line for a product in a cart matters. The count
of a product with variants is written by sellers too: `RemoveVariant` sets it to the sum
of the variants that stay. That this loses nothing rests on `CountIsSum`, which says that
the two counts are moved together (`LineFollows`, `TransactFollows`, `RemoveAddsUp`),
also when the wrong variant is counted down, or nothing is put back: then neither count
moves, and the claim stays with the order for good. `Offered` says that a calm order's
variants are listed, without which its lines could not be put back. `StockInv` adds that
orders claim nothing before their checkout has begun to make them.

`PlainStockIsNeverOversold` puts the halves together: if the orders with a product in them
are calm and nobody works on them, the units in the orders that live, those on the shelf
and those withdrawn are together those of the start, whatever happens to all other
orders; for a product without variants no more is sold than there was. Of a variant this
is false (section 5). TLC checked this formula, which no run lists because
`UnitsFollowStatus` and the type invariant imply it, on this instance.

### Refunds

`RefundProofs` proves `RefundTypeCorrect`, `RefundsPaidOnce` (`PaidOnce`, which no run
lists because the promise has it), `CompletedAreBooked` and `SuccessMeansCompleted`. `RefundInv` says what a request knows of its refund
(`Knows`), that the unique key lets no two requests process one refund (`Apart`), that
two requests for one refund mean it was asked for again (`Noticed`), and what status,
payments and journal of a refund may be together (`Books`). None of this needs the
lock, so it holds when it expires. The second half adds the lock: `LockInv` says
that the holder's sum is still true when it creates its refund, and the ceiling
follows by counting units (`RefundsWithinTotal`). `DisputeInv` gives `OutcomesStand`: on
an orderly chargeback one request is at work at most, and it is about to save an outcome
only while there is none yet, though the handler of a loss fails each time at its journal
and is tried again.

`RefundKeepsPromise`: `Refund` implements `RefundPromise`. The ceiling is there a guard of
the step that opens a refund, as long as refunds are decided on one at a time, so this
says of each step what `RefundCeiling` says of states. The wallet is credited after the
journal and a card refunded before it, and the promise keeps them apart (`PaidFirst`).
Besides the invariants it needs `Unposted`: the ledger has nothing of a refund before the
request that processes it gets there; with it the two writes of a journal are one step
of the promise, the second.

### Settlements

`SettlementProofs` proves `SettlementTypeCorrect` and `OneBatchOpen`.
`SettlementCalmProofs` proves `PayoutsInSight` and `PaidForGood` from `CalmInv`: a batch
that is calm has one request at work on it, whose copy is what is stored. It also proves
`SettlementKeepsPromise`: `Settlement` implements `PayoutPromise`. That a batch is put down
as PAID only after the bank has paid it is not what it seems: nothing compares a UTR with
the batch it is entered for. It follows because at most one batch is without a UTR and a
UTR is unique, so a free UTR for an unpaid batch would be one more than there are
(`FreeUtr`, a pigeonhole over the finite set of batches with a transfer). PAID is taken
back only where operations overlapped, which is `PaidForGood` once more, as a step of the
promise (`Reopen`). No theorem says that a payout is booked: the ledger refuses it.

### Background

`BackgroundProofs` proves, for every number of processes (at least one), events, jobs,
keys and faults:

- `BackgroundTypeCorrect`: `Spec => []TypeOK`.
- `EventsDispatchedOnce`: `DispatchedOnce`. As long as an event is quiet, one sweep at
  most has it, who has it has not dispatched it, and an event that is not published and
  that no sweep has was never dispatched (`Handled`). That no event is published or
  given up undispatched holds of every event; `SentInv` adds that what a sweep is about
  to mark has been dispatched. It is the safety half of `NeverLost`.
- `DuplicatesWereSent`: `DuplicateWasSent`. A key that is stored in Redis or in the
  memory of a process belongs to an e-mail that went out (`Backed`).
- `EmailsSentOnce`: `SentOnce`. Two jobs of one key that come apart are never busy
  together, and once the e-mail has gone out more often than its key has lapsed, the key is
  stored or its job is about to store it. A memory that has kept the key for longer than
  Redis only suppresses more. Where a process without Redis sent it, only that process knows (`Offline`);
  a connection comes back only with a restart, and then the keys that were lost count as
  disturbed, so `Once` may leave this case out.

### Only model-checked

The four liveness properties (`LockComesFree`, `CaptureConfirms`, `NeverLost`,
`JobSettles`), which are outside the prover's reach. Every other property of the passing
runs is proved. The refinements are proved for the steps; the promises have no fairness,
so nothing of them is left to TLC.

## 5. Where the code and its documentation part

Each has a run in which TLC finds a behaviour of the model that violates the
quoted sentence; details and quotes are under `findings` in `PROJECT.json`.

1. **A top-up sent twice is credited twice** (`walletTopup`, `LedgerTruth`). The
   journal is deduplicated by its key, the `$inc` after it is not.
2. **Failover may charge twice** (`paymentDoubleCharge`,
   `NoFailoverDoubleCharge`). A capture between the read of the intent and the
   search for attempts in flight hides the first attempt from the guard.
3. **A late FAILED may overwrite a capture** (`paymentRegress`,
   `FailedEventKeepsCapture`). The check looks at a copy; the save has no condition.
4. **A capture after another attempt's decline is lost** (`paymentLost`,
   `ProcessedMeansConfirmed`). The attempt is saved CAPTURED before the intent
   refuses SUCCEEDED, and the redelivery takes it for reconciled.

5. **A payment from the wallet alone cannot succeed** (`paymentWalletAlone`,
   `WalletPaysOrders`). An intent that is CREATED may not become SUCCEEDED, so the
   attempt ends CAPTURED with the wallet not debited and the order unconfirmed.

Seen while modelling, without a run of their own. Most are what a condition in a
property excuses; `OS` is `src/server/src/modules/customer/services/order.service.js`,
`RS`, `SS` and `PC` are `services/RefundService.js`, `services/SettlementService.js` and
`controllers/payment.controller.js`.

*Wallet and payments.* The outbox key is made of the attempt, so only the first of
several orders gets its event. A crash in the middle of `commitDebit` strands
reserved funds and may leave a journal with one line.

*Journals the ledger refuses* (`LedgerSchema`). `postJournal` hands the type of a journal
and the parties of its lines to Mongoose, and the enum of
`models/ledgerJournal.model.js:14-25` lists neither `SELLER_BATCH_SETTLEMENT` (SS:857)
nor `CHARGEBACK_LOST` (RS:436), that of `models/ledgerPosting.model.js:46` not the party
`SYSTEM` (RS:403). So marking a batch as settled and resolving a chargeback as lost always
end with a validation error, after the batch was saved PAID (SS:853) and the
chargeback CHARGEBACK_LOST (RS:389): neither the payout nor the loss ever gets into the
books, although SS:855 says "Double-entry ledger journal for batch payout" and
`src/server/tests/phase24PaymentPlatform11.test.js:620` that "resolveChargeback with
outcome LOST debits SELLER_RESERVE to balance platform dispute account". `journal` and `booked` stay what
they were at first in every behaviour of `Settlement` and `Refund`. `SELLER_RESERVE_HOLD`
and `SELLER_RESERVE_RELEASE` (SS:469, SS:511) are refused likewise; risk holds are not
modelled. What the models do claim is that the saved outcome survives the error and its
retries (`OutcomeStands`, `PaidStays`), and that it is true (`KeepsPromise`).

*Orders* (`calm`, `expired`). Two overlapping cancellations both put the stock back,
although OS:561 says "Only restock if transition was not previously applied". A capture
or a delivery revives an order that was cancelled and restocked. A submission whose
orders were rolled back leaves its intent; the retry under its key is given that
intent, with the cancelled orders in it (`StrayCaptureNeedsRetry`). If only the last
read of `createOrder` fails (after its commit), the orders stay, CONFIRMED, with
their units and no intent. The order has no `paymentMethod`, so one paid in cash
cannot be shipped.

*Variants* (`Matched`, `PutBack`). OS:194-199 asks for the variant and for enough units in
two conditions without `$elemMatch`: another variant's units satisfy the second, the
positional `$` may stand for that other one, and the product's count goes down with no
condition at all. So two checkouts that both saw the last unit both get it, the variant's
count or the product's goes below zero, or the wrong variant is counted down, although the
comment at OS:190 says "Atomic stock deduction with condition $gte: requestedQuantity".
OS:328, OS:420 and OS:566 put units back by the variant's id, and when the seller has
removed that variant they match nothing and nobody looks: the units are lost without an
error. `UnitsFollowStatus` is what remains true: no unit leaves the product's count that
is not claimed by an order or withdrawn.

*Refunds* (`doubtful`, `asked`). The ceiling is the order's total and not, as RS:21
says, the captured amount. A retry under the key of a FAILED refund is answered with
success. Refunds without a key collide in the unique index: one for the whole
collection.

*Settlements* (`calm`). `executeBatchPayout` calls the bank again for a batch in
STATUS_CHECK_REQUIRED, although SS:728 says "NEVER retry createPayout blindly"; that
the bank knows the key is what makes it harmless, and the model assumes it. Delivered
orders are never marked as settled, so every later batch of the seller contains them
again; that the unique index counts a missing UTR as null holds the next batch back
until the first has one (`OneOpenBatch`), for all sellers together. A second answer whose UTR is
refused leaves a batch SUBMITTING that the bank has paid. NOT_FOUND, while another
request's call is still in flight, marks a batch FAILED that is then paid.

*Background* (`quiet`, `apart`). The events of the outbox have no e-mail template under
their names, so a dispatch sends no e-mail. A failed e-mail comes back as a new job
with no attempts made, so the limit on attempts is never reached. A job that was
popped from Redis is lost when its process dies, or when the connection dies with the
answer. The idempotency key of an e-mail is stored for 86 400 s
(`src/server/src/modules/email/core/email.constants.js:12`); the event, template and
entity it is made of come again, so two jobs with one key that are a day apart are both
sent (`lapsed`), with no fault and no overlap. The middleware for idempotent
requests refuses every retry of a request that died or failed.

*Payments* (`lapses`). After a failed `postJournal` (`Slipped`) the orders are confirmed
and the intent SUCCEEDED without a journal, and no redelivery writes it, because the
attempt is CAPTURED by then; `PaymentPromise` calls it `Slip`. A failed `commitDebit`
leaves the wallet's share reserved and never debited, a failed `enqueueEvent` the
customer untold.

The conditions written into the properties say the same from the other side.
`HoldsCovered` and `CommittedIsFinal` hold while locks outlive their holders
(`expiries = 0`), `LedgerBacksWallet` without faults and resends,
`LoneCaptureReconciled` for a checkout of one attempt, `RefundCeiling` while the lock
of the order does not expire, `KeyPlacesOnce` and `ShippedIsPaid` likewise for the key.

## 6. Not modelled

- *The older checkout* (`POST /orders`, `payment.service.js`) and the older settlement
  (`generateSellerSettlement`, `executePayout`, `markSettled`): beside the ones that are
  modelled, over collections of their own.
- *Risk holds*: lists of amounts kept for a seller; no step of the batches reads them.
- *The idempotency middleware* on the order routes: a request it lets through is one that
  `OrderStock` allows anyway.
- *Pricing, offers, EMI, risk scores, `Money`*: arithmetic on one request's inputs, which
  example tests reach. Models that use amounts take them as given, in paise.
- *Reconciliation*: reports, and one record that is checked and saved; nothing reads it.
- *Logistics and delivery partners*, except for what a delivery does to its order:
  statuses set freely by staff, one document each.
- *Circuit breaker and AI*: counters around calls on which no state of the shop depends.
- *Stock apart from orders*: a seller or an admin who sets the count of a product or a
  variant (`updateStock`, `bulkUpdateStock`, or a form that was opened before an order and is
  saved after it) writes any value over the stored one, so no count means anything beside
  it; products that are deleted, get or lose their variants as a whole, and variants that
  are set INACTIVE, which checkout refuses when it looks at the line first.
- *Two variants of one product in a cart*: `OrderStock` has one line for a product in an
  order.
- *The lock in memory*: without Redis, `utils/distributedLock.js:46-62` takes a lock in the
  memory of the process, which another process does not see. The locks of the models are
  those of Redis.
- *Catalogue, cart, accounts, realtime, deletion worker, admin pages and the five front
  ends*: the bulk of the repository's lines, single-document reads and writes, and
  presentation.

## 7. Plan

In this order:

1. Lines: two variants of one product in a cart, which lets a deduction of one line count
   down what the other has just taken, and sellers who set counts meanwhile.
2. An abstract shelf, in which an order takes all its units at once and gives them back at
   most once, implemented by `OrderStock` for products without variants and orders that are
   calm; `UnitsFollowStatus` and `PlainStockIsNeverOversold` are its invariants.
3. The seller's report, which two captures read, increment in memory and save.
4. Couriers: cash collection and proof of delivery, with the order they deliver.
