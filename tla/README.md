# EcoMate Web: a TLA+ model of its order core

EcoMate Web is an e-commerce back office: a NestJS backend on PostgreSQL
(`src/apps/backend`), with admin, POS and storefront applications around it.
This directory models what an order sets in motion: a product's stock counters
while the order lives, its goods in the warehouse and what they have cost, the
parcels and what couriers tell of them, the money
that is paid, credited and refunded, the lock that keeps two staff members from
editing one order, and the purchase event sent to advertising providers. The
specifications are checked with TLC and, where it matters most, proved with
TLAPS.

## The system

The backend is one process (or several) of request handlers. Nothing is shared
in memory; all state is in PostgreSQL, at READ COMMITTED unless a transaction
says otherwise (goods receipts and a few stock adjustments ask for
SERIALIZABLE; transfers, counts and everything an order does do not). A handler typically reads, checks, opens a transaction, writes
one row first, and then calls other services inside the same transaction. The
checks are not repeated inside. The concurrency of the system is therefore the
interleaving of these phases, restrained by the row locks that writes take and
by `SELECT ... FOR UPDATE` on `Product` in `StockService.lockRows`.

| Part | State | Operations | What is hard | What makes it correct |
|---|---|---|---|---|
| Orders (`orders.service.ts`, `order-transitions.ts`) | status, timeline, trashedAt | create, updateStatus, bulkStatusChange, cancelByCustomer, trash, restore, updateOrder | gates outside the transaction; every transition calls other services | stock effect of each status, once |
| Managed stock (`stock.service.ts`) | `managedStockQuantity`, `reservedStock`, ledgers | reserve, release, deduct, add, scrap | one counter shared by all orders | counters non-negative, equal to what the lines claim |
| Deduction (`order-stock-deduct.service.ts`) | `managedStockDeducted` on the line | deductForOrder | reached from Order and from Dispatch transactions | at most once per line |
| Cancel/return stock (`cancel-return-stock.service.ts`) | flags, RETURN_HOLD rows | releaseForCancellation, holdReservationForReturnPending, restoreForReturnItems | swallowed refusals; a hold on its own connection | what left comes back once |
| Dispatch (`dispatch.service.ts`) | dispatch status, possession timestamps | create, updateStatus, syncOrderStatus, syncStatusFromCourier | commits before the order follows | order and parcel agree |
| Dispatch cancel (`dispatch-cancel/`) | courierCancel columns | evaluateOrder, prepare, apply, confirmManualPanelCancel | an external call that cannot be undone | no cancelled row hides a live parcel |
| Returns (`returns/`) | Return rows | create, markReceived, markDamaged, close | partial quantities, double receipts | restock once, per quantity |
| Order edit lock (`order-edit-lock.service.ts`, `order-edit-lock.tsx`) | one row with expiry; page state | acquire, heartbeat, override, release | read-then-write, expiry, killed browsers | one holder, who knows it |
| Physical stock and costing (`stock/`, `inventory/`, `purchases/`) | PhysicalInventory rows, reservations with their allocations and cycles, costing lots and consumption records | reserve, fulfil, release, restore, receive, transfer, count | reads without locks, some updates guarded and some not, lots shared by everybody | lots neither overdrawn nor over-restored, costs back with the goods, reserved goods on hand |
| Payments, refunds, credit (`payments/`, `refunds/`, `customer-credit/`) | signed Payment rows, Refund rows, credit entries | create, verify, applyCredit, refund | rows and balances read outside the lock | credit for the excess, once; never refund more than paid |
| Courier webhooks (`courier-manager/`) | WebhookAttempt keys, dispatch, order, Return | processWebhook, upsertDispatch, tryAdvanceOrderStatus, recordCourierReturnSignal | late, repeated, reordered events; deaths half way | the last word takes effect |
| Tracking outbox (`tracking/`) | outbox and dispatch rows, BullMQ jobs | capture, relay, run, reconcile, replay, revive | stale writers by id, lost jobs, unanswered sends | SENT means taken; every event settles |
| RTN, exchange, packing, scanner, POS, licensing | see `PROJECT.json` | | | |

`PROJECT.json` lists every component with its status, and every hazard at its
line.

## Modules

* `OrderTransitions` holds the tables: the order and dispatch status maps, the
  status groups, and the projection of a dispatch status onto the order.
* `OrderStock` is the core. It has one product in MANAGED_STOCK mode with its
  two counters, orders of one line each with the two flags, the order's latest
  dispatch, its returns, and `job[w]`, the handler each worker is running.
  Handlers have the phases of the code: *gate* (reads and refusals before the
  transaction), *begin* (the first row write, which takes the row's lock, and
  the reads of the line's flags), *commit* (the product lock, the counters,
  everything else). `Abort` rolls a handler back anywhere. A dispatch change
  goes on as a `sync` job after its commit, a receipt as a `mirror` job, and
  the hold of a pending return runs in the middle of a status change on its
  own connection, as in the code.
* `Shelf` is the abstract promise: lines leave the shelf and come back whole,
  one at a time, and the ledger says so. `OrderStock` refines it
  (`ShelfPromise`, with shelf <- onHand, out <- dedF, ledger <- taken).
* `CostBooks` is the abstract promise of the costing lots: a line is charged, a
  lot repaid or written off in one step, no line for more units than it has, no
  lot for units it does not have, nothing repaid that was not charged.
  `PhysicalStock` refines it (`CostPromise`, with bought <- got,
  unspent <- left, debt <- the `owed` part of used); reservations, walks and
  open transactions are steps the books do not see.
* `OrderEditLock` is the lock row, the calls in flight and the page guard.
  Each statement of the service is an action. Time is the row's remaining
  lifetime in ticks.
* `CourierParcel` is one order with several bookings: `truth` is where each
  parcel really is, `mail` what its courier still has to tell, in any order;
  `hook` is the webhook of a parcel between key claim, row, order steps and
  return; `cancel` is the cancellation between its gate, the calls to the
  couriers and the order transaction; `ref` is the consignment and courier the
  order names, by which webhooks find it; `board` is the order sync of a status
  set on the dispatch board, between its read and its write. It uses the tables
  of `OrderTransitions`, and the webhook service's own, which differ. `missed`
  and `byHand` record history for the properties.
* `OrderMoney` is the ledger of a customer's orders. `rows` are the Payment
  rows (refunds and applied credit included), `call` a verification, refund or
  cancellation between its read and its transaction, or a refund before its
  target status is set, `granted` and `spent` the credit entries. `odd` records which exceptional things befell an order; the
  code has no such variable, the properties need it to say exactly when they
  hold.
* `TrackingOutbox` is one Purchase event: `outbox` and `row` are its table
  rows, `jobs` the BullMQ jobs by attempt count, `worker` the dispatcher's
  runs, `relay`, `sweep` and `revival` the other services between their reads
  and writes, `accepted` what the providers took.
* `PhysicalStock` is one INVENTORY_CONTROLLED product in one warehouse. `qty`
  and `res` are the counters of its PhysicalInventory rows (a row without a bin,
  and bins), `got` and `left` the received and remaining quantity of its costing
  lots, oldest first; `claim` and `cycle` an order's PhysicalReservation with its
  allocations in the latest OrderStockCycle, `used` the CostingLotConsumption
  of its line at each lot, restorations subtracted. `job` is an open
  transaction: what it has taken of rows and lots stays there, locked and unseen
  by others, until its commit. `gone`, `came`, `stray` and `loose` record history for
  the properties.
* `MCOrderStock`, `MCOrderEditLock`, `MCCourierParcel`, `MCOrderMoney`,
  `MCPhysicalStock` and `MCTrackingOutbox` give the constants of the runs.
* `OrderStockProofs` (types, ledger, refinement of `Shelf`), `OrderClaimProofs`
  (reservations, the end of orders), `OrderMoneyProofs`, `PhysicalStockProofs`
  (also the refinement of `CostBooks`),
  `CourierParcelProofs`, `TrackingOutboxProofs` and `OrderEditLockProofs` hold
  the theorems, `SumTheorems` the lemmas on sums over finite sets they share.

Correspondence of the main state: `onHand`/`reserved` are
`Product.managedStockQuantity`/`reservedStock`; `resF`/`dedF` are
`OrderItem.managedStockReserved`/`managedStockDeducted`; `taken` is the net OUT
of the line's ledger rows; `left` abbreviates the three possession timestamps;
`heldRow` is the existence of a RETURN_HOLD ledger row.

Actions of `PhysicalStock`: `Look` is the gate of `resolveAndApplyStock` and the
allocation walk of `reservePhysicalAllocated`, `Reserve` its writes and commit;
`HandOver`, `TakeRow`, `FindLot`, `TakeLot`, `ShipCommit` are
`fulfillPhysicalReservation`, statement by statement, with
`consumeFIFOAggregated` inside; `Cancel` is `restoreForOrder`; `Return` and
`ReturnUnshipped` are the CONSUMED and the ACTIVE branch of
`restorePhysicalForReturnLine`, with the `disarmClaim` of a line that is all
damaged; `Release` and `ReleaseCommit` staff's release of a row's reservations
(`physical-inventory.controller.ts:397-413`), which names no bin and so may hit
another row than the one it read; `Receive` a GRN line; `Transfer` and
`TransferCommit` the outgoing leg of a transfer around the same lot loop;
`Count` a negative adjustment, whose lot loop runs outside its transaction;
`GiveUp` a rollback, a deadlock's victim or a death anywhere.

### What may overlap

`Overlap` is an assumption about the environment, since the code itself
excludes little:

* `"full"`: transactions of one order exclude each other only when they lock
  the same row. This is what the database gives. A transaction that writes the
  Order row and one that writes the Dispatch row do run together.
* `"gates"`: the transactions of one order do not overlap, but their gates do,
  so every gate may be stale. This is what staff working on one order at human
  speed, a courier posting now and then, and row locks amount to.
* `"serial"`: the handlers of one order follow one another entirely. Handlers
  of different orders, which share the product, still interleave.

Safety that only needs the row locks is proved at every `Overlap`
(`TypeCorrect`); what needs more says so (`WholeAndApart`, `Serial`), and the runs `twice`, `steal` and
others show why the assumption cannot be dropped.

## Runs

| Run | Instance | Shows |
|---|---|---|
| `gates` | 2 orders, 2 workers, gates overlap, board limited to hand-over and cancel, whole-line returns, received through their Return row | `TypeOK`, `TakenOnce`, `NoPhantomReservation`, `ShelfPromise` |
| `serial` | 2 orders, 2 workers, one handler per order at a time; o1 has every staff, courier, board and return step, o2 competes for the product and is trashed and restored | `LiveOrderHoldsClaim`, `DeadOrderHoldsNothing`, `DiesWithNothing` |
| `delivered` | shop statuses, board | violation of `DeliveredWasDeducted` |
| `steal` | two orders | violation of `ReservationsCovered` |
| `partial` | lines of two units, split returns | violation of `ReturnedUnitsAreBack` |
| `twice` | `Overlap = "full"` | violation of `DeductedAtMostOnce` |
| `editlock` | two users, failing browsers, networks and logins, TTL 2 | `TypeOK`, `DisplacedLearns`, `AbandonedLockEnds` |
| `editlock_races` | a user in two tabs and a colleague | violation of `OnlyOverrideDisplaces` |
| `tracking` | 2 targets, 2 workers, 3 captures, 1 retry, 1 fault, 1 call | `TypeOK`, `SentMeansAccepted`, `DuplicatesNeedFaults`, `Settles` |
| `courier` | a Pathao and a Steadfast booking, 3 events, 1 fault, 1 call of staff, who set HOLD and CANCELLED on the board | `TypeOK`, `CancelledHidesNoParcel`, `DeliveredWasClaimed`, `LastWordIsHeeded` |
| `physical` | 2 orders (1 and 2 units, the latter revived once), 2 rows, 3 lots, 2 workers, 1 movement | `TypeOK`, `NoLotOverdrawn`, `LotsWithinReceipt`, `CostsComeBack`, `ReservationsCounted`, `ReservedGoodsAreThere`, `CostPromise` |
| `money` | 2 orders, 3 rows, 2 calls at a time, 3 in all, refunds alone, with the cancellation or with the target status Cancelled | `TypeOK`, `GrantsMatchExcess`, `RefundsWithinPaid`, `CancelledIsSettled` |

The violation runs are disagreements between the code and what its own comments
say; each is a finding in `PROJECT.json` with the quoted line.

* `delivered`: DISPATCHED -> HOLD -> DELIVERED on the board never passes
  HANDED_OVER or IN_TRANSIT, and `syncOrderStatus` writes Delivered directly.
* `steal`: after a deduction the order owns no reservation any more, yet
  give-back tries to release one and the shared counter lets it.
* `partial`: the first partial return clears the flags of the whole line.
* `twice`: `deductForOrder` reads the flag before the product lock.
* `editlock_races`: `release` deletes by order id after a separate read. The
  upsert of a takeover has the same shape.

`DeadOrderHoldsNothing` holds in `serial` because there o1 has no customer
cancel and no trash while a parcel of it may be booked. With a customer cancel
it fails: `cancelByCustomer` (`orders.service.ts:5942`) never asks about the
dispatch, so the parcel is handed over afterwards and its line deducted from a
cancelled order. Trashing a booked order ends the same way. `DiesWithNothing`
looks at the step instead of the state and names this one exception: it holds
whatever entry points an order has.
`LiveOrderHoldsClaim` is said of orders without a Return row: a return left
open by a cancelled order still strips the line when it arrives after the order
was revived.

The properties of `courier`, `money`, `physical` and `tracking` have exceptions,
and these are facts about the code:

* A handler that dies after claiming its Idempotency-Key loses the event: the
  key is never released, and the courier's retry is answered 2xx as a duplicate
  (`Lost` in `CancelledHidesNoParcel`; `LastWordIsHeeded` is said of Pathao,
  whose events carry no key). A keyed handler that merely throws is run once
  more at once (`Rerun`).
* The dispatch board (`dispatch.service.ts:520-635`) sets a row CANCELLED or
  PICKUP_FAILED without asking the courier and owes nobody a panel; deleting a
  row, by itself or as the 'cancel' of a flagged one (`:1682-1685`), takes its
  stamps with it. So staff can hide a live parcel: `CancelledHidesNoParcel` is
  said of the parcels that they did not shut by hand (`byHand`).
* A webhook whose consignment is on no order and no dispatch row falls back to
  the order's number, and this only when the order names the webhook's courier;
  otherwise it is answered 404 and the courier does not say it again
  (`missed`). It happens to a booking that could not be saved, or whose row was
  deleted, when the order has been booked with another courier since:
  `LastWordIsHeeded` gives that word up.
* The board's order sync reads the order and later writes it without a look
  back (`dispatch.service.ts:663-758`). An order that became Delivered in
  between may be put back to Shipping (`spent.putBack`).
* A status update that fails inside `tryAdvanceOrderStatus` is logged and
  answered 2xx, so nothing brings the order forward (`spent.update`).
* The dispatch row takes the last event to arrive, a late "booked" over
  CANCELLED included; `LastWordIsHeeded` says that the word takes effect, not
  that it stays.
* A courier's cancel is read as a return when any dispatch of the order shows
  progress, a sibling's too; hence RETURN_PENDING in `LastWordIsHeeded`.
* Two verifications of one row that overlap grant its excess twice or not at
  all, since the status is read before the lock ("twice"). A row that is
  rejected and approved again is granted again ("reversed"), although the
  comment at `payments.service.ts:436-438` calls a re-grant on
  PAID -> FAILED -> PAID bounded to the uncovered excess: the marginal excess
  is computed from what is paid, never from what was granted. A refund or a
  correction leaves the credit granted for the same money ("refunded",
  "corrected"), and what is paid anew is granted anew. `GrantsMatchExcess`
  therefore promises two bounds: never less than the excess, in all these
  cases, and never more as long as nothing was taken off the order again.
  A rejected refund or correction restores its money without a grant
  ("restored"), and applied credit earns none ("credited").
* A refund with a target status moves the order in a transaction of its own
  afterwards, with no look at the balance (`refunds.service.ts:443-489`). With
  Cancelled it cancels an order of which only a part was paid back
  ("ungated" in `CancelledIsSettled`); staff may also keep the money of a
  dispatched order ("kept").
* Two refunds that overlap pay back too much ("overlap"); money that comes in
  between the reading of the balance and the cancellation stays ("late").
* Reserving compares nothing when it writes, so two orders placed at once may be
  promised the same goods, and the second hand-over takes the row below zero;
  transfers and counts ask for goods, not for free goods (`loose` in
  `ReservedGoodsAreThere`).
* Giving back handed-over goods also decrements `reservedQuantity` if it is
  large enough. The hand-over has consumed the order's own part, so this frees
  other orders' reservations. Staff's release of a row and a return of goods
  that were never handed over (partly good, partly damaged or missing) free
  reservations whose claims stay ACTIVE; and when such a return settles the
  claim, because its line is all damaged or the counter was too small, the
  reservation stays without one. `stray` counts both ways in
  `ReservationsCounted`; a row that lost some joins `loose`, since its goods
  look available to the next order.
* The consumption record is one per line and lot and keeps the cycle it was
  created in. A revived order that is costed at the same lot again adds to it,
  and its second cancellation, which looks for the new cycle's records, restores
  nothing there, although the restoration is called an exact inverse
  (`cancel-return-stock.service.ts:1651`). An item return restores one record of
  the line only. Both are exceptions of `CostsComeBack`, and in both the lot
  keeps less than the shelf; never more, says `LotsWithinReceipt`.
* A transfer that lacks lots marks its header PARTIAL and rethrows inside the
  same transaction, so the mark is rolled back with the rest.
* A target deferred to a validated status and revived is parked as SKIPPED
  again, since the frozen snapshot still says instant; a revival that read the
  outbox while a worker finished is lost. Neither breaks a checked property:
  the event is settled, and `SentMeansAccepted` speaks of targets that are due.
* A terminal outbox row may be re-queued by a worker that read it earlier, and
  one throw can lead to a repeated delivery. The replay's comment speaks of a
  nonce in the job id; the code re-queues the row with attempt 0, whose job id
  BullMQ may still keep, and the claim waits for the reconciler.

### Bounds

One product, because every service treats the products of an order one by one
and an order touches each counter on its own. One line per order for the same
reason; the second line would add a second pair of flags that moves in step.
Two orders, since interference between orders goes through the two counters
only and needs one other claimant. Two workers are the races of a pair of
handlers; symmetry reduces the workers, which are interchangeable. Quantity 1
suffices where returns are whole; `partial` uses lines of two units. Stock of 2
lets both orders succeed, and the shortage cases arise from the oversell that
the code allows. `MaxReturns` bounds the Return rows of an order: 1, or 2 where
the second return is the point. TTL 2 makes a lock that is fresh, about to
expire and expired; the heartbeat of the code comes at 25 s of 60, which is
weaker than what the model allows (any number of ticks may pass).

`courier`: two parcels, one per kind of courier (with and without a cancel API
and keys); interference between parcels goes through the order, the Return and
`resolveCancelledStatus` and needs one sibling. `MaxEvents` 3 is a
journey of one parcel to its end, or a part of one beside a part of the other; a
fault is a crash, a failed save or update or a repeated event; a call is a
cancellation, a return sync, a Return opened or closed, a status set on the
board, a row deleted. `BoardSets` has a status that hides a parcel and one that
moves the order back. `money`: total 2, amounts 3 and -1 give
excess, corrections, partial and full refunds; three rows are two payments and
a refund, or an overpayment, its credit spent on the other order, and one
more. `MaxCalls` counts only calls not given up. `physical`: orders of one and of two
units, so that a line spans two rows and two lots; the larger one has two
cycles, so that it is revived; three units in two lots leave nothing over, and
a receipt adds a third lot; one movement is a receipt between two consumers, or
a transfer, a count or a release by hand against one; two workers are the races of a pair, three
consumers of one lot differ from two only in who skips it. `tracking`: `MaxAttempts` 1
for the code's 5 and `JobAttempts` 2 for its 3 keep every kind of attempt
(first, last, beyond); one fault and one call; without faults, two calls were
checked as well.

### Fairness

`OrderEditLock`: assumed are weak fairness of `Tick` (time
passes), of `Serve` per session (a request is served or fails, its answer
arrives or fails), and of `HeartbeatSend` (`setInterval` fires while the page is
open). No fairness is assumed of users: nobody need open, close, override.
`CourierParcel` assumes weak fairness of `Proceed(p)`: a handler that runs goes
on, and a courier delivers what was not answered 2xx. Nothing is assumed of
parcels, staff or cancellations, which may stop anywhere.
`TrackingOutbox` assumes that the relay polls, each worker goes on, BullMQ
finds stalled jobs, time passes and the reconciler sweeps; not that anybody
replays, or that a revival is finished.
`OrderStock`, `OrderMoney` and `PhysicalStock` assume none: each handler may stop for ever,
which is a crash.

## Proofs

Every property of the passing runs is proved for all values of the constants,
the four that are liveness and `DeadOrderHoldsNothing` excepted: invariants, two
action properties and two refinements. The assumptions on constants are those the modules name
(`OrderStockAssumption` and so on), plus, where a theorem says so,
`WholeAndApart`, `Serial` or `JobIds = Nat`.

### Orders and managed stock

* `OrderStockProofs!TypeCorrect`: `Spec => []TypeOK` at every `Overlap`. The
  part that is not bookkeeping is that `onHand` and
  `reserved` stay in `Nat`: the guards evaluated under the product lock are
  enough by themselves. `TypeInv` strengthens `TypeOK` by what is known of a
  job in each phase.
* `OrderStockProofs!LineTakenOnce`: `Spec => []TakenOnce` assuming
  `WholeAndApart` (`Overlap # "full"` and no split returns). The inductive
  invariant is `LedgerInv`:
  the ledger of a line is exactly its quantity or nothing, as the flag says
  (`LedgerExact`); at most one transaction per order is open (`OneTxPerOrder`);
  an open transaction's snapshot of the flag is still true
  (`FreshSnapshot`), which is what a give-back or a deduction relies on; returns
  and the jobs that receive them are of whole lines (`WholeRows`, `WholeJob`).
  The runs `twice` and `partial` are the two assumptions taken away.
* `OrderStockProofs!OrderStockImplementsShelf`: the refinement, from the same
  invariant, one lemma per kind of step.
* `OrderClaimProofs!ReservationsAccounted`: `Spec => []NoPhantomReservation`
  assuming `WholeAndApart`. The counter is compared with a sum over the orders,
  of which each write changes one term. `ClaimInv` adds that a transaction's
  snapshot of the reserved flag is still true (`FreshClaim`) and that whoever
  is about to place a hold is the first (`HeldOnce`); both need that an order
  which is not created yet has nothing and one handler (`BornInv`).
* `OrderClaimProofs!LiveOrdersHold`: `Spec => []LiveOrderHoldsClaim` assuming
  `Serial` (`Overlap = "serial"`). While a handler runs, its order may pass
  through states that the property excludes, so `LiveInv` drops its `Quiet` and
  says of the handlers instead that there is one per order (`OneHandler`) and
  that what it decided at its gate is still right at every later step
  (`GatesHold`). `Serial` is needed: at `"gates"` a status change whose gate
  came before a cancellation puts the order back without verifying its stock.
* `OrderClaimProofs!OrdersDieEmpty`: `Spec => DiesWithNothing` assuming
  `Serial`, for orders with any entry points. A handler decides by what it read
  at its gate whether it releases, gives back or does neither, so the step that
  kills the order is clean only if that is still true at the commit: `DeathInv`
  says of every open job that what it decided and read still agrees with its
  order (`Settled`: status, trash mark, dispatch and flags, by kind of handler),
  and that only orders which exist are in the trash. Handlers of other orders
  move the shared counters in between, and a refused release must not leave
  the flag behind.

What `NoPhantomReservation` bounds is the counter by what lines have put there,
not by the claims of live orders. A refused release is swallowed
(`cancel-return-stock.service.ts:1452-1475`, "leaks a phantom hold" at :672), so
a hold may outlive its order: `Accounted` keeps counting it. And with orders of
different sizes a give-back of one may use up part of another's hold, which the
run `steal` shows; the sum stays below its bound and the promise to the other
order is broken.

### Physical stock

* `PhysicalStockProofs!NeverOverdrawn` and `TypeCorrect`: `Spec =>
  []NoLotOverdrawn` and `Spec => []TypeOK` for any orders, rows, lots and number
  of open transactions. The invariant says of the takings of open transactions
  that a lot covers each (`Backed`), that no two of them have taken of one lot
  (`Exclusive`: the lock), that a job never takes more than it still
  needs (`Takes`), and that a lot nobody has
  received is untouched (`Unborn`, which a receipt needs). With them the guard
  of the decrement, which sees only the job's own taking, is enough.
* `CountersAreClaims` and `ReservedIsOnHand`: `ReservationsCounted` and
  `ReservedGoodsAreThere`, from `Counted`, which ties each row's counter to the
  sum of the active claims and the goods on hand to what is promised of them.
  A hand-over subtracts what its job has taken and ends the claim; that both
  are the same amount is `Agreed`: a job works for an order that is at the
  stage it saw, and has taken what the claim holds there. What is reserved
  without a claim, or released without one, is in `stray`; the theorem says
  that nothing else sets counter and claims apart, not that they agree.
* `NeverOverRestored`: `LotsWithinReceipt`, from `Covered`: what a lot has left
  and what all lines owe to it are together no more than was received.
* `CostsReturn`: `CostsComeBack`, from `Dated`: a record keeps the cycle that
  made it, and which cycles may still owe depends on the order's stage; without
  this a revived order's old record could not be told from its new one.
* `PhysicalStockKeepsCostBooks`: the refinement of `CostBooks`, one lemma per
  kind of step. That a hand-over's commit is one charge of units the lots still
  have needs `Backed` and `Exclusive`: once it has taken of a lot, nobody else
  takes of that lot before it commits. That it charges no
  more than the line has needs `Agreed`. Give-backs are repayments because they
  are capped by what the record owes.

### Money

`OrderMoneyProofs` proves all four properties of the run `money` from one
invariant, `MoneyInv`: `CreditNeverOverspent` (`TypeOK`, with a balance that is
never negative), `ExcessEarnsOnce` (`GrantsMatchExcess`), `NeverOverRefunded`
(`RefundsWithinPaid`) and `CancelledKeepsNothing` (`CancelledIsSettled`).
`Books` relates what an order granted, what was paid on it, and the exceptions
noted of it. It is not inductive alone: a call acts on what it read
(`CallsKept`), and a verification that fails a row takes it out of the sum, so
that it matters why a row may be negative (`NegativeRows`). Each step changes one row,
hence one term of the sum of one order. `MoneyAssumption` says that there are
finitely many orders, since a sum over infinitely many means nothing.

### Parcels

* `CourierParcelProofs!NoParcelHidden`: `Spec => []CancelledHidesNoParcel` for
  any parcels, couriers, events and faults, and whatever staff set on the board.
  The invariant `ParcelsInv` says of
  each parcel: what was raised tells where it is (`Told`); a collection is in
  the courier's hands, lost with a dead handler's key or to a 404, or stamped on
  the row, unless staff deleted it (`Remembered`); a handler past its write has stamped the row (`Handled`); a
  booked parcel is CANCELLED only with its panel owed, and a plan that calls it
  pushed or failed is right for good (`Booking`). Without `Remembered` a late
  "cancelled" could not be told from one that hides a collected parcel.
* `DeliveredIsClaimed` and `TypeCorrect`: `DeliveredWasClaimed` and `TypeOK`.
  The former is an action property, of the steps of webhooks: staff may set
  Delivered too. `DeliveryInv` adds what a hook knows (`Speaks`): it is bound for Delivered
  only if its courier has delivered, and otherwise its remaining path avoids
  Delivered. The latter is a fact about `findTransitionPath`
  (`WaysAvoidDelivered`): no shortest path of at most five steps to another
  status passes through Delivered. The search is a recursive function over
  0..5, unfolded step by step (`WithinUnfolds`, `WayUnfolds`) by putting
  together a function that satisfies its definition.

### Tracking

* `TrackingOutboxProofs!SentIsAccepted`: `Spec => []SentMeansAccepted` for any
  number of workers, targets, attempts and faults. The outbox is settled by a
  worker that judges by what it remembers of its targets, so the invariant
  `SentInv` speaks of memory: what a row (`RowsExcused`) or a run
  (`RunsExcused`) calls SENT was taken, what either calls SKIPPED or a run left
  out was not due, refused or removed, or the event was too old, in which case
  no run may settle it as SENT. These excuses are never lost, which is why
  stale workers do no harm. Before the capture nothing exists (`Unborn`).
* `TwiceNeedsFault`: `Spec => []DuplicatesNeedFaults`. The invariant `Calm`
  speaks of the time before the first fault: every job alive is that of the
  attempt the outbox row is at, and a claim old enough to be released has none
  (`OneJob`); hence there is one run (`OneRun`); and what was taken is written
  down as SENT or in the hands of that run (`Once`).
* `TypeCorrect`: `Spec => []TypeOK` assuming `JobIds = Nat`. In the code every
  attempt count makes a job id; the run's smaller set is enough for its bounds,
  but a set with gaps would not be closed under counting.

### Edit lock

`OrderEditLockProofs!TypeCorrect`: `Spec => []TypeOK` for any tabs, users and
lifetime: whatever a late renewal, upsert or delete writes, a row has an owner
and at most a lifetime left. What is interesting about the lock is liveness.

### Sums

`SumTheorems` proves of `SumFunction` what the rest uses: that it is an integer,
how it changes with one term, that it is monotonic and additive, and zero on
zeros. The community modules define it by a recursive function on subsets; a
fact about all finite sets would be proved by induction, which takes an operator
as a parameter. `LeastCounterexample` replaces it: strict inclusion is well
founded on the finite sets, so a set of bad subsets that is not empty has a
smallest member.

### Only model-checked

* `DisplacedLearns`, `AbandonedLockEnds`, `Settles` and `LastWordIsHeeded` are
  liveness under fairness, which this prover does not treat.
* `DeadOrderHoldsNothing`: it holds of the instance of `serial`, where o1 is not
  cancelled by its customer and not trashed. No rule of the code keeps a shop to
  that, so a theorem would have to assume what is in doubt; `OrdersDieEmpty`
  proves the part that does not depend on it.

## Abstractions

Not in `OrderStock`: combos and variants (each component is a line of its own
with its own flags), physical stock and costing (the product is in
MANAGED_STOCK mode with inventory management off; `PhysicalStock` has the other
kind), payments (a cancel refused
for outstanding money is a gate not taken), the 60-second duplicate guard of
return creation (the next minute passes it), item editing, exchange legs,
several dispatches of one order at once (cancelled ones are followed by new
ones; `CourierParcel` has them side by side), and refusal by a courier (again a
gate not taken; `CourierParcel` has the couriers), and staff's release of a
line's reservation (`physical-inventory.controller.ts:417-460`), which strips a
live order of its claim on purpose. `BookCourier` happens
in the statuses of `Bookable`: the service accepts any, staff book packed
orders.

Not in `OrderEditLock`: the audit entries, reading the lock in order details,
and the write gate of `updateOrder`. A browser tab awaits one call at a time
and reopens the page only when its last call was answered.

In `CourierParcel`: one webhook per parcel at a time; the reads and the write
of `upsertDispatch` are one step, as are `OrdersService.updateStatus` (its own
races are `OrderStock`'s) and the linking and staging of a Return. Left out:
partial deliveries, exchange legs, events that are only recorded, RedX and
Carrybee, dispatch rows made by hand or in bulk and the consignments filled in
later, the trash, and the status poll of couriers with an API. Staff confirm a panel cancellation only after doing it, receive only
a parcel that is home, and a failed pickup is not attempted again. Staff move
the order to Packed, Shipping, Cancelled and back; of the ways they have to set
Delivered only the board is modelled, for any status `BoardSets` names.

In `OrderMoney`: applied credit and payments are one step, since they hold the
lock under which they read. Left out: VOID rows, legacy refunds, refund
statuses (a rejected refund keeps its negative row), target statuses
other than Cancelled (they move no money), source
rows of a refund (which can only refuse more), minimum first payments, guest
orders, and whatever writes `paymentStatus` outside these services.

In `PhysicalStock`: the gate and the plan are read in one step; the commit of a
hand-over writes the order's status; the row the gate looks at is any row of
the warehouse. That the transactions of one order exclude each other (`Quiet`)
is an assumption no lock enforces: a cancellation locks the Order row, a
hand-over the Dispatch row, and both may have read the claim ACTIVE.
`LotsWithinReceipt`, `CostsComeBack`, `ReservationsCounted`,
`ReservedGoodsAreThere` and `CostPromise` rest on it; `NoLotOverdrawn` does not.
A return of handed-over goods ends the order; a second one finds the claim settled and moves
nothing physical. A return of goods never handed over may be repeated while the
claim is ACTIVE. A give-back is one step, since it only adds and the rows it
writes must be free. Left out: combo components, MANAGED_STOCK products that
mirror to rows, the RETURN_HOLD of a pending return, positive counts, the
destination of a transfer, RTN, ledgers and unit costs.

In `TrackingOutbox`: backoff is any delay; a dispatch row is read and written
in one step, all targets of a run are taken on together; a send lasts less than
the ten minutes of the reconciler; job ids are forgotten only when a claim is
made; there is one relay. Left out: the archive, the dead-letter mirror, audit
events, adapters, page views.

### Not modelled

User interfaces (apart from the edit-lock guard), licensing, reports, feeds,
backups and imports keep no state that races with orders. Purchase orders,
suppliers and stock reconciliation only read what is modelled, or go through
the receipt and the count. Packing, scanner and
POS reach the stock through the services modelled here. Generated code and the
product taxonomy have no behaviour. These are most of the lines of the
repository.

## Plan

1. Proofs: which takings of one order a release of another can use up, when
   sizes differ.
2. Save and write gate in `OrderEditLock`.
3. Partial deliveries and exchange legs in `CourierParcel`; RTN.
4. Combo components and the RETURN_HOLD of a pending return in `PhysicalStock`.
