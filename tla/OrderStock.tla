----------------------------- MODULE OrderStock -----------------------------
(***************************************************************************)
(* The managed-stock claim of an order, from checkout to return, under the *)
(* concurrency the backend really has.                                     *)
(*                                                                         *)
(* One product in MANAGED_STOCK mode; every order has one line for it.     *)
(* The product row carries two counters, managedStockQuantity (onHand) and *)
(* reservedStock (reserved); the line carries two flags,                   *)
(* managedStockReserved (resF) and managedStockDeducted (dedF).  Every     *)
(* handler that moves an order moves counters and flags together, inside a *)
(* PostgreSQL READ COMMITTED transaction, after checks made outside it:    *)
(*                                                                         *)
(*   gate    the reads and refusals before $transaction;                   *)
(*   begin   the first row write of the transaction, which takes that      *)
(*           row's lock (Order, Dispatch or Return), and the reads of the  *)
(*           line's flags, made after it;                                  *)
(*   commit  lockRows takes the Product row FOR UPDATE, the counters are   *)
(*           checked and written, and everything commits; the product lock *)
(*           lives to the end of this one step.                            *)
(*                                                                         *)
(* Any in-flight handler may also be rolled back (Abort): a check of its   *)
(* commit step fails, a deadlock victim, a crash of the process.           *)
(***************************************************************************)
EXTENDS Integers, Sequences, FiniteSets, Functions, OrderTransitions
LOCAL INSTANCE FiniteSetsExt

CONSTANTS
  Orders,          \* the orders
  Workers,         \* concurrent requests the backend serves
  Qty,             \* Qty[o]: the quantity of o's line
  InitialOnHand,   \* the product's managedStockQuantity at the start
  EntryPoints,     \* EntryPoints[o]: the entry points used on o
  StatusTargets,   \* StatusTargets[o]: the statuses actors ask for on o
  BoardTargets,    \* the dispatch statuses actors ask for
  Bookable,        \* order statuses in which a courier is booked
  MaxReturns,      \* bound on the Return rows of one order
  SplitReturns,    \* returns may cover part of a line, or arrive damaged
  Overlap          \* which handlers of ONE order may overlap, see MayEnter

AllEntryPoints ==
  {"create", "staff", "courier", "customer", "trash", "board", "return"}

ASSUME OrderStockAssumption ==
  /\ IsFiniteSet(Orders)
  /\ Qty \in [Orders -> Nat \ {0}]
  /\ InitialOnHand \in Nat
  /\ EntryPoints \in [Orders -> SUBSET AllEntryPoints]
  /\ StatusTargets \in [Orders -> SUBSET OrderStatuses]
  /\ BoardTargets \subseteq DispatchStatuses
  /\ Bookable \subseteq OrderStatuses
  /\ MaxReturns \in Nat
  /\ SplitReturns \in BOOLEAN
  /\ Overlap \in {"serial", "gates", "full"}

VARIABLES
  onHand,    \* Product.managedStockQuantity
  reserved,  \* Product.reservedStock
  resF,      \* resF[o]: OrderItem.managedStockReserved
  dedF,      \* dedF[o]: OrderItem.managedStockDeducted
  taken,     \* taken[o]: net OUT of o's ledger rows (deduction less give-backs)
  heldRow,   \* heldRow[o]: a RETURN_HOLD ledger row refers to o
  status,    \* status[o]: the order's status, "None" before it exists
  trashed,   \* trashed[o]: trashedAt is set
  dispatch,  \* dispatch[o]: status of the order's latest dispatch, or "None"
  left,      \* left[o]: handedOverAt, pickedUpAt or deliveredAt is stamped on it
  rets,      \* rets[o]: the Return rows of o, oldest first
  job        \* job[w]: the handler worker w is running

stockVars == <<onHand, reserved, resF, dedF, taken>>
orderVars == <<status, trashed>>
parcelVars == <<dispatch, left>>
vars == <<stockVars, heldRow, orderVars, parcelVars, rets, job>>

-----------------------------------------------------------------------------
(* In-flight handlers                                                      *)

Kinds == {"create", "status", "customer", "trash", "restore", "board", "sync",
          "hold", "newReturn", "receive", "mirror"}
Phases == {"read", "gate", "hold", "apply", "tx"}

Jobs ==
  [kind  : Kinds,
   pc    : Phases,
   o     : Orders,
   to    : OrderStatuses \cup DispatchStatuses \cup {"FULL", "None"},
   from  : DispatchStatuses \cup {"None"},
   extra : BOOLEAN,      \* a decision of the gate, named where it is made
   ded   : BOOLEAN,      \* the line's flags as the transaction read them
   res   : BOOLEAN,
   row   : Nat,          \* which Return row, for receive
   n     : Nat]          \* the quantity asked for, for newReturn and receive

NoJob == [pc |-> "idle"]

NewJob(kind, o, to, from, extra) ==
  [kind |-> kind, pc |-> "gate", o |-> o, to |-> to, from |-> from,
   extra |-> extra, ded |-> FALSE, res |-> FALSE, row |-> 0, n |-> 0]

ReturnRows ==
  [type : {"FULL", "PARTIAL"}, qty : Nat, good : Nat,
   st : {"REQUESTED", "RESTOCKED", "CLOSED"}, rec : BOOLEAN]

Available == onHand - reserved

Idle(w) == job[w] = NoJob
Running(w, kind, pc) == job[w] # NoJob /\ job[w].kind = kind /\ job[w].pc = pc
InTx(w) == job[w] # NoJob /\ job[w].pc \in {"hold", "apply", "tx"}
BusyOn(w, o) == job[w] # NoJob /\ job[w].o = o

(* The row whose lock the transaction of a job takes with its first write; *)
(* the other kinds write no row they keep locked.                          *)
OrderRowKinds == {"status", "customer", "trash", "restore", "sync"}

SameRow(j, k) ==
  /\ j.o = k.o
  /\ \/ j.kind \in OrderRowKinds /\ k.kind \in OrderRowKinds
     \/ j.kind = "board" /\ k.kind = "board"
     \/ j.kind = "receive" /\ k.kind = "receive" /\ j.row = k.row

(* A transaction waits for its row.  "gates" and "serial" are environment  *)
(* assumptions on top of that: at "gates" two transactions of one order do *)
(* not overlap even when they lock different rows (their gates still do);  *)
(* at "serial" a second handler of the same order is not even started.     *)
MayEnter(w) ==
  \A v \in Workers \ {w} :
    InTx(v) => /\ ~SameRow(job[v], job[w])
               /\ Overlap # "full" => job[v].o # job[w].o

MayStart(w, o) ==
  /\ job[w] = NoJob
  /\ Overlap = "serial" => \A v \in Workers : ~BusyOn(v, o)

OrderRowFree(o) ==
  \A v \in Workers : InTx(v) /\ job[v].o = o => job[v].kind \notin OrderRowKinds

DispatchRowFree(o) ==
  \A v \in Workers : InTx(v) /\ job[v].o = o => job[v].kind # "board"

Start(w, j) == job' = [job EXCEPT ![w] = j]
Finish(w) == job' = [job EXCEPT ![w] = NoJob]

-----------------------------------------------------------------------------
(* What the stock services do to the product row and the line, given the   *)
(* flags the transaction read.  A guard that fails is an exception: the    *)
(* step is then not possible and Abort rolls the handler back.             *)

(* resolveAndApplyStock('reserve'): the counter is raised without a look   *)
(* at what is available; a line already reserved is skipped by the caller. *)
ClaimLine(o, res) ==
  /\ IF res
     THEN UNCHANGED <<reserved, resF>>
     ELSE /\ reserved' = reserved + Qty[o]
          /\ resF' = [resF EXCEPT ![o] = TRUE]
  /\ UNCHANGED <<onHand, dedF, taken>>

(* Mutant of TakeLine: the skip of a line already deducted is dropped.     *)
TakeLineAgain(o, ded) ==
  /\ onHand >= Qty[o]
  /\ reserved >= Qty[o]
  /\ onHand' = onHand - Qty[o]
  /\ reserved' = reserved - Qty[o]
  /\ dedF' = [dedF EXCEPT ![o] = TRUE]
  /\ taken' = [taken EXCEPT ![o] = @ + Qty[o]]
  /\ UNCHANGED resF

(* Mutant of TakeLine: only the shelf is checked, not the reservation.     *)
TakeLineUnclaimed(o, ded) ==
  IF ded
  THEN UNCHANGED stockVars
  ELSE /\ onHand >= Qty[o]
       /\ onHand' = onHand - Qty[o]
       /\ reserved' = reserved - Qty[o]
       /\ dedF' = [dedF EXCEPT ![o] = TRUE]
       /\ taken' = [taken EXCEPT ![o] = @ + Qty[o]]
       /\ UNCHANGED resF

(* deductForOrder: onHand and reserved both drop; resF stays as it is.     *)
TakeLine(o, ded) ==
  IF ded
  THEN UNCHANGED stockVars
  ELSE /\ onHand >= Qty[o]
       /\ reserved >= Qty[o]
       /\ onHand' = onHand - Qty[o]
       /\ reserved' = reserved - Qty[o]
       /\ dedF' = [dedF EXCEPT ![o] = TRUE]
       /\ taken' = [taken EXCEPT ![o] = @ + Qty[o]]
       /\ UNCHANGED resF

(* releaseHeldReservation: a refusal by the counter's guard is swallowed.  *)
ReleaseIfHeld(n) == reserved' = IF reserved >= n THEN reserved - n ELSE reserved

ReleaseClaim(n) == reserved >= n /\ reserved' = reserved - n

(* Mutant of GiveBack: the reservation is released but its flag stays set. *)
GiveBackKeepsFlag(o, ded, res) ==
  CASE ded ->
         /\ onHand' = onHand + Qty[o]
         /\ taken' = [taken EXCEPT ![o] = @ - Qty[o]]
         /\ ReleaseIfHeld(Qty[o])
         /\ dedF' = [dedF EXCEPT ![o] = FALSE]
         /\ resF' = [resF EXCEPT ![o] = FALSE]
    [] ~ded /\ res -> ReleaseClaim(Qty[o]) /\ UNCHANGED <<onHand, resF, dedF, taken>>
    [] OTHER -> UNCHANGED stockVars

(* restoreStandaloneItem, under releaseForCancellation.                    *)
GiveBack(o, ded, res) ==
  CASE ded ->
         /\ onHand' = onHand + Qty[o]
         /\ taken' = [taken EXCEPT ![o] = @ - Qty[o]]
         /\ ReleaseIfHeld(Qty[o])
         /\ dedF' = [dedF EXCEPT ![o] = FALSE]
         /\ resF' = [resF EXCEPT ![o] = FALSE]
    [] ~ded /\ res ->
         /\ ReleaseClaim(Qty[o])
         /\ resF' = [resF EXCEPT ![o] = FALSE]
         /\ UNCHANGED <<onHand, dedF, taken>>
    [] OTHER -> UNCHANGED stockVars

(* restoreReturnClaim for n good units, disarmClaim when none is good: the *)
(* flags of the WHOLE line are cleared, whatever part of it came back.     *)
ReturnBack(o, ded, res, n) ==
  /\ dedF' = [dedF EXCEPT ![o] = FALSE]
  /\ resF' = [resF EXCEPT ![o] = FALSE]
  /\ CASE n > 0 /\ ded ->
            /\ onHand' = onHand + n
            /\ taken' = [taken EXCEPT ![o] = @ - n]
            /\ ReleaseIfHeld(n)
       [] n > 0 /\ ~ded /\ res -> ReleaseClaim(n) /\ UNCHANGED <<onHand, taken>>
       [] OTHER -> UNCHANGED <<onHand, reserved, taken>>

-----------------------------------------------------------------------------
(* OrdersService.create                                                    *)

CreateGate(w, o) ==
  /\ "create" \in EntryPoints[o]
  /\ MayStart(w, o)
  /\ status[o] = "None"
  /\ \A v \in Workers : ~BusyOn(v, o)      \* the id is minted by this request
  /\ Available >= Qty[o]
  /\ Start(w, NewJob("create", o, "Pending", "None", FALSE))
  /\ UNCHANGED <<stockVars, heldRow, orderVars, parcelVars, rets>>

CreateCommit(w) ==
  /\ Running(w, "create", "gate")
  /\ status' = [status EXCEPT ![job[w].o] = "Pending"]
  /\ ClaimLine(job[w].o, FALSE)
  /\ Finish(w)
  /\ UNCHANGED <<heldRow, trashed, parcelVars, rets>>

-----------------------------------------------------------------------------
(* OrdersService.updateStatus, by staff or by an automated actor           *)

HasOpenReturn(o) == \E i \in DOMAIN rets[o] : rets[o][i].st # "CLOSED"
HasDispatch(o) == dispatch[o] \notin {"None", "CANCELLED"}
CancelEligible(o) == HasDispatch(o) => dispatch[o] \in PrePickup /\ ~left[o]

(* extra: a dispatch must be cancelled along with the order (dispatchPlan),*)
(* or the transition is one that runs verifyStockForOrder.                 *)
StatusGate(w, o, to, automated) ==
  /\ (IF automated THEN "courier" ELSE "staff") \in EntryPoints[o]
  /\ MayStart(w, o)
  /\ status[o] # "None" /\ ~trashed[o]
  /\ to \in OrderNext[status[o]]
  /\ automated =>
       /\ status[o] # "Partial"
       /\ ~(to = "Cancelled" /\ status[o] = "Shipping")
       /\ to # "Returned"
       /\ to = "Delivered" => ~HasOpenReturn(o)
  /\ to = "Cancelled" => CancelEligible(o)
  /\ LET plan == to = "Cancelled" /\ HasDispatch(o)
         verify == to = "Confirmed" \/ (to = "Hold" /\ status[o] \in {"Cancelled", "Confirmed"})
     IN  Start(w, NewJob("status", o, to, "None", plan \/ verify))
  /\ UNCHANGED <<stockVars, heldRow, orderVars, parcelVars, rets>>

(* Mutant of Verifies: an order revived into Hold claims nothing.          *)
VerifiesConfirmOnly(j) ==
  j.extra /\ (j.kind = "restore" \/ (j.kind = "status" /\ j.to = "Confirmed"))

Verifies(j) ==
  j.extra /\ (j.kind = "restore" \/ (j.kind = "status" /\ j.to \in {"Confirmed", "Hold"}))

MarksReturned(j) == j.kind = "status" /\ j.to = "Returned"
HoldsStock(j) == j.kind = "status" /\ j.to = "Return Pending"

(* handleReturnedSideEffects: every open return must have arrived; one is  *)
(* created and received on the spot when the order never had one.          *)
AllArrived(o) ==
  \A i \in DOMAIN rets[o] : rets[o][i].st # "CLOSED" => rets[o][i].st = "RESTOCKED"
CreatesReturn(o) ==
  \A i \in DOMAIN rets[o] : rets[o][i].st = "CLOSED" /\ ~rets[o][i].rec

(* The transaction of every handler that starts by writing the Order row.  *)
(* verifyStockForOrder's availability is read outside the product lock.    *)
OrderBegin(w) ==
  LET j == job[w] IN
  /\ \E k \in OrderRowKinds : Running(w, k, "gate")
  /\ MayEnter(w)
  /\ Verifies(j) /\ ~resF[j.o] => Available >= Qty[j.o]
  /\ MarksReturned(j) => /\ AllArrived(j.o)
                         /\ CreatesReturn(j.o) => Len(rets[j.o]) < MaxReturns
  /\ Start(w, [j EXCEPT !.pc = IF HoldsStock(j) THEN "hold" ELSE "tx",
                        !.ded = dedF[j.o],
                        !.res = resF[j.o],
                        !.extra = IF MarksReturned(j) THEN CreatesReturn(j.o) ELSE @])
  /\ UNCHANGED <<stockVars, heldRow, orderVars, parcelVars, rets>>

StatusCommit(w) ==
  LET j == job[w]
      cancelsDispatch == j.to = "Cancelled" /\ j.extra
  IN
  /\ Running(w, "status", "tx")
  /\ cancelsDispatch => DispatchRowFree(j.o)
  /\ status' = [status EXCEPT ![j.o] = j.to]
  /\ CASE Verifies(j)                  -> ClaimLine(j.o, j.res)
       [] j.to = "Cancelled"           -> GiveBack(j.o, j.ded, j.res)
       [] j.to = "Delivered"           -> TakeLine(j.o, j.ded)
       [] MarksReturned(j) /\ j.extra  -> ReturnBack(j.o, j.ded, j.res, Qty[j.o])
       [] OTHER                        -> UNCHANGED stockVars
  /\ dispatch' = IF cancelsDispatch THEN [dispatch EXCEPT ![j.o] = "CANCELLED"] ELSE dispatch
  /\ rets' = IF MarksReturned(j) /\ j.extra
             THEN [rets EXCEPT ![j.o] =
                     Append(@, [type |-> "FULL", qty |-> Qty[j.o], good |-> Qty[j.o],
                                st |-> "RESTOCKED", rec |-> TRUE])]
             ELSE rets
  /\ Finish(w)
  /\ UNCHANGED <<heldRow, trashed, left>>

-----------------------------------------------------------------------------
(* holdReservationForReturnPending.  It runs on its own connection: inside *)
(* updateStatus it commits before the status does, and after a dispatch    *)
(* sync it runs once everything else has committed.                        *)

InHold(w) == job[w] # NoJob /\ job[w].pc = "hold"

AfterHold(w) ==
  IF job[w].kind = "hold" THEN Finish(w) ELSE Start(w, [job[w] EXCEPT !.pc = "tx"])

(* Mutant of HoldNeeded: the look for an earlier RETURN_HOLD row is dropped.*)
HoldNeededAgain(o) == dedF[o] /\ resF[o]

HoldNeeded(o) == ~heldRow[o] /\ dedF[o] /\ resF[o]

HoldGate(w) ==
  /\ InHold(w)
  /\ job[w].kind = "hold" => MayEnter(w)
  /\ IF HoldNeeded(job[w].o)
     THEN Start(w, [job[w] EXCEPT !.pc = "apply"])
     ELSE AfterHold(w)
  /\ UNCHANGED <<stockVars, heldRow, orderVars, parcelVars, rets>>

HoldApply(w) ==
  /\ job[w] # NoJob /\ job[w].pc = "apply"
  /\ reserved' = reserved + Qty[job[w].o]
  /\ heldRow' = [heldRow EXCEPT ![job[w].o] = TRUE]
  /\ AfterHold(w)
  /\ UNCHANGED <<onHand, resF, dedF, taken, orderVars, parcelVars, rets>>

(* holdManaged logs an error of its reserve and goes on without the hold.  *)
HoldFails(w) ==
  /\ job[w] # NoJob /\ job[w].pc = "apply"
  /\ AfterHold(w)
  /\ UNCHANGED <<stockVars, heldRow, orderVars, parcelVars, rets>>

-----------------------------------------------------------------------------
(* OrdersService.cancelByCustomer: no dispatch is looked at.               *)

CustomerCancelGate(w, o) ==
  /\ "customer" \in EntryPoints[o]
  /\ MayStart(w, o)
  /\ status[o] # "None" /\ ~trashed[o]
  /\ "Cancelled" \in OrderNext[status[o]]
  /\ Start(w, NewJob("customer", o, "Cancelled", "None", FALSE))
  /\ UNCHANGED <<stockVars, heldRow, orderVars, parcelVars, rets>>

CustomerCancelCommit(w) ==
  LET j == job[w] IN
  /\ Running(w, "customer", "tx")
  /\ status' = [status EXCEPT ![j.o] = "Cancelled"]
  /\ GiveBack(j.o, j.ded, j.res)
  /\ Finish(w)
  /\ UNCHANGED <<heldRow, trashed, parcelVars, rets>>

(* OrdersService.trash.  extra: the goods are still here, so release them. *)
TrashGate(w, o) ==
  /\ "trash" \in EntryPoints[o]
  /\ MayStart(w, o)
  /\ status[o] # "None" /\ ~trashed[o]
  /\ Start(w, NewJob("trash", o, "None", "None", status[o] \notin GoodsAlreadyLeft))
  /\ UNCHANGED <<stockVars, heldRow, orderVars, parcelVars, rets>>

TrashCommit(w) ==
  LET j == job[w] IN
  /\ Running(w, "trash", "tx")
  /\ trashed' = [trashed EXCEPT ![j.o] = TRUE]
  /\ IF j.extra THEN GiveBack(j.o, j.ded, j.res) ELSE UNCHANGED stockVars
  /\ Finish(w)
  /\ UNCHANGED <<heldRow, status, parcelVars, rets>>

(* Mutant of RestoreGate: a cancelled order is re-reserved as well.        *)
RestoreGateReclaims(w, o) ==
  /\ "trash" \in EntryPoints[o]
  /\ MayStart(w, o)
  /\ status[o] # "None" /\ trashed[o]
  /\ Start(w, NewJob("restore", o, "None", "None", status[o] \notin GoodsAlreadyLeft))
  /\ UNCHANGED <<stockVars, heldRow, orderVars, parcelVars, rets>>

(* OrdersService.restore.  extra: mustReReserve.                           *)
RestoreGate(w, o) ==
  /\ "trash" \in EntryPoints[o]
  /\ MayStart(w, o)
  /\ status[o] # "None" /\ trashed[o]
  /\ Start(w, NewJob("restore", o, "None", "None",
                     status[o] \notin GoodsAlreadyLeft \cup {"Cancelled"}))
  /\ UNCHANGED <<stockVars, heldRow, orderVars, parcelVars, rets>>

RestoreCommit(w) ==
  LET j == job[w] IN
  /\ Running(w, "restore", "tx")
  /\ trashed' = [trashed EXCEPT ![j.o] = FALSE]
  /\ IF j.extra THEN ClaimLine(j.o, j.res) ELSE UNCHANGED stockVars
  /\ Finish(w)
  /\ UNCHANGED <<heldRow, status, parcelVars, rets>>

-----------------------------------------------------------------------------
(* DispatchService: create, updateStatus and its syncOrderStatus           *)

(* The service itself accepts any order; Bookable is where staff book.     *)
BookCourier(o) ==
  /\ "board" \in EntryPoints[o]
  /\ Overlap = "serial" => \A v \in Workers : ~BusyOn(v, o)
  /\ status[o] \in Bookable /\ ~trashed[o]
  /\ ~HasDispatch(o)
  /\ dispatch' = [dispatch EXCEPT ![o] = "DISPATCHED"]
  /\ left' = [left EXCEPT ![o] = FALSE]
  /\ UNCHANGED <<stockVars, heldRow, orderVars, rets, job>>

(* extra: the actor is automated.                                          *)
BoardGate(w, o, to, automated) ==
  /\ "board" \in EntryPoints[o]
  /\ automated => "courier" \in EntryPoints[o]
  /\ MayStart(w, o)
  /\ dispatch[o] # "None"
  /\ to \in DispatchNext[dispatch[o]]
  /\ Start(w, NewJob("board", o, to, dispatch[o], automated))
  /\ UNCHANGED <<stockVars, heldRow, orderVars, parcelVars, rets>>

(* The status is claimed with updateMany on the status the gate read; when *)
(* that claims no row the handler returns and nothing else happens.        *)
BoardBegin(w) ==
  LET j == job[w] IN
  /\ Running(w, "board", "gate")
  /\ MayEnter(w)
  /\ IF dispatch[j.o] = j.from
     THEN Start(w, [j EXCEPT !.pc = "tx", !.ded = dedF[j.o]])
     ELSE Finish(w)
  /\ UNCHANGED <<stockVars, heldRow, orderVars, parcelVars, rets>>

BoardCommit(w) ==
  LET j == job[w] IN
  /\ Running(w, "board", "tx")
  /\ dispatch' = [dispatch EXCEPT ![j.o] = j.to]
  /\ left' = [left EXCEPT ![j.o] = @ \/ j.to \in StampsPossession]
  /\ IF j.to \in {"HANDED_OVER", "IN_TRANSIT"}
     THEN TakeLine(j.o, j.ded)
     ELSE UNCHANGED stockVars
  /\ IF SyncTarget[j.to] = "None"
     THEN Finish(w)
     ELSE Start(w, [NewJob("sync", j.o, SyncTarget[j.to], "None", j.extra) EXCEPT !.pc = "read"])
  /\ UNCHANGED <<heldRow, orderVars, rets>>

SyncRefused(j) ==
  \/ trashed[j.o]
  \/ ~SyncAdvances(status[j.o], j.to)
  \/ j.extra /\ \/ status[j.o] = "Partial"
                \/ j.to = "Delivered" /\ HasOpenReturn(j.o)

SyncGate(w) ==
  LET j == job[w] IN
  /\ Running(w, "sync", "read")
  /\ IF SyncRefused(j) THEN Finish(w) ELSE Start(w, [j EXCEPT !.pc = "gate"])
  /\ UNCHANGED <<stockVars, heldRow, orderVars, parcelVars, rets>>

SyncCommit(w) ==
  LET j == job[w] IN
  /\ Running(w, "sync", "tx")
  /\ status' = [status EXCEPT ![j.o] = j.to]
  /\ IF j.to = "Cancelled" THEN GiveBack(j.o, j.ded, j.res) ELSE UNCHANGED stockVars
  /\ IF j.to = "Return Pending"
     THEN Start(w, [NewJob("hold", j.o, "None", "None", FALSE) EXCEPT !.pc = "hold"])
     ELSE Finish(w)
  /\ UNCHANGED <<heldRow, trashed, parcelVars, rets>>

-----------------------------------------------------------------------------
(* ReturnsService: create, markReceived, close                             *)

SumOver(S, f(_)) == MapThenSumSet(f, S)

ActiveQty(o) ==
  SumOver({i \in DOMAIN rets[o] : rets[o][i].st # "CLOSED"}, LAMBDA i : rets[o][i].qty)

(* createInner with assertReturnEligible; its reads and its writes are not *)
(* under a common lock.  extra: markOriginalDelivered, a partial return of *)
(* part of the line sets the order Delivered.                              *)
NewReturnGate(w, o, type, n, markDelivered) ==
  /\ "return" \in EntryPoints[o]
  /\ MayStart(w, o)
  /\ status[o] \in ReturnEligible /\ ~trashed[o]
  /\ type = "FULL" => ~HasOpenReturn(o) /\ n = Qty[o]
  /\ type = "PARTIAL" =>
       /\ \A i \in DOMAIN rets[o] : rets[o][i].st # "CLOSED" => rets[o][i].type # "FULL"
       /\ n <= Qty[o] - ActiveQty(o)
  /\ markDelivered => type = "PARTIAL" /\ n < Qty[o]
  /\ n < Qty[o] => SplitReturns
  /\ Start(w, [NewJob("newReturn", o, type, "None", markDelivered) EXCEPT !.n = n])
  /\ UNCHANGED <<stockVars, heldRow, orderVars, parcelVars, rets>>

NewReturnCommit(w) ==
  LET j == job[w] IN
  /\ Running(w, "newReturn", "gate")
  /\ Len(rets[j.o]) < MaxReturns
  /\ rets' = [rets EXCEPT ![j.o] =
                Append(@, [type |-> j.to, qty |-> j.n, good |-> 0,
                           st |-> "REQUESTED", rec |-> FALSE])]
  /\ IF j.extra
     THEN OrderRowFree(j.o) /\ status' = [status EXCEPT ![j.o] = "Delivered"]
     ELSE UNCHANGED status
  /\ Finish(w)
  /\ UNCHANGED <<stockVars, heldRow, trashed, parcelVars>>

(* restoreStockForReturnTx.  Its own read of the row, the last before it   *)
(* locks it, is the gate: a CLOSED row is refused; a reconciled one moves  *)
(* no stock, but the dispatch still follows.  n: the good units, the rest  *)
(* arrived damaged.                                                        *)
ReceiveGate(w, o, i, n) ==
  /\ "return" \in EntryPoints[o]
  /\ MayStart(w, o)
  /\ i \in DOMAIN rets[o]
  /\ rets[o][i].st # "CLOSED"
  /\ n <= rets[o][i].qty
  /\ n < rets[o][i].qty => SplitReturns
  /\ Start(w, IF rets[o][i].rec
              THEN NewJob("mirror", o, rets[o][i].type, "None", FALSE)
              ELSE [NewJob("receive", o, rets[o][i].type, "None", FALSE)
                      EXCEPT !.row = i, !.n = n])
  /\ UNCHANGED <<stockVars, heldRow, orderVars, parcelVars, rets>>

ReceiveBegin(w) ==
  LET j == job[w] IN
  /\ Running(w, "receive", "gate")
  /\ MayEnter(w)
  /\ Start(w, [j EXCEPT !.pc = "tx", !.ded = dedF[j.o], !.res = resF[j.o]])
  /\ UNCHANGED <<stockVars, heldRow, orderVars, parcelVars, rets>>

ReceiveCommit(w) ==
  LET j == job[w] IN
  /\ Running(w, "receive", "tx")
  /\ ReturnBack(j.o, j.ded, j.res, j.n)
  /\ rets' = [rets EXCEPT ![j.o][j.row] =
                [@ EXCEPT !.st = "RESTOCKED", !.rec = TRUE, !.good = j.n]]
  /\ Start(w, NewJob("mirror", j.o, j.to, "None", FALSE))
  /\ UNCHANGED <<heldRow, orderVars, parcelVars>>

(* markReceived, after the transaction: every dispatch row of the order    *)
(* takes the return's status, whatever status it had.                      *)
MirrorDispatch(w) ==
  LET j == job[w] IN
  /\ Running(w, "mirror", "gate")
  /\ DispatchRowFree(j.o)
  /\ dispatch' = IF dispatch[j.o] = "None" THEN dispatch
                 ELSE [dispatch EXCEPT ![j.o] = IF j.to = "FULL" THEN "RETURNED" ELSE "PARTIAL"]
  /\ Finish(w)
  /\ UNCHANGED <<stockVars, heldRow, orderVars, left, rets>>

CloseReturn(o, i) ==
  /\ "return" \in EntryPoints[o]
  /\ Overlap = "serial" => \A v \in Workers : ~BusyOn(v, o)
  /\ i \in DOMAIN rets[o]
  /\ rets[o][i].st # "CLOSED"
  /\ \A v \in Workers : ~(InTx(v) /\ job[v].o = o /\ job[v].kind = "receive" /\ job[v].row = i)
  /\ rets' = [rets EXCEPT ![o][i].st = "CLOSED"]
  /\ UNCHANGED <<stockVars, heldRow, orderVars, parcelVars, job>>

-----------------------------------------------------------------------------
(* A handler dies: a check inside its transaction throws, the database     *)
(* picks it as a deadlock victim, or the process goes down.  The open      *)
(* transaction leaves no trace; what committed before stays.               *)
Abort(w) ==
  /\ job[w] # NoJob
  /\ Finish(w)
  /\ UNCHANGED <<stockVars, heldRow, orderVars, parcelVars, rets>>

Init ==
  /\ onHand = InitialOnHand
  /\ reserved = 0
  /\ resF = [o \in Orders |-> FALSE]
  /\ dedF = [o \in Orders |-> FALSE]
  /\ taken = [o \in Orders |-> 0]
  /\ heldRow = [o \in Orders |-> FALSE]
  /\ status = [o \in Orders |-> "None"]
  /\ trashed = [o \in Orders |-> FALSE]
  /\ dispatch = [o \in Orders |-> "None"]
  /\ left = [o \in Orders |-> FALSE]
  /\ rets = [o \in Orders |-> <<>>]
  /\ job = [w \in Workers |-> NoJob]

StartHandler(w, o) ==
  \/ CreateGate(w, o)
  \/ \E to \in StatusTargets[o], automated \in BOOLEAN : StatusGate(w, o, to, automated)
  \/ CustomerCancelGate(w, o)
  \/ TrashGate(w, o)
  \/ RestoreGate(w, o)
  \/ \E to \in BoardTargets, automated \in BOOLEAN : BoardGate(w, o, to, automated)
  \/ \E type \in {"FULL", "PARTIAL"}, n \in 1..Qty[o], mark \in BOOLEAN :
       NewReturnGate(w, o, type, n, mark)
  \/ \E i \in 1..MaxReturns, n \in 0..Qty[o] : ReceiveGate(w, o, i, n)

Advance(w) ==
  \/ CreateCommit(w)
  \/ OrderBegin(w)
  \/ HoldGate(w)
  \/ HoldApply(w)
  \/ HoldFails(w)
  \/ StatusCommit(w)
  \/ CustomerCancelCommit(w)
  \/ TrashCommit(w)
  \/ RestoreCommit(w)
  \/ BoardBegin(w)
  \/ BoardCommit(w)
  \/ SyncGate(w)
  \/ SyncCommit(w)
  \/ NewReturnCommit(w)
  \/ ReceiveBegin(w)
  \/ ReceiveCommit(w)
  \/ MirrorDispatch(w)
  \/ Abort(w)

Next ==
  \/ \E w \in Workers : Advance(w) \/ \E o \in Orders : StartHandler(w, o)
  \/ \E o \in Orders : BookCourier(o) \/ \E i \in 1..MaxReturns : CloseReturn(o, i)

Spec == Init /\ [][Next]_vars

-----------------------------------------------------------------------------
(* Properties                                                              *)

(* Every variable has its type; in particular neither counter of the       *)
(* product row is ever negative.                                           *)
TypeOK ==
  /\ onHand \in Nat
  /\ reserved \in Nat
  /\ resF \in [Orders -> BOOLEAN]
  /\ dedF \in [Orders -> BOOLEAN]
  /\ taken \in [Orders -> Int]
  /\ heldRow \in [Orders -> BOOLEAN]
  /\ status \in [Orders -> OrderStatuses \cup {"None"}]
  /\ trashed \in [Orders -> BOOLEAN]
  /\ dispatch \in [Orders -> DispatchStatuses \cup {"None"}]
  /\ left \in [Orders -> BOOLEAN]
  /\ rets \in [Orders -> Seq(ReturnRows)]
  /\ job \in [Workers -> Jobs \cup {NoJob}]

(* A line's units leave the shelf at most once and come back at most once, *)
(* whatever handlers race on the order: the ledger's net OUT of a line is  *)
(* never negative and never more than the line, and a line flagged         *)
(* deducted really is out (deductForOrder, restoreStandaloneItem and       *)
(* restoreReturnClaim read the flags behind a row lock).                   *)
TakenOnce ==
  \A o \in Orders :
    /\ 0 <= taken[o] /\ taken[o] <= Qty[o]
    /\ dedF[o] => taken[o] = Qty[o]

(* The handlers implement the shelf: at every step the units on hand, the  *)
(* deducted flags and the ledger move together, by whole lines, one line   *)
(* at a time (deductForOrder, restoreStandaloneItem, restoreReturnClaim).  *)
OnShelf == INSTANCE Shelf WITH
  Lines <- Orders, Size <- Qty, Stock <- InitialOnHand,
  shelf <- onHand, out <- dedF, ledger <- taken

ShelfPromise == OnShelf!Spec

(* What o's line accounts for in the reservation counter: the units its    *)
(* claim and its Return Pending hold put there, less those out of the      *)
(* shelf, which left the counter with the deduction.                       *)
Accounted(o) ==
  (IF resF[o] THEN Qty[o] ELSE 0) + (IF heldRow[o] THEN Qty[o] ELSE 0) - taken[o]

(* No phantom reservation: no unit is withheld from sale that no line      *)
(* accounts for.  A line is claimed once and held once, by whatever        *)
(* handlers race, die and are tried again: a hold committed on its own     *)
(* connection survives the status update it was part of                    *)
(* (resolveAndApplyStock, holdReservationForReturnPending).                *)
NoPhantomReservation == reserved <= SumFunction([o \in Orders |-> Accounted(o)])

(* The statuses before the goods leave, in which an order must be able to  *)
(* count on its units.                                                     *)
AwaitsGoods ==
  OrderStatuses \ (GoodsAlreadyLeft \cup {"Cancelled"})

Quiet(o) == \A w \in Workers : ~BusyOn(w, o)

(* An order waiting for its goods holds its claim on them: no cancel,      *)
(* revival, trash or restore, aborted or not, leaves it Pending, Confirmed *)
(* or Packed with nothing reserved (verifyStockForOrder, restore).  Said   *)
(* of orders without a Return row: a return left open by a cancel still    *)
(* releases the line when it arrives, also after the order was revived.    *)
(* Staff's own release of a reservation, line by line, is not modelled:    *)
(* it strips the line on purpose (physical-inventory.controller.ts:417).   *)
LiveOrderHoldsClaim ==
  \A o \in Orders :
    /\ status[o] \in AwaitsGoods /\ ~trashed[o]
    /\ rets[o] = <<>>
    /\ Quiet(o)
    => resF[o]

(* A cancelled order, or one trashed before its goods left, ...            *)
Dead(o) == status[o] = "Cancelled" \/ (trashed[o] /\ status[o] \in AwaitsGoods)

HoldsNothing(o) == ~resF[o] /\ ~dedF[o]

(* ... holds nothing once no parcel of it is on its way: neither a         *)
(* reservation nor units counted as gone (releaseForCancellation, trash).  *)
DeadOrderHoldsNothing ==
  \A o \in Orders : Dead(o) /\ ~HasDispatch(o) /\ Quiet(o) => HoldsNothing(o)

(* An order dies with nothing, whichever way it dies and whatever it held, *)
(* and a dead one gets something back in one way only: its parcel is still *)
(* booked and is handed over (deductForOrder, called by DispatchService,   *)
(* does not ask for the order's status).                                   *)
DiesClean(o) ==
  Dead(o)' => \/ HoldsNothing(o)'
              \/ Dead(o) /\ ~HoldsNothing(o)
              \/ Dead(o) /\ dispatch'[o] # dispatch[o]
                         /\ dispatch'[o] \in {"HANDED_OVER", "IN_TRANSIT"}

DiesWithNothing == [][\A o \in Orders : DiesClean(o)]_vars

(* What comments in the code say of it, and the code does not keep.        *)

(* "Idempotency (safe on any path / any retry)": whatever paths deduct an  *)
(* order, dispatch hand-over and delivery at once included, no more than   *)
(* its line is taken (OrderStockDeductService).                            *)
DeductedAtMostOnce == \A o \in Orders : taken[o] <= Qty[o]

(* "A failed deduction must NEVER be swallowed": an order shown Delivered, *)
(* with no return in its story, had its stock deducted                     *)
(* (handleDeliveredSideEffects).                                           *)
DeliveredWasDeducted ==
  \A o \in Orders :
    status[o] = "Delivered" /\ rets[o] = <<>> /\ Quiet(o) => dedF[o]

(* releaseHeldReservation "runs only when the counter actually holds the   *)
(* quantity", so it frees only the hold of the order being restored: the   *)
(* counter always covers the lines that are reserved and not yet deducted. *)
OpenClaim(o) == IF resF[o] /\ ~dedF[o] THEN Qty[o] ELSE 0
ReservationsCovered == reserved >= SumOver(Orders, OpenClaim)

(* "A second partial Return for the same order keeps working": units that  *)
(* were received in good order are not still counted as gone, as long as   *)
(* no return of the order was closed (restoreForReturnItems).              *)
ReturnedUnitsAreBack ==
  \A o \in Orders :
    /\ Quiet(o)
    /\ \A i \in DOMAIN rets[o] : rets[o][i].st # "CLOSED"
    => taken[o] + SumOver(DOMAIN rets[o], LAMBDA i : rets[o][i].good) <= Qty[o]
=============================================================================
