--------------------------- MODULE CourierParcel ---------------------------
(***************************************************************************)
(* One order and the parcels booked for it: what really happens to the     *)
(* parcels at the couriers, the webhooks that tell of it late, twice or    *)
(* out of order, the order and dispatch rows that follow, the Return the   *)
(* signals open, the cancellation that staff push to the couriers, and the *)
(* board on which they set a dispatch row by hand.                         *)
(*                                                                         *)
(* A webhook is handled in steps: the Idempotency-Key is claimed, the      *)
(* dispatch row written, the order advanced, perhaps status by status, and *)
(* the return recorded.  Two parcels' webhooks, staff and the cancel job   *)
(* may come between any two of them, and the process may die there.        *)
(***************************************************************************)
EXTENDS OrderTransitions, Sequences, FiniteSets

CONSTANTS
  Parcels,     \* the bookings of the order, one consignment each
  PanelOnly,   \* those with Steadfast: no cancel API, keyed webhooks
  MaxEvents,   \* bound: events the couriers raise
  MaxFaults,   \* bound: crashes, failed writes, repeated deliveries
  MaxCalls,    \* bound: calls of staff that start something over
  BoardSets    \* bound: the statuses staff set on the board

ASSUME CourierAssumption ==
  /\ PanelOnly \subseteq Parcels /\ BoardSets \subseteq DispatchStatuses
  /\ {MaxEvents, MaxFaults, MaxCalls} \subseteq Nat

VARIABLES
  order,    \* the order's status
  ref,      \* the consignment and kind of courier on the order: [con, kind]
  row,      \* row[p]: the Dispatch row of p
  ret,      \* the newest Return: [st, by]
  cancel,   \* the order cancellation under way
  board,    \* a board call's order sync: the status set, then the order's to be
  hook,     \* hook[p]: the webhook (or status sync) of p under way
  attempt,  \* attempt[p][e]: the key of e is claimed ("open"), and e handled ("done")
  truth,    \* truth[p]: where p is, at the courier
  sent,     \* sent[p]: the events the courier has raised
  mail,     \* mail[p]: those it still has to deliver, in any order
  spent,    \* faults and calls; was the order revived, put back by the board?
  missed,   \* history: missed[p], the events answered 404
  byHand    \* history: parcels staff shut on the board, or whose row they deleted

past == <<missed, byHand>>
system == <<order, ref, row, ret, cancel, board, hook, attempt, past>>
world == <<truth, sent, mail>>
vars == <<system, world, spent>>

-----------------------------------------------------------------------------
(* Tables of the webhook service.                                          *)

(* Pathao's words; Steadfast's in_review, pending, delivered and cancelled *)
(* are "booked", "picked", "delivered" and "cancelled".                    *)
Events == {"booked", "picked", "pickup_failed", "cancelled", "delivered",
           "returning", "home"}

(* Mutant of DispatchOf: delivery is stored under an unknown status.       *)
DispatchOfUnknown ==
  [booked |-> "DISPATCHED", picked |-> "PICKED_UP", pickup_failed |-> "PICKUP_FAILED",
   delivered |-> "COMPLETED", returning |-> "RETURN_PENDING", home |-> "RETURN_PENDING"]

DispatchOf ==
  [booked |-> "DISPATCHED", picked |-> "PICKED_UP", pickup_failed |-> "PICKUP_FAILED",
   delivered |-> "DELIVERED", returning |-> "RETURN_PENDING", home |-> "RETURN_PENDING"]

(* Where the order is to go for a dispatch status; RETURN_PENDING is a     *)
(* courier's last word, RETURNED is staff's.                               *)
OrderFor(d) ==
  CASE d = "PICKED_UP" -> "Shipping"
    [] d = "DELIVERED" -> "Delivered"
    [] d = "RETURN_PENDING" -> "Return Pending"
    [] OTHER -> "None"

(* Mutant of StepNext: a returning parcel passes through Delivered.        *)
StepNextLinear ==
  [s \in OrderStatuses |->
     CASE s = "Confirmed" -> {"Packed", "Packing Hold", "Cancelled"}
       [] s = "Packed" -> {"Shipping", "Packing Hold"}
       [] s = "Shipping" -> {"Delivered", "Partial"}
       [] s \in {"Delivered", "Partial"} -> {"Return Pending"}
       [] OTHER -> {}]

(* The webhook service's own ORDER_TRANSITIONS, for stepping.              *)
StepNext ==
  [s \in OrderStatuses |->
     CASE s = "Confirmed" -> {"Packed", "Packing Hold", "Cancelled"}
       [] s = "Packed" -> {"Shipping", "Packing Hold"}
       [] s = "Packing Hold" -> {"Packed", "Cancelled"}
       [] s = "Shipping" -> {"Delivered", "Partial", "Return Pending"}
       [] s \in {"Delivered", "Partial"} -> {"Return Pending"}
       [] s = "Return Pending" -> {"Returned", "Damaged"}
       [] s = "Returned" -> {"Damaged"}
       [] s = "Cancelled" -> {"Confirmed"}
       [] OTHER -> {}]

(* What reaches a status in at most n steps.                               *)
Within[n \in 0..5] ==
  [to \in OrderStatuses |->
     IF n = 0 THEN {to}
     ELSE LET near == Within[n - 1][to]
          IN  near \cup {s \in OrderStatuses : StepNext[s] \cap near # {}}]

(* A shortest way of at most n steps, <<>> when there is none.             *)
Way[n \in 0..5] ==
  [from \in OrderStatuses |->
     [to \in OrderStatuses |->
        IF from = to \/ from \notin Within[n][to] THEN <<>>
        ELSE IF from \in Within[n - 1][to] THEN Way[n - 1][from][to]
        ELSE LET t == CHOOSE x \in StepNext[from] : x \in Within[n - 1][to]
             IN  <<t>> \o Way[n - 1][t][to]]]

(* Mutant of FindPath: only a single step is found.                        *)
FindPathNear ==
  [from \in OrderStatuses |->
     [to \in OrderStatuses |-> IF to \in StepNext[from] THEN <<to>> ELSE <<>>]]

(* findTransitionPath: no way is longer.                                   *)
FindPath == Way[5]

ImpliesPickup ==
  {"PICKED_UP", "IN_TRANSIT", "ASSIGNED_TO_HUB", "ASSIGNED_TO_RIDER", "DELIVERED",
   "PARTIAL", "RETURN_PENDING", "RETURNED"}

(* What makes a courier's "cancelled" a return: a dispatch of the order,   *)
(* whichever, that shows progress.                                         *)
Progressed == {"HANDED_OVER", "PICKED_UP", "IN_TRANSIT", "ASSIGNED_TO_HUB",
               "ASSIGNED_TO_RIDER", "DELIVERED", "PARTIAL"}

-----------------------------------------------------------------------------
Truths == {"none", "booked", "dead", "failed", "out", "delivered", "returning", "home"}
NoRow == [st |-> "None", left |-> FALSE, panel |-> "none"]
NoReturn == [st |-> "None", by |-> "None"]
NoHook == [at |-> "idle", ev |-> "None", st |-> "None", path |-> <<>>]
NoCancel == [on |-> FALSE, plan |-> [p \in Parcels |-> "out"]]
NoRef == [con |-> "None", kind |-> "None"]

Kind(p) == IF p \in PanelOnly THEN "panel" ELSE "api"
RefTo(p) == [con |-> p, kind |-> Kind(p)]

(* findSteadfastOrder, findPathaoOrder: the consignment on the order, the  *)
(* dispatch row, or the order's own number (a status sync has none) if the *)
(* order's courier is the webhook's.                                       *)
Named(p) == ref.con = p \/ row[p].st # "None"

OpenReturn == ret.st \notin {"None", "CLOSED"}

Fault(kind) ==
  /\ spent.update + spent.other < MaxFaults
  /\ spent' = [spent EXCEPT ![kind] = @ + 1]
Call == spent.calls < MaxCalls /\ spent' = [spent EXCEPT !.calls = @ + 1]

Raised == UNION {{<<p, e>> : e \in sent[p]} : p \in Parcels}
Raise(p, e) ==
  /\ Cardinality(Raised) < MaxEvents
  /\ sent' = [sent EXCEPT ![p] = @ \cup {e}]
  /\ mail' = [mail EXCEPT ![p] = @ \cup {e}]

(* OrdersService.updateStatus for the automated actor.                     *)
MayMove(to) == to \in OrderNext[order] /\ (to = "Delivered" => ~OpenReturn)

-----------------------------------------------------------------------------
(* The couriers.                                                           *)

(* dispatch: the booking is made; that the order, or then the row, cannot  *)
(* be saved is logged.                                                     *)
Book(p) ==
  /\ truth[p] = "none" /\ order \in {"Confirmed", "Packed"}
  /\ truth' = [truth EXCEPT ![p] = "booked"]
  /\ Raise(p, "booked")
  /\ \/ ref' = RefTo(p) /\ row' = [row EXCEPT ![p].st = "DISPATCHED"] /\ UNCHANGED spent
     \/ ref' \in {ref, RefTo(p)} /\ UNCHANGED row /\ Fault("update")
  /\ UNCHANGED <<order, ret, cancel, board, hook, attempt, past>>

(* Steadfast has no word for a failed pickup, and calls a parcel that      *)
(* turns back cancelled; what becomes of it is asked for by Sync.          *)
Journey(p, from, to, e) ==
  /\ truth[p] = from
  /\ truth' = [truth EXCEPT ![p] = to]
  /\ IF e = "None" THEN UNCHANGED <<sent, mail>> ELSE Raise(p, e)
  /\ UNCHANGED <<system, spent>>

Collect(p) == Journey(p, "booked", "out", "picked")
FailPickup(p) == p \notin PanelOnly /\ Journey(p, "booked", "failed", "pickup_failed")
Withdraw(p) == Journey(p, "booked", "dead", "cancelled")
HandToCustomer(p) == Journey(p, "out", "delivered", "delivered")
TurnBack(p) ==
  Journey(p, "out", "returning", IF p \in PanelOnly THEN "cancelled" ELSE "returning")
ComeHome(p) ==
  Journey(p, "returning", "home", IF p \in PanelOnly THEN "None" ELSE "home")

(* An event that was answered is delivered once more.                      *)
Redeliver(p, e) ==
  /\ e \in sent[p] \ mail[p]
  /\ mail' = [mail EXCEPT ![p] = @ \cup {e}]
  /\ Fault("other")
  /\ UNCHANGED <<system, truth, sent>>

-----------------------------------------------------------------------------
(* The webhook: processWebhook, then handlePathao or handleSteadfast.      *)

Walk(p, path) ==
  hook' = [hook EXCEPT ![p].path = path, ![p].at = IF path = <<>> THEN "signal" ELSE "walk"]

(* The order is done with: on to the return and the answer.                *)
OrderDone(p) == hook' = [hook EXCEPT ![p].at = "signal", ![p].path = <<>>]

(* The key is claimed before the handler runs.                             *)
Receive(p, e) ==
  /\ hook[p] = NoHook /\ e \in mail[p]
  /\ attempt[p][e] = "none"
  /\ attempt' = IF p \in PanelOnly THEN [attempt EXCEPT ![p][e] = "open"] ELSE attempt
  /\ hook' = [hook EXCEPT ![p] = [NoHook EXCEPT !.at = "write", !.ev = e]]
  /\ UNCHANGED <<order, ref, row, ret, cancel, board, past, world, spent>>

(* A key seen before, whatever came of it, is answered 2xx and dropped.    *)
IgnoreRepeat(p, e) ==
  /\ hook[p] = NoHook /\ e \in mail[p]
  /\ attempt[p][e] # "none"
  /\ mail' = [mail EXCEPT ![p] = @ \ {e}]
  /\ UNCHANGED <<system, truth, sent, spent>>

(* Staff ask Steadfast how far back the parcel is.                         *)
Sync(p) ==
  /\ p \in PanelOnly /\ truth[p] \in {"returning", "home"}
  /\ hook[p] = NoHook /\ Named(p)
  /\ hook' = [hook EXCEPT ![p] = [NoHook EXCEPT !.at = "write", !.ev = truth[p]]]
  /\ Call
  /\ UNCHANGED <<order, ref, row, ret, cancel, board, attempt, past, world>>

ResolveCancelled ==
  IF \E q \in Parcels : row[q].st \in Progressed THEN "RETURN_PENDING" ELSE "CANCELLED"

BySync(p) == p \in PanelOnly /\ hook[p].ev \in {"returning", "home"}
Found(p) == Named(p) \/ (ref.kind = Kind(p) /\ ~BySync(p))

(* No such order: the courier is answered 404 (a keyed event is tried      *)
(* twice) and does not come back with it.  The key stays claimed.          *)
NotFound(p) ==
  /\ hook[p].at = "write" /\ ~Found(p)
  /\ hook' = [hook EXCEPT ![p] = NoHook]
  /\ mail' = [mail EXCEPT ![p] = @ \ {hook[p].ev}]
  /\ missed' = [missed EXCEPT ![p] = @ \cup {hook[p].ev}]
  /\ UNCHANGED <<order, ref, row, ret, cancel, board, attempt, byHand, truth, sent, spent>>

(* upsertDispatch: only a return is not overwritten, and only by delivery. *)
(* The order takes the webhook's courier, not its consignment.             *)
Write(p) ==
  /\ hook[p].at = "write" /\ Found(p)
  /\ ref' = [ref EXCEPT !.kind = Kind(p)]
  /\ LET d == IF hook[p].ev = "cancelled" THEN ResolveCancelled ELSE DispatchOf[hook[p].ev]
         sticky == row[p].st \in {"RETURN_PENDING", "RETURNED"} /\ d = "DELIVERED"
     IN  /\ row' = [row EXCEPT ![p].st = IF sticky THEN @ ELSE d,
                               ![p].left = @ \/ d \in ImpliesPickup]
         /\ hook' = [hook EXCEPT ![p].st = d,
                         ![p].at = IF OrderFor(d) = "None" THEN "signal" ELSE "advance"]
  /\ UNCHANGED <<order, ret, cancel, board, attempt, past, world, spent>>

Wanted(p) == OrderFor(hook[p].st)
Advances(p) ==
  /\ SyncAdvances(order, Wanted(p))
  /\ Wanted(p) = "Delivered" => ~OpenReturn

(* tryAdvanceOrderStatus: directly, or by steps when that fails; never by  *)
(* steps from Shipping to Return Pending.                                  *)
AdvanceSkipped(p) ==
  /\ hook[p].at = "advance" /\ ~Advances(p)
  /\ OrderDone(p)
  /\ UNCHANGED <<order, ref, row, ret, cancel, board, attempt, past, world, spent>>

AdvanceDirectly(p) ==
  /\ hook[p].at = "advance" /\ Advances(p) /\ MayMove(Wanted(p))
  /\ order' = Wanted(p)
  /\ OrderDone(p)
  /\ UNCHANGED <<ref, row, ret, cancel, board, attempt, past, world, spent>>

AdvanceRefused(p) ==
  /\ hook[p].at = "advance" /\ Advances(p)
  /\ IF MayMove(Wanted(p)) THEN Fault("update") ELSE UNCHANGED spent
  /\ IF order = "Shipping" /\ Wanted(p) = "Return Pending"
     THEN OrderDone(p) ELSE Walk(p, FindPath[order][Wanted(p)])
  /\ UNCHANGED <<order, ref, row, ret, cancel, board, attempt, past, world>>

WalkEnds(p) ==
  /\ hook[p].at = "walk" /\ order = Wanted(p)
  /\ OrderDone(p)
  /\ UNCHANGED <<order, ref, row, ret, cancel, board, attempt, past, world, spent>>

WalkStep(p) ==
  /\ hook[p].at = "walk" /\ order # Wanted(p)
  /\ LET step == Head(hook[p].path)
         next == Walk(p, Tail(hook[p].path))
     IN  \/ step \notin StepNext[order] /\ next /\ UNCHANGED <<order, spent>>
         \/ /\ step \in StepNext[order] /\ MayMove(step)
            /\ order' = step /\ next /\ UNCHANGED spent
         \/ /\ step \in StepNext[order] /\ OrderDone(p) /\ UNCHANGED order
            /\ IF MayMove(step) THEN Fault("update") ELSE UNCHANGED spent
  /\ UNCHANGED <<ref, row, ret, cancel, board, attempt, past, world>>

(* recordCourierReturnSignal: link to the open Return or create one, then  *)
(* move its stage.                                                         *)
Signals(h) ==
  h.ev \in {"returning", "home"} \/ (h.ev = "cancelled" /\ h.st = "RETURN_PENDING")

Recorded(p) ==
  LET was == IF OpenReturn THEN ret ELSE [st |-> "REQUESTED", by |-> p]
      moves == was.st = "REQUESTED" \/ (was.st = "IN_TRANSIT" /\ hook[p].ev = "home")
      stage == IF hook[p].ev = "home" THEN "DELIVERED" ELSE "IN_TRANSIT"
  IN  [st |-> IF moves THEN stage ELSE was.st, by |-> IF was.by = "None" THEN p ELSE was.by]

(* The return is recorded and the courier answered.                        *)
Answer(p) ==
  /\ hook[p].at = "signal"
  /\ ret' = IF Signals(hook[p]) THEN Recorded(p) ELSE ret
  /\ attempt' = IF attempt[p][hook[p].ev] = "open"
                THEN [attempt EXCEPT ![p][hook[p].ev] = "done"] ELSE attempt
  /\ mail' = [mail EXCEPT ![p] = @ \ {hook[p].ev}]
  /\ hook' = [hook EXCEPT ![p] = NoHook]
  /\ UNCHANGED <<order, ref, row, cancel, board, past, truth, sent, spent>>

(* A keyed handler that throws is run once more at once, without the key.  *)
Rerun(p) ==
  /\ hook[p] # NoHook /\ attempt[p][hook[p].ev] = "open"
  /\ hook' = [hook EXCEPT ![p] = [NoHook EXCEPT !.at = "write", !.ev = hook[p].ev]]
  /\ Fault("other")
  /\ UNCHANGED <<order, ref, row, ret, cancel, board, attempt, past, world>>

(* The process dies, or a handler without a key throws: the courier is not *)
(* answered 2xx and keeps the event.                                       *)
Crash(p) ==
  /\ hook[p] # NoHook
  /\ hook' = [hook EXCEPT ![p] = NoHook]
  /\ Fault("other")
  /\ UNCHANGED <<order, ref, row, ret, cancel, board, attempt, past, world>>

-----------------------------------------------------------------------------
(* The cancellation: evaluateOrder, prepare, transaction with apply.       *)

Live(p) == row[p].st \notin {"None", "CANCELLED"}
Eligible(p) == row[p].st \in PrePickup /\ ~row[p].left

CancelGate ==
  /\ ~cancel.on /\ "Cancelled" \in OrderNext[order]
  /\ \A p \in Parcels : Live(p) => Eligible(p)
  /\ cancel' = [on |-> TRUE,
                plan |-> [p \in Parcels |->
                            CASE ~Live(p) -> "out"
                              [] Live(p) /\ row[p].st = "PICKUP_FAILED" -> "failed"
                              [] Live(p) /\ row[p].st # "PICKUP_FAILED" ->
                                   IF p \in PanelOnly THEN "manual" ELSE "push"]]
  /\ Call
  /\ UNCHANGED <<order, ref, row, ret, board, hook, attempt, past, world>>

(* A push is still to come, also when its row was deleted meanwhile.       *)
ToPush(p) == cancel.plan[p] \in {"push", "gone"}

(* The courier's answer may be lost on the way back.                       *)
CancelPush(p) ==
  /\ ToPush(p) /\ truth[p] = "booked"
  /\ truth' = [truth EXCEPT ![p] = "dead"]
  /\ Raise(p, "cancelled")
  /\ \/ /\ cancel' = [cancel EXCEPT !.plan[p] = IF @ = "push" THEN "pushed" ELSE "out"]
        /\ UNCHANGED spent
     \/ cancel' = NoCancel /\ Fault("update")
  /\ UNCHANGED <<order, ref, row, ret, board, hook, attempt, past>>

CancelRefused(p) ==
  /\ ToPush(p) /\ truth[p] # "booked"
  /\ cancel' = NoCancel
  /\ UNCHANGED <<order, ref, row, ret, board, hook, attempt, past, world, spent>>

(* A death of the process, or a transaction that rolls back.               *)
CancelAborts ==
  /\ cancel.on
  /\ cancel' = NoCancel
  /\ Fault("other")
  /\ UNCHANGED <<order, ref, row, ret, board, hook, attempt, past, world>>

(* Mutant of Applied: a booking without a cancel API counts as cancelled.  *)
AppliedConfirmed(p) ==
  IF cancel.plan[p] = "out" \/ row[p].st = "CANCELLED" THEN row[p]
  ELSE [row[p] EXCEPT !.st = "CANCELLED",
                      !.panel = IF cancel.plan[p] = "pushed" THEN "none" ELSE "confirmed"]

Applied(p) ==
  LET r == row[p] IN
  IF cancel.plan[p] = "out" \/ r.st = "CANCELLED" THEN r
  ELSE [r EXCEPT !.st = "CANCELLED",
                 !.panel = CASE cancel.plan[p] = "pushed" -> "none"
                             [] cancel.plan[p] = "failed" -> "confirmed"
                             [] OTHER -> IF @ = "confirmed" THEN @ ELSE "owed"]

CancelCommit ==
  /\ cancel.on /\ \A p \in Parcels : ~ToPush(p)
  /\ order' = "Cancelled"
  /\ row' = [p \in Parcels |-> Applied(p)]
  /\ cancel' = NoCancel
  /\ UNCHANGED <<ref, ret, board, hook, attempt, past, world, spent>>

(* Staff cancel in the Steadfast panel what they owe, and then say so.     *)
PanelCancel(p) ==
  /\ p \in PanelOnly /\ row[p].panel = "owed"
  /\ Journey(p, "booked", "dead", "cancelled")

ConfirmPanel(p) ==
  /\ row[p].st = "CANCELLED" /\ row[p].panel = "owed" /\ truth[p] = "dead"
  /\ row' = [row EXCEPT ![p].panel = "confirmed"]
  /\ UNCHANGED <<order, ref, ret, cancel, board, hook, attempt, past, world, spent>>

-----------------------------------------------------------------------------
(* The dispatch board.                                                     *)

(* updateStatus: the row is set and stamped, whatever the courier does.    *)
BoardSet(p, to) ==
  /\ board = "None" /\ row[p].st # "None" /\ to \in DispatchNext[row[p].st]
  /\ row' = [row EXCEPT ![p].st = to, ![p].left = @ \/ to \in StampsPossession]
  /\ board' = to
  /\ byHand' = IF to \in {"CANCELLED", "PICKUP_FAILED"} THEN byHand \cup {p} ELSE byHand
  /\ Call
  /\ UNCHANGED <<order, ref, ret, cancel, hook, attempt, missed, world>>

(* syncOrderStatus: the order is read, then written without a look back;   *)
(* an open Return or Partial does not stop staff.                          *)
BoardRead ==
  /\ board \in DispatchStatuses
  /\ board' = IF SyncAdvances(order, SyncTarget[board]) THEN SyncTarget[board] ELSE "None"
  /\ UNCHANGED <<order, ref, row, ret, cancel, hook, attempt, past, world, spent>>

BoardWrite ==
  /\ board \in OrderStatuses
  /\ order' = board /\ board' = "None"
  /\ spent' = [spent EXCEPT !.putBack = @ \/ ~SyncAdvances(order, board)]
  /\ UNCHANGED <<ref, row, ret, cancel, hook, attempt, past, world>>

BoardDies ==
  /\ board # "None" /\ board' = "None"
  /\ Fault("other")
  /\ UNCHANGED <<order, ref, row, ret, cancel, hook, attempt, past, world>>

(* remove, or resolveFlagged with 'cancel': the row is deleted.  A plan    *)
(* names it by its id: what it still has to push it pushes, and no more.   *)
DeleteRow(p) ==
  /\ row[p].st # "None"
  /\ row' = [row EXCEPT ![p] = NoRow]
  /\ cancel' = [cancel EXCEPT !.plan[p] = IF @ = "push" THEN "gone" ELSE "out"]
  /\ byHand' = byHand \cup {p}
  /\ Call
  /\ UNCHANGED <<order, ref, ret, board, hook, attempt, missed, world>>

-----------------------------------------------------------------------------
(* Staff.                                                                  *)

Forward(to) ==
  /\ to \in OrderNext[order] /\ order' = to
  /\ UNCHANGED <<ref, row, ret, cancel, board, hook, attempt, past, world, spent>>

Revive ==
  /\ order = "Cancelled" /\ order' = "Confirmed"
  /\ spent' = [spent EXCEPT !.revived = TRUE]
  /\ UNCHANGED <<ref, row, ret, cancel, board, hook, attempt, past, world>>

CreateReturn ==
  /\ order \in ReturnEligible /\ ~OpenReturn
  /\ ret' = [st |-> "REQUESTED", by |-> "None"]
  /\ Call
  /\ UNCHANGED <<order, ref, row, cancel, board, hook, attempt, past, world>>

(* markReceived, when a parcel is back: the rows of the Return's courier,  *)
(* or all when it has none, become RETURNED, cancelled ones too.           *)
MarkReceived ==
  /\ ret.st \in {"REQUESTED", "IN_TRANSIT", "DELIVERED"}
  /\ \E p \in Parcels : truth[p] = "home"
  /\ ret' = [ret EXCEPT !.st = "RESTOCKED"]
  /\ row' = [p \in Parcels |->
               IF row[p].st # "None" /\ ret.by \in {"None", p}
               THEN [row[p] EXCEPT !.st = "RETURNED"] ELSE row[p]]
  /\ UNCHANGED <<order, ref, cancel, board, hook, attempt, past, world, spent>>

CloseReturn ==
  /\ OpenReturn
  /\ ret' = [ret EXCEPT !.st = "CLOSED"]
  /\ Call
  /\ UNCHANGED <<order, ref, row, cancel, board, hook, attempt, past, world>>

-----------------------------------------------------------------------------
Init ==
  /\ order = "Confirmed" /\ ref = NoRef /\ board = "None"
  /\ row = [p \in Parcels |-> NoRow]
  /\ ret = NoReturn /\ cancel = NoCancel
  /\ hook = [p \in Parcels |-> NoHook]
  /\ attempt = [p \in Parcels |-> [e \in Events |-> "none"]]
  /\ truth = [p \in Parcels |-> "none"]
  /\ sent = [p \in Parcels |-> {}] /\ mail = [p \in Parcels |-> {}]
  /\ missed = [p \in Parcels |-> {}] /\ byHand = {}
  /\ spent = [update |-> 0, other |-> 0, calls |-> 0, revived |-> FALSE, putBack |-> FALSE]

Deliver(p, e) == Receive(p, e) \/ IgnoreRepeat(p, e)
Handle(p) ==
  \/ Write(p) \/ NotFound(p)
  \/ AdvanceSkipped(p) \/ AdvanceDirectly(p) \/ AdvanceRefused(p)
  \/ WalkEnds(p) \/ WalkStep(p)
  \/ Answer(p)

Proceed(p) == Handle(p) \/ \E e \in Events : Deliver(p, e)

CourierMoves(p) ==
  \/ Book(p) \/ Collect(p) \/ FailPickup(p) \/ Withdraw(p)
  \/ HandToCustomer(p) \/ TurnBack(p) \/ ComeHome(p)

Cancelling(p) == CancelPush(p) \/ CancelRefused(p) \/ PanelCancel(p) \/ ConfirmPanel(p)

Next ==
  \/ \E p \in Parcels : CourierMoves(p) \/ Proceed(p) \/ Sync(p) \/ Cancelling(p)
                         \/ Rerun(p) \/ Crash(p) \/ DeleteRow(p)
                         \/ (\E to \in BoardSets : BoardSet(p, to))
  \/ BoardRead \/ BoardWrite \/ BoardDies
  \/ \E p \in Parcels, e \in Events : Redeliver(p, e)
  \/ CancelGate \/ CancelAborts \/ CancelCommit
  \/ (\E to \in {"Packed", "Shipping"} : Forward(to)) \/ Revive
  \/ CreateReturn \/ MarkReceived \/ CloseReturn

(* A courier delivers what was not answered, and a handler that runs goes  *)
(* on.  Nothing else is promised: not that parcels move, nor staff act.    *)
Fairness == \A p \in Parcels : WF_vars(Proceed(p))

Spec == Init /\ [][Next]_vars /\ Fairness

-----------------------------------------------------------------------------
TypeOK ==
  /\ order \in OrderStatuses
  /\ ref \in [con : Parcels \cup {"None"}, kind : {"None", "api", "panel"}]
  /\ board \in DispatchStatuses \cup OrderStatuses \cup {"None"}
  /\ row \in [Parcels -> [st : DispatchStatuses \cup {"None"}, left : BOOLEAN,
                          panel : {"none", "owed", "confirmed"}]]
  /\ ret \in [st : {"None", "REQUESTED", "IN_TRANSIT", "DELIVERED", "RESTOCKED", "CLOSED"},
              by : Parcels \cup {"None"}]
  /\ cancel \in [on : BOOLEAN,
                 plan : [Parcels -> {"out", "push", "gone", "pushed", "manual", "failed"}]]
  /\ hook \in [Parcels -> [at : {"idle", "write", "advance", "walk", "signal"},
                           ev : Events \cup {"None"},
                           st : DispatchStatuses \cup {"None"},
                           path : Seq(OrderStatuses)]]
  /\ attempt \in [Parcels -> [Events -> {"none", "open", "done"}]]
  /\ truth \in [Parcels -> Truths]
  /\ sent \in [Parcels -> SUBSET Events] /\ mail \in [Parcels -> SUBSET Events]
  /\ missed \in [Parcels -> SUBSET Events] /\ byHand \in SUBSET Parcels
  /\ spent \in [update : 0..MaxFaults, other : 0..MaxFaults,
               calls : 0..MaxCalls, revived : BOOLEAN, putBack : BOOLEAN]

(* An event whose first handling died after its key was claimed.           *)
Orphaned(p, e) == attempt[p][e] = "open" /\ hook[p].ev # e /\ e \notin mail[p]

(* One the courier will not say again.                                     *)
Lost(p, e) == Orphaned(p, e) \/ e \in missed[p]

(* A dispatch shown as CANCELLED never hides a parcel that is alive at its *)
(* courier: either staff owe a cancellation in the courier's panel, or the *)
(* row has been stamped as picked up, or the courier's word that it was is *)
(* still on its way (or was lost to a claimed key or to a 404).  Except a  *)
(* parcel that staff themselves called cancelled, or its pickup failed, on *)
(* the board, or whose row they deleted: the board asks no courier, and    *)
(* what it stamped is gone with the row.                                   *)
CancelledHidesNoParcel ==
  \A p \in Parcels \ byHand :
    row[p].st = "CANCELLED" /\ truth[p] \notin {"dead", "failed"} =>
      \/ row[p].panel = "owed"
      \/ row[p].left
      \/ "picked" \in mail[p] \/ Lost(p, "picked")

(* A webhook makes an order Delivered only when a courier has delivered,   *)
(* whatever statuses it has to step through and whoever moves the order    *)
(* meanwhile.  (Staff may set Delivered too, on the order or on the board: *)
(* a step that changes no webhook's state is theirs.)                      *)
DeliveredWasClaimed ==
  [][hook' # hook /\ order' = "Delivered" =>
       order = "Delivered" \/ \E p \in Parcels : truth[p] = "delivered"]_vars

(* What a courier says last of a parcel takes effect, whatever order its   *)
(* words come in, wherever the order lags and whichever handler died: a    *)
(* dead booking closes its row (unless staff delete it), also when the     *)
(* cancellation that killed it was rolled back; a parcel that turned back  *)
(* has its Return; a delivery reaches the order, unless staff cancelled or *)
(* revived it, called it Partial, opened a Return, or a status update      *)
(* itself failed (which is answered 2xx).  Two exceptions: the board's     *)
(* order sync may put an order back that moved on since it read it; and a  *)
(* word answered 404, because the booking was not saved, or its row        *)
(* deleted, and the order now names another courier, is not said again.    *)
LastWordIsHeeded ==
  \A p \in Parcels \ PanelOnly :
    mail[p] \cap {"cancelled", "delivered", "returning", "home"} # {} ~>
      \/ missed[p] \cap {"cancelled", "delivered", "returning", "home"} # {}
      \/ /\ truth[p] = "dead" =>
              \/ row[p].st \in {"CANCELLED", "RETURN_PENDING", "RETURNED"}
              \/ row[p].st = "None" /\ p \in byHand
         /\ truth[p] \in {"returning", "home"} => ret # NoReturn
         /\ truth[p] = "delivered" =>
              \/ order \in {"Delivered", "Partial", "Return Pending", "Cancelled"}
              \/ ret # NoReturn
              \/ spent.update > 0 \/ spent.revived \/ spent.putBack
=============================================================================
