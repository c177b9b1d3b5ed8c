------------------------ MODULE CourierParcelProofs ------------------------
(***************************************************************************)
(* For any number of parcels, couriers with and without a cancel API,      *)
(* events and faults: a dispatch shown as CANCELLED hides no living parcel *)
(* that staff did not themselves shut on the board, and no webhook makes   *)
(* an order Delivered unless a courier delivered.                          *)
(*                                                                         *)
(* A parcel that was collected is never forgotten: its "picked" is in the  *)
(* courier's hands, in a dead handler's key or stamped on the row.  One    *)
(* that was not can only be CANCELLED by the order's cancellation, which   *)
(* then owes the panel, or on the board.                                   *)
(* And the ways a webhook walks an order along lead through Delivered only *)
(* when Delivered is where they lead.                                      *)
(***************************************************************************)
EXTENDS CourierParcel, SequenceTheorems, TLAPS

Plans == {"out", "push", "gone", "pushed", "manual", "failed"}
RowType == [st : DispatchStatuses \cup {"None"}, left : BOOLEAN,
            panel : {"none", "owed", "confirmed"}]

(* What the paths of the hooks are made of does not matter.                *)
HookType(Paths) ==
  [at : {"idle", "write", "advance", "walk", "signal"}, ev : Events \cup {"None"},
   st : DispatchStatuses \cup {"None"}, path : Paths]
Hooks == \E Paths : hook \in [Parcels -> HookType(Paths)]

Shape ==
  /\ row \in [Parcels -> RowType]
  /\ cancel \in [on : BOOLEAN, plan : [Parcels -> Plans]]
  /\ Hooks
  /\ attempt \in [Parcels -> [Events -> {"none", "open", "done"}]]
  /\ truth \in [Parcels -> Truths]
  /\ sent \in [Parcels -> SUBSET Events]
  /\ mail \in [Parcels -> SUBSET Events]
  /\ missed \in [Parcels -> SUBSET Events] /\ byHand \in SUBSET Parcels

(* What the courier has raised tells where the parcel is.                  *)
Told(p) ==
  /\ mail[p] \subseteq sent[p]
  /\ "cancelled" \in sent[p] => truth[p] \notin {"none", "booked"}
  /\ "pickup_failed" \in sent[p] => truth[p] = "failed"
  /\ truth[p] \in {"out", "delivered", "returning", "home"} => "picked" \in sent[p]

(* A handler at work speaks of an event that was raised, and has stamped   *)
(* the row once it is past the write.                                      *)
Handled(p) ==
  /\ hook[p] = NoHook \/ hook[p].ev \in Events
  /\ hook[p].ev \in {"cancelled", "pickup_failed"} => hook[p].ev \in sent[p]
  /\ hook[p].at \in {"advance", "walk", "signal"} /\ hook[p].ev = "picked" =>
       row[p].left \/ p \in byHand

(* A collection is stamped, or still on its way, or lost; unless staff set *)
(* the row by hand.                                                        *)
Remembered(p) ==
  p \notin byHand =>
  /\ attempt[p]["picked"] = "done" => row[p].left
  /\ "picked" \in sent[p] => row[p].left \/ "picked" \in mail[p] \/ Lost(p, "picked")

(* What the row and the plan of a cancellation say of the booking, as long *)
(* as staff said nothing of it.                                            *)
Booking(p) ==
  p \notin byHand =>
  /\ row[p].panel = "confirmed" => truth[p] \in {"dead", "failed"}
  /\ row[p].st = "PICKUP_FAILED" => truth[p] = "failed"
  /\ row[p].st = "CANCELLED" /\ truth[p] \in {"none", "booked"} => row[p].panel = "owed"
  /\ cancel.plan[p] = "pushed" => truth[p] = "dead"
  /\ cancel.plan[p] = "failed" => truth[p] = "failed"

ParcelInv(p) == Told(p) /\ Handled(p) /\ Remembered(p) /\ Booking(p)
ParcelsInv == Shape /\ \A p \in Parcels : ParcelInv(p)

-----------------------------------------------------------------------------
LEMMA InvHidesNoParcel == ParcelsInv => CancelledHidesNoParcel
<1>. SUFFICES ASSUME ParcelsInv, NEW p \in Parcels \ byHand,
                     row[p].st = "CANCELLED", truth[p] \notin {"dead", "failed"}
              PROVE  row[p].panel = "owed" \/ row[p].left
                       \/ "picked" \in mail[p] \/ Lost(p, "picked")
  BY DEF CancelledHidesNoParcel
<1>1. Told(p) /\ Remembered(p) /\ Booking(p)
  BY DEF ParcelsInv, ParcelInv
<1>2. truth[p] \in {"none", "booked", "out", "delivered", "returning", "home"}
  BY DEF ParcelsInv, Shape, Truths
<1>3. CASE truth[p] \in {"none", "booked"}
  BY <1>1, <1>3 DEF Booking
<1>4. CASE truth[p] \in {"out", "delivered", "returning", "home"}
  BY <1>1, <1>4 DEF Told, Remembered
<1>. QED BY <1>2, <1>3, <1>4

(* A parcel whose own state a step leaves alone; plans may be dropped.     *)
Untouched(p) ==
  /\ row'[p] = row[p] /\ hook'[p] = hook[p] /\ attempt'[p] = attempt[p]
  /\ truth'[p] = truth[p] /\ sent'[p] = sent[p] /\ mail'[p] = mail[p]
  /\ cancel'.plan[p] \in {cancel.plan[p], "out"}
  /\ missed'[p] = missed[p] /\ (p \in byHand => p \in byHand')

LEMMA UntouchedKeeps ==
  ASSUME NEW p \in Parcels, ParcelInv(p), Untouched(p)
  PROVE  ParcelInv(p)'
<1>1. Told(p)'
  BY DEF ParcelInv, Told, Untouched
<1>2. Handled(p)'
  BY DEF ParcelInv, Handled, Untouched
<1>3. Remembered(p)'
  BY DEF ParcelInv, Remembered, Lost, Orphaned, Untouched
<1>4. Booking(p)'
  BY DEF ParcelInv, Booking, Untouched
<1>. QED BY <1>1, <1>2, <1>3, <1>4 DEF ParcelInv

(* So a step about one parcel has only that one to account for.            *)
LEMMA OneParcel ==
  ASSUME ParcelsInv, Shape', NEW p \in Parcels, ParcelInv(p)',
         \A q \in Parcels \ {p} : Untouched(q)
  PROVE  ParcelsInv'
<1>1. ASSUME NEW q \in Parcels
      PROVE  ParcelInv(q)'
  <2>1. CASE q = p
    BY <2>1
  <2>2. CASE q # p
    <3>1. Untouched(q) /\ ParcelInv(q)
      BY <2>2 DEF ParcelsInv
    <3>. QED BY <3>1, UntouchedKeeps
  <2>. QED BY <2>1, <2>2
<1>. QED BY <1>1 DEF ParcelsInv

LEMMA NoParcel ==
  ASSUME ParcelsInv, Shape', \A q \in Parcels : Untouched(q)
  PROVE  ParcelsInv'
<1>1. ASSUME NEW q \in Parcels
      PROVE  ParcelInv(q)'
  BY UntouchedKeeps DEF ParcelsInv
<1>. QED BY <1>1 DEF ParcelsInv

LEMMA NoHookFields ==
  /\ NoHook.at = "idle" /\ NoHook.ev = "None"
  /\ NoHook \in HookType({<<>>})
BY DEF NoHook, HookType

LEMMA NoCancelPlan ==
  /\ NoCancel \in [on : BOOLEAN, plan : [Parcels -> Plans]]
  /\ \A p \in Parcels : NoCancel.plan[p] = "out"
BY DEF NoCancel, Plans

(* What putting a well-formed hook in the place of another leaves.         *)
LEMMA HookReplaced ==
  ASSUME Hooks, NEW p \in Parcels, NEW Q, NEW h \in HookType(Q),
         hook' = [hook EXCEPT ![p] = h]
  PROVE  Hooks' /\ hook'[p] = h /\ \A q \in Parcels \ {p} : hook'[q] = hook[q]
<1>1. PICK P : hook \in [Parcels -> HookType(P)]
  BY DEF Hooks
<1>2. HookType(P) \subseteq HookType(P \cup Q) /\ h \in HookType(P \cup Q)
  BY DEF HookType
<1>3. hook' \in [Parcels -> HookType(P \cup Q)]
  BY <1>1, <1>2
<1>4. hook'[p] = h /\ \A q \in Parcels \ {p} : hook'[q] = hook[q]
  BY <1>1
<1>. QED BY <1>3, <1>4 DEF Hooks

LEMMA RaiseAdds ==
  ASSUME sent \in [Parcels -> SUBSET Events], mail \in [Parcels -> SUBSET Events],
         NEW p \in Parcels, NEW e \in Events, Raise(p, e)
  PROVE  /\ sent' \in [Parcels -> SUBSET Events] /\ mail' \in [Parcels -> SUBSET Events]
         /\ sent'[p] = sent[p] \cup ({e} \ {"None"})
         /\ mail'[p] = mail[p] \cup ({e} \ {"None"})
         /\ \A q \in Parcels \ {p} : sent'[q] = sent[q] /\ mail'[q] = mail[q]
<1>1. /\ sent' = [sent EXCEPT ![p] = @ \cup {e}]
      /\ mail' = [mail EXCEPT ![p] = @ \cup {e}]
  BY DEF Raise
<1>2. {e} \ {"None"} = {e}
  BY DEF Events
<1>3. sent[p] \cup {e} \in SUBSET Events /\ mail[p] \cup {e} \in SUBSET Events
  OBVIOUS
<1>. QED BY <1>1, <1>2, <1>3

-----------------------------------------------------------------------------
(* The couriers.  A step of a parcel's journey may raise one event.        *)

Travels(p, from, to, e) ==
  /\ truth[p] = from /\ truth' = [truth EXCEPT ![p] = to]
  /\ IF e = "None" THEN UNCHANGED <<sent, mail>> ELSE Raise(p, e)

LEMMA TravelKeeps ==
  ASSUME ParcelsInv, NEW p \in Parcels,
         NEW from \in {"booked", "out", "returning"},
         NEW to \in {"dead", "failed", "out", "delivered", "returning", "home"},
         NEW e \in Events \cup {"None"},
         Travels(p, from, to, e),
         e = "pickup_failed" => to = "failed",
         from = "booked" /\ to \notin {"dead", "failed"} => e = "picked",
         UNCHANGED <<row, hook, attempt, missed, byHand>>,
         cancel' \in [on : BOOLEAN, plan : [Parcels -> Plans]],
         \A q \in Parcels : cancel'.plan[q] \in {cancel.plan[q], "out"}
                              \/ (q = p /\ to = "dead" /\ cancel'.plan[q] = "pushed")
  PROVE  ParcelsInv'
<1>j. /\ truth[p] = from /\ truth' = [truth EXCEPT ![p] = to]
      /\ IF e = "None" THEN UNCHANGED <<sent, mail>> ELSE Raise(p, e)
  BY DEF Travels
<1>s. /\ sent' \in [Parcels -> SUBSET Events] /\ mail' \in [Parcels -> SUBSET Events]
      /\ sent'[p] = sent[p] \cup ({e} \ {"None"}) /\ mail'[p] = mail[p] \cup ({e} \ {"None"})
      /\ \A q \in Parcels \ {p} : sent'[q] = sent[q] /\ mail'[q] = mail[q]
  <2>1. CASE e = "None"
    BY <1>j, <2>1 DEF ParcelsInv, Shape
  <2>2. CASE e # "None"
    BY <1>j, <2>2, RaiseAdds DEF ParcelsInv, Shape
  <2>. QED BY <2>1, <2>2
<1>t. /\ truth' \in [Parcels -> Truths] /\ truth'[p] = to
      /\ \A q \in Parcels \ {p} : truth'[q] = truth[q]
  BY <1>j DEF ParcelsInv, Shape, Truths
<1>1. Shape'
  BY <1>j, <1>s, <1>t DEF ParcelsInv, Shape, Hooks
<1>2. \A q \in Parcels \ {p} : Untouched(q)
  BY <1>j, <1>s, <1>t DEF Untouched
<1>p. Told(p) /\ Handled(p) /\ Remembered(p) /\ Booking(p)
  BY DEF ParcelsInv, ParcelInv
<1>3. Told(p)'
  <2>1. "pickup_failed" \notin sent[p]
    BY <1>p, <1>j DEF Told
  <2>. QED BY <1>p, <1>j, <1>s, <1>t, <2>1 DEF Told
<1>4. Handled(p)'
  BY <1>p, <1>j, <1>s DEF Handled
<1>5. Remembered(p)'
  BY <1>p, <1>j, <1>s DEF Remembered, Lost, Orphaned
<1>6. Booking(p)'
  BY <1>p, <1>j, <1>t DEF Booking
<1>. QED BY <1>1, <1>2, <1>3, <1>4, <1>5, <1>6, OneParcel DEF ParcelInv

LEMMA JourneyKeeps ==
  ASSUME ParcelsInv, NEW p \in Parcels,
         NEW from \in {"booked", "out", "returning"},
         NEW to \in {"dead", "failed", "out", "delivered", "returning", "home"},
         NEW e \in Events \cup {"None"},
         Journey(p, from, to, e),
         e = "pickup_failed" => to = "failed",
         from = "booked" /\ to \notin {"dead", "failed"} => e = "picked"
  PROVE  ParcelsInv'
<1>1. Travels(p, from, to, e) /\ UNCHANGED <<row, hook, attempt, cancel, missed, byHand>>
  BY DEF Journey, Travels, system, past
<1>. QED BY <1>1, TravelKeeps DEF ParcelsInv, Shape

LEMMA BookKeeps ==
  ASSUME ParcelsInv, NEW p \in Parcels, Book(p)
  PROVE  ParcelsInv'
<1>p. Told(p) /\ Handled(p) /\ Remembered(p) /\ Booking(p)
  BY DEF ParcelsInv, ParcelInv
<1>s. /\ sent' \in [Parcels -> SUBSET Events] /\ mail' \in [Parcels -> SUBSET Events]
      /\ sent'[p] = sent[p] \cup {"booked"} /\ mail'[p] = mail[p] \cup {"booked"}
      /\ \A q \in Parcels \ {p} : sent'[q] = sent[q] /\ mail'[q] = mail[q]
  <2>1. "booked" \in Events /\ {"booked"} \ {"None"} = {"booked"}
    BY DEF Events
  <2>2. sent \in [Parcels -> SUBSET Events] /\ mail \in [Parcels -> SUBSET Events]
    BY DEF ParcelsInv, Shape
  <2>3. Raise(p, "booked")
    BY DEF Book, past
  <2>. QED BY <2>1, <2>2, <2>3, RaiseAdds
<1>t. /\ truth[p] = "none" /\ truth' \in [Parcels -> Truths] /\ truth'[p] = "booked"
      /\ \A q \in Parcels \ {p} : truth'[q] = truth[q]
  BY DEF ParcelsInv, Shape, Book, Truths
<1>r. /\ row' \in [Parcels -> RowType]
      /\ row'[p].st \in {row[p].st, "DISPATCHED"}
      /\ row'[p].left = row[p].left /\ row'[p].panel = row[p].panel
      /\ \A q \in Parcels \ {p} : row'[q] = row[q]
  <2>1. row \in [Parcels -> RowType] /\ (UNCHANGED row \/ row' = [row EXCEPT ![p].st = "DISPATCHED"])
    BY DEF ParcelsInv, Shape, Book
  <2>. QED BY <2>1 DEF RowType, DispatchStatuses
<1>h. UNCHANGED <<hook, attempt, cancel, missed, byHand>>
  BY DEF Book, past
<1>1. Shape'
  BY <1>s, <1>t, <1>r, <1>h DEF ParcelsInv, Shape, Hooks
<1>2. \A q \in Parcels \ {p} : Untouched(q)
  BY <1>s, <1>t, <1>r, <1>h DEF Untouched
<1>3. Told(p)'
  BY <1>p, <1>s, <1>t DEF Told
<1>4. Handled(p)'
  BY <1>p, <1>s, <1>r, <1>h DEF Handled
<1>5. Remembered(p)'
  BY <1>p, <1>s, <1>r, <1>h DEF Remembered, Lost, Orphaned
<1>6. Booking(p)'
  BY <1>p, <1>t, <1>r, <1>h DEF Booking
<1>. QED BY <1>1, <1>2, <1>3, <1>4, <1>5, <1>6, OneParcel DEF ParcelInv

LEMMA CourierMovesKeep ==
  ASSUME ParcelsInv, NEW p \in Parcels, CourierMoves(p)
  PROVE  ParcelsInv'
<1>1. CASE Book(p)
  BY <1>1, BookKeeps
<1>2. CASE Collect(p)
  BY <1>2, JourneyKeeps DEF Collect, Events
<1>3. CASE FailPickup(p)
  BY <1>3, JourneyKeeps DEF FailPickup, Events
<1>4. CASE Withdraw(p)
  BY <1>4, JourneyKeeps DEF Withdraw, Events
<1>5. CASE HandToCustomer(p)
  BY <1>5, JourneyKeeps DEF HandToCustomer, Events
<1>6. CASE TurnBack(p)
  <2>. DEFINE e == IF p \in PanelOnly THEN "cancelled" ELSE "returning"
  <2>1. e \in {"cancelled", "returning"} /\ Journey(p, "out", "returning", e)
    BY <1>6 DEF TurnBack
  <2>. HIDE DEF e
  <2>. QED BY <2>1, JourneyKeeps DEF Events
<1>7. CASE ComeHome(p)
  <2>. DEFINE e == IF p \in PanelOnly THEN "None" ELSE "home"
  <2>1. e \in {"None", "home"} /\ Journey(p, "returning", "home", e)
    BY <1>7 DEF ComeHome
  <2>. HIDE DEF e
  <2>. QED BY <2>1, JourneyKeeps DEF Events
<1>. QED BY <1>1, <1>2, <1>3, <1>4, <1>5, <1>6, <1>7 DEF CourierMoves

LEMMA PanelCancelKeeps ==
  ASSUME ParcelsInv, NEW p \in Parcels, PanelCancel(p)
  PROVE  ParcelsInv'
BY JourneyKeeps DEF PanelCancel, Events

LEMMA RedeliverKeeps ==
  ASSUME ParcelsInv, NEW p \in Parcels, NEW e \in Events, Redeliver(p, e)
  PROVE  ParcelsInv'
<1>p. Told(p) /\ Handled(p) /\ Remembered(p) /\ Booking(p)
  BY DEF ParcelsInv, ParcelInv
<1>m. /\ e \in sent[p]
      /\ mail' \in [Parcels -> SUBSET Events] /\ mail'[p] = mail[p] \cup {e}
      /\ \A q \in Parcels \ {p} : mail'[q] = mail[q]
  BY DEF ParcelsInv, Shape, Redeliver
<1>u. UNCHANGED <<row, hook, attempt, truth, sent, cancel, missed, byHand>>
  BY DEF Redeliver, system, past
<1>1. Shape'
  BY <1>m, <1>u DEF ParcelsInv, Shape, Hooks
<1>2. \A q \in Parcels \ {p} : Untouched(q)
  BY <1>m, <1>u DEF Untouched
<1>3. Told(p)' /\ Handled(p)' /\ Booking(p)'
  BY <1>p, <1>m, <1>u DEF Told, Handled, Booking
<1>4. Remembered(p)'
  BY <1>p, <1>m, <1>u DEF Remembered, Lost, Orphaned
<1>. QED BY <1>1, <1>2, <1>3, <1>4, OneParcel DEF ParcelInv

-----------------------------------------------------------------------------
(* The webhook.                                                            *)

(* A step that only gives p another hook.                                  *)
LEMMA HookKeeps ==
  ASSUME ParcelsInv, NEW p \in Parcels, Hooks',
         \A q \in Parcels \ {p} : hook'[q] = hook[q],
         UNCHANGED <<row, attempt, truth, sent, mail, cancel, missed, byHand>>,
         hook'[p] = NoHook \/ hook'[p].ev \in Events,
         hook'[p].ev \in {"cancelled", "pickup_failed"} => hook'[p].ev \in sent[p],
         hook'[p].at \in {"advance", "walk", "signal"} /\ hook'[p].ev = "picked" =>
           row[p].left \/ p \in byHand,
         Orphaned(p, "picked") => hook'[p].ev # "picked"
  PROVE  ParcelsInv'
<1>p. Told(p) /\ Remembered(p) /\ Booking(p)
  BY DEF ParcelsInv, ParcelInv
<1>1. Shape'
  BY DEF ParcelsInv, Shape
<1>2. \A q \in Parcels \ {p} : Untouched(q)
  BY DEF Untouched
<1>3. Told(p)' /\ Booking(p)'
  BY <1>p DEF Told, Booking
<1>4. Handled(p)'
  BY DEF Handled
<1>5. Remembered(p)'
  BY <1>p DEF Remembered, Lost, Orphaned
<1>. QED BY <1>1, <1>2, <1>3, <1>4, <1>5, OneParcel DEF ParcelInv

LEMMA SyncKeeps ==
  ASSUME ParcelsInv, NEW p \in Parcels, Sync(p)
  PROVE  ParcelsInv'
<1> DEFINE h == [NoHook EXCEPT !.at = "write", !.ev = truth[p]]
<1>0. truth[p] \in {"returning", "home"}
  BY DEF Sync, past
<1>2. /\ hook' = [hook EXCEPT ![p] = h]
      /\ UNCHANGED <<row, attempt, truth, sent, mail, cancel, missed, byHand>>
  BY DEF Sync, world, past
<1>3. h \in HookType({<<>>}) /\ h.at = "write" /\ h.ev = truth[p]
  BY <1>0, NoHookFields DEF HookType, Events
<1>. HIDE DEF h
<1>4. Hooks' /\ hook'[p] = h /\ \A q \in Parcels \ {p} : hook'[q] = hook[q]
  BY <1>2, <1>3, HookReplaced DEF ParcelsInv, Shape
<1>. QED BY <1>0, <1>2, <1>3, <1>4, HookKeeps DEF Events

(* Both put the event back to the start of its handler.                    *)
LEMMA CrashKeeps ==
  ASSUME ParcelsInv, NEW p \in Parcels, Crash(p)
  PROVE  ParcelsInv'
<1>1. hook' = [hook EXCEPT ![p] = NoHook] /\ UNCHANGED <<row, attempt, truth, sent, mail, cancel, missed, byHand>>
  BY DEF Crash, world, past
<1>2. Hooks' /\ hook'[p] = NoHook /\ \A q \in Parcels \ {p} : hook'[q] = hook[q]
  BY <1>1, NoHookFields, HookReplaced DEF ParcelsInv, Shape
<1>. QED BY <1>1, <1>2, NoHookFields, HookKeeps

LEMMA RerunKeeps ==
  ASSUME ParcelsInv, NEW p \in Parcels, Rerun(p)
  PROVE  ParcelsInv'
<1> DEFINE h == [NoHook EXCEPT !.at = "write", !.ev = hook[p].ev]
<1>1. h \in HookType({<<>>}) /\ h.at = "write" /\ h.ev = hook[p].ev
  <2>1. PICK P : hook \in [Parcels -> HookType(P)]
    BY DEF ParcelsInv, Shape, Hooks
  <2>2. hook[p].ev \in Events \cup {"None"}
    BY <2>1 DEF HookType
  <2>. QED BY <2>2, NoHookFields DEF HookType
<1>2. /\ hook' = [hook EXCEPT ![p] = h] /\ hook[p] # NoHook
      /\ UNCHANGED <<row, attempt, truth, sent, mail, cancel, missed, byHand>>
  BY DEF Rerun, world, past
<1>. HIDE DEF h
<1>3. Hooks' /\ hook'[p] = h /\ \A q \in Parcels \ {p} : hook'[q] = hook[q]
  BY <1>1, <1>2, HookReplaced DEF ParcelsInv, Shape
<1>4. /\ hook[p].ev \in Events
      /\ hook[p].ev \in {"cancelled", "pickup_failed"} => hook[p].ev \in sent[p]
  BY <1>2 DEF ParcelsInv, ParcelInv, Handled
<1>5. Orphaned(p, "picked") => h.ev # "picked"
  BY <1>1 DEF Lost, Orphaned
<1>. QED BY <1>1, <1>2, <1>3, <1>4, <1>5, HookKeeps

(* A handler moves on: the event stays, the row has been written.          *)
LEMMA HookMoved ==
  ASSUME Hooks, NEW p \in Parcels, NEW path, Walk(p, path) \/ OrderDone(p)
  PROVE  /\ Hooks'
         /\ hook'[p].at \in {"walk", "signal"} /\ hook'[p].ev = hook[p].ev
         /\ \A q \in Parcels \ {p} : hook'[q] = hook[q]
<1>1. PICK P : hook \in [Parcels -> HookType(P)]
  BY DEF Hooks
<1>2. CASE Walk(p, path)
  <2> DEFINE a == IF path = <<>> THEN "signal" ELSE "walk"
             h == [hook[p] EXCEPT !.path = path, !.at = a]
  <2>1. hook' = [hook EXCEPT ![p].path = path, ![p].at = a] /\ a \in {"walk", "signal"}
    BY <1>2 DEF Walk
  <2>. HIDE DEF a
  <2>2. hook' = [hook EXCEPT ![p] = h]
    BY <1>1, <2>1
  <2>3. h \in HookType(P \cup {path}) /\ h.at = a /\ h.ev = hook[p].ev
    BY <1>1, <2>1 DEF HookType
  <2>. HIDE DEF h
  <2>4. Hooks' /\ hook'[p] = h /\ \A q \in Parcels \ {p} : hook'[q] = hook[q]
    BY <2>2, <2>3, HookReplaced
  <2>. QED BY <2>1, <2>3, <2>4
<1>3. CASE OrderDone(p)
  <2> DEFINE h == [hook[p] EXCEPT !.at = "signal", !.path = <<>>]
  <2>1. hook' = [hook EXCEPT ![p].at = "signal", ![p].path = <<>>]
    BY <1>3 DEF OrderDone
  <2>2. hook' = [hook EXCEPT ![p] = h]
    BY <1>1, <2>1
  <2>3. h \in HookType(P \cup {<<>>}) /\ h.at = "signal" /\ h.ev = hook[p].ev
    BY <1>1 DEF HookType
  <2>. HIDE DEF h
  <2>. QED BY <2>2, <2>3, HookReplaced
<1>. QED BY <1>2, <1>3

LEMMA AdvancingKeeps ==
  ASSUME ParcelsInv, NEW p \in Parcels,
         \/ AdvanceSkipped(p) \/ AdvanceDirectly(p) \/ AdvanceRefused(p)
         \/ WalkEnds(p) \/ WalkStep(p)
  PROVE  ParcelsInv'
<1>1. /\ hook[p].at \in {"advance", "walk"}
      /\ OrderDone(p) \/ \E path : Walk(p, path)
      /\ UNCHANGED <<row, attempt, truth, sent, mail, cancel, missed, byHand>>
  <2>1. CASE AdvanceSkipped(p) \/ AdvanceDirectly(p)
    BY <2>1 DEF AdvanceSkipped, AdvanceDirectly, world, past
  <2>2. CASE AdvanceRefused(p)
    <3>1. /\ hook[p].at = "advance"
          /\ UNCHANGED <<row, attempt, truth, sent, mail, cancel, missed, byHand>>
      BY <2>2 DEF AdvanceRefused, world, past
    <3>2. OrderDone(p) \/ Walk(p, FindPath[order][Wanted(p)])
      BY <2>2 DEF AdvanceRefused
    <3>. QED BY <3>1, <3>2
  <2>3. CASE WalkEnds(p)
    BY <2>3 DEF WalkEnds, world, past
  <2>4. CASE WalkStep(p)
    BY <2>4 DEF WalkStep, world, past
  <2>. QED BY <2>1, <2>2, <2>3, <2>4
<1>2. /\ Hooks'
      /\ hook'[p].at \in {"walk", "signal"} /\ hook'[p].ev = hook[p].ev
      /\ \A q \in Parcels \ {p} : hook'[q] = hook[q]
  BY <1>1, HookMoved DEF ParcelsInv, Shape
<1>3. hook[p] # NoHook /\ Handled(p)
  BY <1>1, NoHookFields DEF ParcelsInv, ParcelInv
<1>4. Orphaned(p, "picked") => hook'[p].ev # "picked"
  BY <1>2 DEF Lost, Orphaned
<1>. QED BY <1>1, <1>2, <1>3, <1>4, HookKeeps DEF Handled

LEMMA ReceiveKeeps ==
  ASSUME ParcelsInv, NEW p \in Parcels, NEW e \in Events, Receive(p, e)
  PROVE  ParcelsInv'
<1> DEFINE h == [NoHook EXCEPT !.at = "write", !.ev = e]
<1>p. Told(p) /\ Remembered(p) /\ Booking(p)
  BY DEF ParcelsInv, ParcelInv
<1>1. h \in HookType({<<>>}) /\ h.at = "write" /\ h.ev = e
  BY NoHookFields DEF HookType
<1>2. /\ hook' = [hook EXCEPT ![p] = h] /\ hook[p] = NoHook
      /\ e \in mail[p] /\ attempt[p][e] = "none"
      /\ UNCHANGED <<row, truth, sent, mail, cancel, missed, byHand>>
  BY DEF Receive, world, past
<1>a. /\ attempt' \in [Parcels -> [Events -> {"none", "open", "done"}]]
      /\ \A q \in Parcels \ {p} : attempt'[q] = attempt[q]
      /\ \A x \in Events \ {e} : attempt'[p][x] = attempt[p][x]
      /\ attempt'[p][e] \in {"none", "open"}
  <2>1. attempt' = attempt \/ attempt' = [attempt EXCEPT ![p][e] = "open"]
    BY DEF Receive, past
  <2>2. attempt \in [Parcels -> [Events -> {"none", "open", "done"}]]
    BY DEF ParcelsInv, Shape
  <2>. QED BY <1>2, <2>1, <2>2
<1>. HIDE DEF h
<1>3. Hooks' /\ hook'[p] = h /\ \A q \in Parcels \ {p} : hook'[q] = hook[q]
  BY <1>1, <1>2, HookReplaced DEF ParcelsInv, Shape
<1>4. Shape'
  BY <1>2, <1>a, <1>3 DEF ParcelsInv, Shape
<1>5. \A q \in Parcels \ {p} : Untouched(q)
  BY <1>2, <1>a, <1>3 DEF Untouched
<1>6. Told(p)' /\ Booking(p)'
  BY <1>p, <1>2 DEF Told, Booking
<1>7. Handled(p)'
  BY <1>p, <1>1, <1>2, <1>3 DEF Handled, Told
<1>8. Remembered(p)'
  <2>1. "picked" \in Events
    BY DEF Events
  <2>2. attempt'[p]["picked"] = "done" => attempt[p]["picked"] = "done"
    BY <1>a, <2>1
  <2>3. ASSUME Orphaned(p, "picked")
        PROVE  Orphaned(p, "picked")'
    <3>1. attempt[p]["picked"] = "open" /\ e # "picked"
      BY <1>2, <2>3 DEF Lost, Orphaned
    <3>. QED BY <1>1, <1>2, <1>a, <1>3, <2>1, <2>3, <3>1 DEF Lost, Orphaned
  <2>. QED BY <1>p, <1>2, <2>2, <2>3 DEF Remembered, Lost
<1>. QED BY <1>4, <1>5, <1>6, <1>7, <1>8, OneParcel DEF ParcelInv

(* A repeat is dropped: its first handling stamped the row, or its key is  *)
(* all that is left of it.                                                 *)
LEMMA IgnoreRepeatKeeps ==
  ASSUME ParcelsInv, NEW p \in Parcels, NEW e \in Events, IgnoreRepeat(p, e)
  PROVE  ParcelsInv'
<1>p. Told(p) /\ Handled(p) /\ Remembered(p) /\ Booking(p)
  BY DEF ParcelsInv, ParcelInv
<1>1. /\ hook[p] = NoHook /\ attempt[p][e] # "none"
      /\ mail' = [mail EXCEPT ![p] = @ \ {e}]
      /\ UNCHANGED <<row, hook, attempt, truth, sent, cancel, missed, byHand>>
  BY DEF IgnoreRepeat, system, past
<1>2. /\ mail' \in [Parcels -> SUBSET Events] /\ mail'[p] = mail[p] \ {e}
      /\ \A q \in Parcels \ {p} : mail'[q] = mail[q]
  BY <1>1 DEF ParcelsInv, Shape
<1>3. attempt[p][e] \in {"open", "done"}
  BY <1>1 DEF ParcelsInv, Shape
<1>4. Shape'
  BY <1>1, <1>2 DEF ParcelsInv, Shape, Hooks
<1>5. \A q \in Parcels \ {p} : Untouched(q)
  BY <1>1, <1>2 DEF Untouched
<1>6. Told(p)' /\ Handled(p)' /\ Booking(p)'
  BY <1>p, <1>1, <1>2 DEF Told, Handled, Booking
<1>7. Remembered(p)'
  <2>1. CASE e # "picked"
    BY <1>p, <1>1, <1>2, <2>1 DEF Remembered, Lost, Orphaned
  <2>2. CASE e = "picked"
    BY <1>p, <1>1, <1>2, <1>3, <2>2, NoHookFields DEF Remembered, Lost, Orphaned
  <2>. QED BY <2>1, <2>2
<1>. QED BY <1>4, <1>5, <1>6, <1>7, OneParcel DEF ParcelInv

(* The status an event is stored under.                                    *)
Stored(p) == IF hook[p].ev = "cancelled" THEN ResolveCancelled ELSE DispatchOf[hook[p].ev]

LEMMA StoredStatus ==
  ASSUME NEW p \in Parcels, hook[p].ev \in Events
  PROVE  /\ Stored(p) \in DispatchStatuses
         /\ Stored(p) = "PICKUP_FAILED" => hook[p].ev = "pickup_failed"
         /\ Stored(p) = "CANCELLED" => hook[p].ev = "cancelled"
         /\ hook[p].ev = "picked" => Stored(p) \in ImpliesPickup
<1>1. CASE hook[p].ev = "cancelled"
  BY <1>1 DEF Stored, ResolveCancelled, DispatchStatuses
<1>2. CASE hook[p].ev # "cancelled"
  <2>1. hook[p].ev \in {"booked", "picked", "pickup_failed", "delivered", "returning", "home"}
    BY <1>2 DEF Events
  <2>. QED BY <1>2, <2>1 DEF Stored, DispatchOf, DispatchStatuses, ImpliesPickup
<1>. QED BY <1>1, <1>2

LEMMA WriteKeeps ==
  ASSUME ParcelsInv, NEW p \in Parcels, Write(p)
  PROVE  ParcelsInv'
<1>p. Told(p) /\ Handled(p) /\ Remembered(p) /\ Booking(p)
  BY DEF ParcelsInv, ParcelInv
<1>e. hook[p].ev \in Events
  BY <1>p, NoHookFields DEF Write, Handled
<1>d. /\ Stored(p) \in DispatchStatuses
      /\ Stored(p) = "PICKUP_FAILED" => hook[p].ev = "pickup_failed"
      /\ Stored(p) = "CANCELLED" => hook[p].ev = "cancelled"
      /\ hook[p].ev = "picked" => Stored(p) \in ImpliesPickup
  BY <1>e, StoredStatus
<1>1. /\ UNCHANGED <<attempt, truth, sent, mail, cancel, missed, byHand>>
      /\ \E st \in {row[p].st, Stored(p)} :
           row' = [row EXCEPT ![p].st = st, ![p].left = @ \/ Stored(p) \in ImpliesPickup]
      /\ \E at \in {"signal", "advance"} :
           hook' = [hook EXCEPT ![p].st = Stored(p), ![p].at = at]
  BY DEF Write, Stored, world, past
<1>2. /\ row' \in [Parcels -> RowType]
      /\ row'[p].st \in {row[p].st, Stored(p)} /\ row'[p].panel = row[p].panel
      /\ row'[p].left = (row[p].left \/ Stored(p) \in ImpliesPickup)
      /\ \A q \in Parcels \ {p} : row'[q] = row[q]
  <2> DEFINE left == row[p].left \/ Stored(p) \in ImpliesPickup
  <2>1. row \in [Parcels -> RowType] /\ left \in BOOLEAN
    BY DEF ParcelsInv, Shape
  <2>2. PICK st \in {row[p].st, Stored(p)} : row' = [row EXCEPT ![p].st = st, ![p].left = left]
    BY <1>1
  <2>3. st \in DispatchStatuses \cup {"None"}
    BY <1>d, <2>1, <2>2 DEF RowType
  <2>. HIDE DEF left
  <2>4. /\ row' \in [Parcels -> RowType]
        /\ row'[p].st = st /\ row'[p].panel = row[p].panel /\ row'[p].left = left
        /\ \A q \in Parcels \ {p} : row'[q] = row[q]
    BY <2>1, <2>2, <2>3 DEF RowType
  <2>. QED BY <2>2, <2>4 DEF left
<1>3. /\ row[p].left => row'[p].left
      /\ hook[p].ev = "picked" => row'[p].left
  BY <1>d, <1>2
<1>4. /\ Hooks' /\ hook'[p].ev = hook[p].ev
      /\ \A q \in Parcels \ {p} : hook'[q] = hook[q]
  <2>1. PICK P : hook \in [Parcels -> HookType(P)]
    BY DEF ParcelsInv, Shape, Hooks
  <2>2. PICK at \in {"signal", "advance"} :
          hook' = [hook EXCEPT ![p].st = Stored(p), ![p].at = at]
    BY <1>1
  <2> DEFINE h == [hook[p] EXCEPT !.st = Stored(p), !.at = at]
  <2>3. hook' = [hook EXCEPT ![p] = h]
    BY <2>1, <2>2
  <2>4. h \in HookType(P) /\ h.ev = hook[p].ev
    BY <1>d, <2>1, <2>2 DEF HookType
  <2>. HIDE DEF h
  <2>5. Hooks' /\ hook'[p] = h /\ \A q \in Parcels \ {p} : hook'[q] = hook[q]
    BY <2>3, <2>4, HookReplaced DEF ParcelsInv, Shape
  <2>. QED BY <2>4, <2>5
<1>5. Shape'
  BY <1>1, <1>2, <1>4 DEF ParcelsInv, Shape
<1>6. \A q \in Parcels \ {p} : Untouched(q)
  BY <1>1, <1>2, <1>4 DEF Untouched
<1>7. Told(p)'
  BY <1>p, <1>1 DEF Told
<1>8. Handled(p)'
  BY <1>p, <1>e, <1>1, <1>3, <1>4 DEF Handled
<1>9. Remembered(p)'
  BY <1>p, <1>1, <1>3, <1>4 DEF Remembered, Lost, Orphaned
<1>10. Booking(p)'
  <2>1. Stored(p) = "PICKUP_FAILED" => truth[p] = "failed"
    BY <1>p, <1>d DEF Handled, Told
  <2>2. Stored(p) = "CANCELLED" => truth[p] \notin {"none", "booked"}
    BY <1>p, <1>d DEF Handled, Told
  <2>. QED BY <1>p, <1>1, <1>2, <2>1, <2>2 DEF Booking
<1>. QED BY <1>5, <1>6, <1>7, <1>8, <1>9, <1>10, OneParcel DEF ParcelInv

(* An event answered 404 is gone, and known to be missed.                  *)
LEMMA NotFoundKeeps ==
  ASSUME ParcelsInv, NEW p \in Parcels, NotFound(p)
  PROVE  ParcelsInv'
<1>p. Told(p) /\ Handled(p) /\ Remembered(p) /\ Booking(p)
  BY DEF ParcelsInv, ParcelInv
<1> DEFINE e == hook[p].ev
<1>e. e \in Events
  BY <1>p, NoHookFields DEF NotFound, Handled
<1>1. /\ hook' = [hook EXCEPT ![p] = NoHook]
      /\ mail' = [mail EXCEPT ![p] = @ \ {e}]
      /\ missed' = [missed EXCEPT ![p] = @ \cup {e}]
      /\ UNCHANGED <<row, attempt, truth, sent, cancel, byHand>>
  BY DEF NotFound
<1>. HIDE DEF e
<1>2. Hooks' /\ hook'[p] = NoHook /\ \A q \in Parcels \ {p} : hook'[q] = hook[q]
  BY <1>1, NoHookFields, HookReplaced DEF ParcelsInv, Shape
<1>3. /\ mail' \in [Parcels -> SUBSET Events] /\ mail'[p] = mail[p] \ {e}
      /\ missed' \in [Parcels -> SUBSET Events] /\ missed'[p] = missed[p] \cup {e}
      /\ \A q \in Parcels \ {p} : mail'[q] = mail[q] /\ missed'[q] = missed[q]
  BY <1>e, <1>1 DEF ParcelsInv, Shape
<1>4. Shape'
  BY <1>1, <1>2, <1>3 DEF ParcelsInv, Shape
<1>5. \A q \in Parcels \ {p} : Untouched(q)
  BY <1>1, <1>2, <1>3 DEF Untouched
<1>6. Told(p)' /\ Booking(p)'
  BY <1>p, <1>1, <1>3 DEF Told, Booking
<1>7. Handled(p)'
  BY <1>2, NoHookFields DEF Handled
<1>8. Remembered(p)'
  BY <1>p, <1>1, <1>2, <1>3, NoHookFields DEF Remembered, Lost, Orphaned
<1>. QED BY <1>4, <1>5, <1>6, <1>7, <1>8, OneParcel DEF ParcelInv

LEMMA AnswerKeeps ==
  ASSUME ParcelsInv, NEW p \in Parcels, Answer(p)
  PROVE  ParcelsInv'
<1>p. Told(p) /\ Handled(p) /\ Remembered(p) /\ Booking(p)
  BY DEF ParcelsInv, ParcelInv
<1> DEFINE e == hook[p].ev
<1>e. e \in Events /\ (e = "picked" => row[p].left \/ p \in byHand)
  BY <1>p, NoHookFields DEF Answer, Handled
<1>1. /\ hook' = [hook EXCEPT ![p] = NoHook]
      /\ attempt' = attempt \/ attempt' = [attempt EXCEPT ![p][e] = "done"]
      /\ mail' = [mail EXCEPT ![p] = @ \ {e}]
      /\ UNCHANGED <<row, truth, sent, cancel, missed, byHand>>
  BY DEF Answer, past
<1>. HIDE DEF e
<1>2. Hooks' /\ hook'[p] = NoHook /\ \A q \in Parcels \ {p} : hook'[q] = hook[q]
  BY <1>1, NoHookFields, HookReplaced DEF ParcelsInv, Shape
<1>3. /\ attempt' \in [Parcels -> [Events -> {"none", "open", "done"}]]
      /\ \A q \in Parcels \ {p} : attempt'[q] = attempt[q]
      /\ \A x \in Events \ {e} : attempt'[p][x] = attempt[p][x]
  <2>1. attempt \in [Parcels -> [Events -> {"none", "open", "done"}]]
    BY DEF ParcelsInv, Shape
  <2>2. attempt' = attempt \/ attempt' = [attempt EXCEPT ![p][e] = "done"]
    BY <1>1
  <2>. QED BY <1>e, <2>1, <2>2
<1>4. /\ mail' \in [Parcels -> SUBSET Events] /\ mail'[p] = mail[p] \ {e}
      /\ \A q \in Parcels \ {p} : mail'[q] = mail[q]
  BY <1>1 DEF ParcelsInv, Shape
<1>5. Shape'
  BY <1>1, <1>2, <1>3, <1>4 DEF ParcelsInv, Shape
<1>6. \A q \in Parcels \ {p} : Untouched(q)
  BY <1>1, <1>2, <1>3, <1>4 DEF Untouched
<1>7. Told(p)' /\ Booking(p)'
  BY <1>p, <1>1, <1>4 DEF Told, Booking
<1>8. Handled(p)'
  BY <1>2, NoHookFields DEF Handled
<1>9. Remembered(p)'
  <2>1. CASE e = "picked"
    BY <1>e, <1>1, <2>1 DEF Remembered
  <2>2. CASE e # "picked"
    <3>1. "picked" \in Events
      BY DEF Events
    <3>. QED BY <1>p, <1>1, <1>2, <1>3, <1>4, <2>2, <3>1, NoHookFields DEF Remembered, Lost, Orphaned
  <2>. QED BY <2>1, <2>2
<1>. QED BY <1>5, <1>6, <1>7, <1>8, <1>9, OneParcel DEF ParcelInv

-----------------------------------------------------------------------------
(* The cancellation.                                                       *)

LEMMA CancelGateKeeps ==
  ASSUME ParcelsInv, CancelGate
  PROVE  ParcelsInv'
<1>1. UNCHANGED <<row, hook, attempt, truth, sent, mail, missed, byHand>>
  BY DEF CancelGate, world, past
<1>2. /\ cancel' \in [on : BOOLEAN, plan : [Parcels -> Plans]]
      /\ \A q \in Parcels : /\ cancel'.plan[q] # "pushed"
                            /\ cancel'.plan[q] = "failed" => row[q].st = "PICKUP_FAILED"
  BY DEF CancelGate, Plans
<1>3. Shape'
  BY <1>1, <1>2 DEF ParcelsInv, Shape, Hooks
<1>4. ASSUME NEW q \in Parcels
      PROVE  ParcelInv(q)'
  <2>p. Told(q) /\ Handled(q) /\ Remembered(q) /\ Booking(q)
    BY DEF ParcelsInv, ParcelInv
  <2>1. Told(q)' /\ Handled(q)' /\ Remembered(q)'
    BY <2>p, <1>1 DEF Told, Handled, Remembered, Lost, Orphaned
  <2>2. Booking(q)'
    BY <2>p, <1>1, <1>2 DEF Booking
  <2>. QED BY <2>1, <2>2 DEF ParcelInv
<1>. QED BY <1>3, <1>4 DEF ParcelsInv

LEMMA CancelPushKeeps ==
  ASSUME ParcelsInv, NEW p \in Parcels, CancelPush(p)
  PROVE  ParcelsInv'
<1>1. Travels(p, "booked", "dead", "cancelled") /\ UNCHANGED <<row, hook, attempt, missed, byHand>>
  BY DEF CancelPush, Travels, past
<1>2. /\ cancel' \in [on : BOOLEAN, plan : [Parcels -> Plans]]
      /\ \A q \in Parcels : cancel'.plan[q] \in {cancel.plan[q], "out"}
                              \/ (q = p /\ cancel'.plan[q] = "pushed")
  <2>1. \/ cancel' = NoCancel
        \/ \E plan \in {"pushed", "out"} : cancel' = [cancel EXCEPT !.plan[p] = plan]
    BY DEF CancelPush
  <2>2. cancel \in [on : BOOLEAN, plan : [Parcels -> Plans]]
    BY DEF ParcelsInv, Shape
  <2>3. CASE cancel' = NoCancel
    BY <2>3, NoCancelPlan
  <2>4. CASE \E plan \in {"pushed", "out"} : cancel' = [cancel EXCEPT !.plan[p] = plan]
    BY <2>2, <2>4 DEF Plans
  <2>. QED BY <2>1, <2>3, <2>4
<1>. QED BY <1>1, <1>2, TravelKeeps DEF Events

(* What the transaction makes of the rows.                                 *)
LEMMA AppliedRow ==
  ASSUME ParcelsInv, NEW p \in Parcels, ~ToPush(p)
  PROVE  /\ Applied(p) \in RowType
         /\ Applied(p).left = row[p].left
         /\ \/ Applied(p) = row[p]
            \/ /\ Applied(p).st = "CANCELLED"
               /\ \/ Applied(p).panel = "none" /\ cancel.plan[p] = "pushed"
                  \/ Applied(p).panel = "confirmed"
                       /\ (cancel.plan[p] = "failed" \/ row[p].panel = "confirmed")
                  \/ Applied(p).panel = "owed"
<1>1. row[p] \in RowType /\ cancel.plan[p] \in {"out", "pushed", "manual", "failed"}
  BY DEF ParcelsInv, Shape, Plans, ToPush
<1>2. CASE cancel.plan[p] = "out" \/ row[p].st = "CANCELLED"
  BY <1>1, <1>2 DEF Applied
<1>3. CASE ~(cancel.plan[p] = "out" \/ row[p].st = "CANCELLED")
  <2> DEFINE panel == CASE cancel.plan[p] = "pushed" -> "none"
                        [] cancel.plan[p] = "failed" -> "confirmed"
                        [] OTHER -> IF row[p].panel = "confirmed" THEN row[p].panel ELSE "owed"
  <2>1. Applied(p) = [row[p] EXCEPT !.st = "CANCELLED", !.panel = panel]
    BY <1>3 DEF Applied
  <2>2. \/ panel = "none" /\ cancel.plan[p] = "pushed"
        \/ panel = "confirmed" /\ (cancel.plan[p] = "failed" \/ row[p].panel = "confirmed")
        \/ panel = "owed"
    BY <1>1, <1>3
  <2>. HIDE DEF panel
  <2>3. panel \in {"none", "owed", "confirmed"}
    BY <2>2
  <2>4. /\ [row[p] EXCEPT !.st = "CANCELLED", !.panel = panel] \in RowType
        /\ [row[p] EXCEPT !.st = "CANCELLED", !.panel = panel].st = "CANCELLED"
        /\ [row[p] EXCEPT !.st = "CANCELLED", !.panel = panel].panel = panel
        /\ [row[p] EXCEPT !.st = "CANCELLED", !.panel = panel].left = row[p].left
    BY <1>1, <2>3 DEF RowType, DispatchStatuses
  <2>. QED BY <2>1, <2>2, <2>4
<1>. QED BY <1>2, <1>3

LEMMA CancelCommitKeeps ==
  ASSUME ParcelsInv, CancelCommit
  PROVE  ParcelsInv'
<1>1. /\ row' = [p \in Parcels |-> Applied(p)] /\ cancel' = NoCancel
      /\ \A p \in Parcels : ~ToPush(p)
      /\ UNCHANGED <<hook, attempt, truth, sent, mail, missed, byHand>>
  BY DEF CancelCommit, world, past
<1>2. \A p \in Parcels : Applied(p) \in RowType
  BY <1>1, AppliedRow
<1>3. Shape'
  BY <1>1, <1>2, NoCancelPlan DEF ParcelsInv, Shape, Hooks
<1>4. ASSUME NEW q \in Parcels
      PROVE  ParcelInv(q)'
  <2>p. Told(q) /\ Handled(q) /\ Remembered(q) /\ Booking(q)
    BY DEF ParcelsInv, ParcelInv
  <2>1. /\ row'[q].left = row[q].left
        /\ \/ row'[q] = row[q]
           \/ /\ row'[q].st = "CANCELLED"
              /\ \/ row'[q].panel = "none" /\ cancel.plan[q] = "pushed"
                 \/ row'[q].panel = "confirmed"
                      /\ (cancel.plan[q] = "failed" \/ row[q].panel = "confirmed")
                 \/ row'[q].panel = "owed"
    BY <1>1, AppliedRow
  <2>2. Told(q)' /\ Handled(q)' /\ Remembered(q)'
    BY <2>p, <1>1, <2>1 DEF Told, Handled, Remembered, Lost, Orphaned
  <2>3. Booking(q)'
    BY <2>p, <1>1, <2>1, NoCancelPlan DEF Booking
  <2>. QED BY <2>2, <2>3 DEF ParcelInv
<1>. QED BY <1>3, <1>4 DEF ParcelsInv

LEMMA CancelEndsKeep ==
  ASSUME ParcelsInv, CancelAborts \/ \E p \in Parcels : CancelRefused(p)
  PROVE  ParcelsInv'
<1>1. cancel' = NoCancel /\ UNCHANGED <<row, hook, attempt, truth, sent, mail, missed, byHand>>
  BY DEF CancelAborts, CancelRefused, world, past
<1>2. Shape'
  BY <1>1, NoCancelPlan DEF ParcelsInv, Shape, Hooks
<1>3. \A q \in Parcels : Untouched(q)
  BY <1>1, NoCancelPlan DEF Untouched
<1>. QED BY <1>2, <1>3, NoParcel

-----------------------------------------------------------------------------
(* Staff.                                                                  *)

(* Rows become RETURNED, or a panel cancellation is confirmed.             *)
LEMMA StaffRowsKeep ==
  ASSUME ParcelsInv, MarkReceived \/ \E p \in Parcels : ConfirmPanel(p)
  PROVE  ParcelsInv'
<1>1. UNCHANGED <<cancel, hook, attempt, truth, sent, mail, missed, byHand>>
  BY DEF MarkReceived, ConfirmPanel, world, past
<1>2. /\ row' \in [Parcels -> RowType]
      /\ \A q \in Parcels :
           /\ row'[q].left = row[q].left
           /\ \/ row'[q] = row[q]
              \/ row'[q].st = "RETURNED" /\ row'[q].panel = row[q].panel
              \/ row'[q].st = "CANCELLED" /\ row'[q].panel = "confirmed" /\ truth[q] = "dead"
  <2>1. row \in [Parcels -> RowType]
    BY DEF ParcelsInv, Shape
  <2>2. CASE MarkReceived
    <3>1. ASSUME NEW q \in Parcels
          PROVE  /\ row'[q] \in RowType /\ row'[q].left = row[q].left
                 /\ \/ row'[q] = row[q]
                    \/ row'[q].st = "RETURNED" /\ row'[q].panel = row[q].panel
      <4>1. row'[q] = row[q] \/ row'[q] = [row[q] EXCEPT !.st = "RETURNED"]
        BY <2>2 DEF MarkReceived, past
      <4>. QED BY <2>1, <4>1 DEF RowType, DispatchStatuses
    <3>2. row' = [q \in Parcels |-> row'[q]]
      BY <2>2 DEF MarkReceived, past
    <3>. QED BY <3>1, <3>2
  <2>3. CASE \E p \in Parcels : ConfirmPanel(p)
    BY <2>1, <2>3 DEF ConfirmPanel, RowType, past
  <2>. QED BY <2>2, <2>3
<1>3. Shape'
  BY <1>1, <1>2 DEF ParcelsInv, Shape, Hooks
<1>4. ASSUME NEW q \in Parcels
      PROVE  ParcelInv(q)'
  <2>p. Told(q) /\ Handled(q) /\ Remembered(q) /\ Booking(q)
    BY DEF ParcelsInv, ParcelInv
  <2>1. Told(q)' /\ Handled(q)' /\ Remembered(q)'
    BY <2>p, <1>1, <1>2 DEF Told, Handled, Remembered, Lost, Orphaned
  <2>2. Booking(q)'
    BY <2>p, <1>1, <1>2 DEF Booking
  <2>. QED BY <2>1, <2>2 DEF ParcelInv
<1>. QED BY <1>3, <1>4 DEF ParcelsInv

LEMMA StaffOrderKeeps ==
  ASSUME ParcelsInv,
         (\E to \in {"Packed", "Shipping"} : Forward(to)) \/ Revive \/ CreateReturn \/ CloseReturn
  PROVE  ParcelsInv'
<1>1. UNCHANGED <<row, cancel, hook, attempt, truth, sent, mail, missed, byHand>>
  BY DEF Forward, Revive, CreateReturn, CloseReturn, world, past
<1>2. Shape'
  BY <1>1 DEF ParcelsInv, Shape, Hooks
<1>3. \A q \in Parcels : Untouched(q)
  BY <1>1 DEF Untouched
<1>. QED BY <1>2, <1>3, NoParcel

-----------------------------------------------------------------------------
(* The board.                                                              *)

(* A status set by hand stamps the row, or shuts it on staff's word.       *)
LEMMA BoardSetKeeps ==
  ASSUME ParcelsInv, NEW p \in Parcels, NEW to \in BoardSets, BoardSet(p, to)
  PROVE  ParcelsInv'
<1>p. Told(p) /\ Handled(p) /\ Remembered(p) /\ Booking(p)
  BY DEF ParcelsInv, ParcelInv
<1>1. /\ UNCHANGED <<hook, attempt, truth, sent, mail, cancel, missed>>
      /\ row' = [row EXCEPT ![p].st = to, ![p].left = @ \/ to \in StampsPossession]
      /\ byHand' = IF to \in {"CANCELLED", "PICKUP_FAILED"} THEN byHand \cup {p} ELSE byHand
  BY DEF BoardSet, world
<1>2. /\ row' \in [Parcels -> RowType]
      /\ row'[p].st = to /\ row'[p].panel = row[p].panel
      /\ row[p].left => row'[p].left
      /\ \A q \in Parcels \ {p} : row'[q] = row[q]
  <2> DEFINE left == row[p].left \/ to \in StampsPossession
  <2>1. row \in [Parcels -> RowType] /\ left \in BOOLEAN /\ to \in DispatchStatuses
    BY CourierAssumption DEF ParcelsInv, Shape
  <2>2. row' = [row EXCEPT ![p].st = to, ![p].left = left] /\ (row[p].left => left)
    BY <1>1
  <2>. HIDE DEF left
  <2>. QED BY <2>1, <2>2 DEF RowType
<1>3. byHand' \in SUBSET Parcels /\ byHand \subseteq byHand'
  BY <1>1 DEF ParcelsInv, Shape
<1>4. Shape'
  BY <1>1, <1>2, <1>3 DEF ParcelsInv, Shape, Hooks
<1>5. \A q \in Parcels \ {p} : Untouched(q)
  BY <1>1, <1>2, <1>3 DEF Untouched
<1>6. Told(p)' /\ Handled(p)' /\ Remembered(p)'
  BY <1>p, <1>1, <1>2, <1>3 DEF Told, Handled, Remembered, Lost, Orphaned
<1>7. Booking(p)'
  BY <1>p, <1>1, <1>2, <1>3 DEF Booking
<1>. QED BY <1>4, <1>5, <1>6, <1>7, OneParcel DEF ParcelInv

LEMMA DeleteRowKeeps ==
  ASSUME ParcelsInv, NEW p \in Parcels, DeleteRow(p)
  PROVE  ParcelsInv'
<1>p. Told(p) /\ Handled(p)
  BY DEF ParcelsInv, ParcelInv
<1>1. /\ UNCHANGED <<hook, attempt, truth, sent, mail, missed>>
      /\ row' = [row EXCEPT ![p] = NoRow]
      /\ \E plan \in {"gone", "out"} : cancel' = [cancel EXCEPT !.plan[p] = plan]
      /\ byHand' = byHand \cup {p}
  BY DEF DeleteRow, world
<1>2. /\ row' \in [Parcels -> RowType]
      /\ \A q \in Parcels \ {p} : row'[q] = row[q]
  BY <1>1 DEF ParcelsInv, Shape, NoRow, RowType
<1>3. /\ cancel' \in [on : BOOLEAN, plan : [Parcels -> Plans]]
      /\ \A q \in Parcels \ {p} : cancel'.plan[q] = cancel.plan[q]
  <2>1. PICK plan \in {"gone", "out"} : cancel' = [cancel EXCEPT !.plan[p] = plan]
    BY <1>1
  <2>2. cancel \in [on : BOOLEAN, plan : [Parcels -> Plans]]
    BY DEF ParcelsInv, Shape
  <2>3. plan \in Plans
    BY DEF Plans
  <2>. QED BY <2>1, <2>2, <2>3
<1>4. byHand' \in SUBSET Parcels /\ byHand \subseteq byHand' /\ p \in byHand'
  BY <1>1 DEF ParcelsInv, Shape
<1>5. Shape'
  BY <1>1, <1>2, <1>3, <1>4 DEF ParcelsInv, Shape, Hooks
<1>6. \A q \in Parcels \ {p} : Untouched(q)
  BY <1>1, <1>2, <1>3, <1>4 DEF Untouched
<1>7. Told(p)' /\ Handled(p)'
  BY <1>p, <1>1, <1>4 DEF Told, Handled
<1>8. Remembered(p)' /\ Booking(p)'
  BY <1>4 DEF Remembered, Booking
<1>. QED BY <1>5, <1>6, <1>7, <1>8, OneParcel DEF ParcelInv

LEMMA BoardOrderKeeps ==
  ASSUME ParcelsInv, BoardRead \/ BoardWrite \/ BoardDies
  PROVE  ParcelsInv'
<1>1. UNCHANGED <<row, cancel, hook, attempt, truth, sent, mail, missed, byHand>>
  BY DEF BoardRead, BoardWrite, BoardDies, world, past
<1>2. Shape'
  BY <1>1 DEF ParcelsInv, Shape, Hooks
<1>3. \A q \in Parcels : Untouched(q)
  BY <1>1 DEF Untouched
<1>. QED BY <1>2, <1>3, NoParcel

-----------------------------------------------------------------------------
LEMMA ParcelsInvInitially == Init => ParcelsInv
<1>. SUFFICES ASSUME Init
              PROVE  ParcelsInv
  OBVIOUS
<1>1. row \in [Parcels -> RowType] /\ cancel \in [on : BOOLEAN, plan : [Parcels -> Plans]]
  BY NoCancelPlan DEF Init, NoRow, RowType
<1>2. Hooks
  <2>1. hook \in [Parcels -> HookType({<<>>})]
    BY NoHookFields DEF Init
  <2>. QED BY <2>1 DEF Hooks
<1>3. Shape
  BY <1>1, <1>2 DEF Init, Shape, Truths
<1>4. ASSUME NEW p \in Parcels
      PROVE  ParcelInv(p)
  <2>1. Told(p) /\ Handled(p)
    BY NoHookFields DEF Init, Told, Handled
  <2>2. Remembered(p)
    BY DEF Init, Remembered, Events
  <2>3. Booking(p)
    BY NoCancelPlan DEF Init, Booking, NoRow
  <2>. QED BY <2>1, <2>2, <2>3 DEF ParcelInv
<1>. QED BY <1>3, <1>4 DEF ParcelsInv

LEMMA ParcelsInvKept ==
  ASSUME ParcelsInv, [Next]_vars
  PROVE  ParcelsInv'
<1>1. CASE UNCHANGED vars
  <2>1. UNCHANGED <<row, cancel, hook, attempt, truth, sent, mail, missed, byHand>>
    BY <1>1 DEF vars, system, world, past
  <2>2. Shape'
    BY <2>1 DEF ParcelsInv, Shape, Hooks
  <2>3. \A q \in Parcels : Untouched(q)
    BY <2>1 DEF Untouched
  <2>. QED BY <2>2, <2>3, NoParcel
<1>2. CASE \E p \in Parcels : CourierMoves(p) \/ Sync(p) \/ Rerun(p) \/ Crash(p)
  BY <1>2, CourierMovesKeep, SyncKeeps, RerunKeeps, CrashKeeps
<1>3. CASE \E p \in Parcels : Handle(p)
  BY <1>3, WriteKeeps, NotFoundKeeps, AdvancingKeeps, AnswerKeeps DEF Handle
<1>4. CASE \E p \in Parcels, e \in Events : Deliver(p, e) \/ Redeliver(p, e)
  BY <1>4, ReceiveKeeps, IgnoreRepeatKeeps, RedeliverKeeps DEF Deliver
<1>5. CASE \E p \in Parcels : Cancelling(p)
  BY <1>5, CancelPushKeeps, CancelEndsKeep, PanelCancelKeeps, StaffRowsKeep DEF Cancelling
<1>6. CASE CancelGate \/ CancelAborts \/ CancelCommit
  BY <1>6, CancelGateKeeps, CancelEndsKeep, CancelCommitKeeps
<1>7. CASE (\E to \in {"Packed", "Shipping"} : Forward(to)) \/ Revive
             \/ CreateReturn \/ MarkReceived \/ CloseReturn
  BY <1>7, StaffOrderKeeps, StaffRowsKeep
<1>8. CASE \/ \E p \in Parcels : DeleteRow(p) \/ \E to \in BoardSets : BoardSet(p, to)
           \/ BoardRead \/ BoardWrite \/ BoardDies
  BY <1>8, BoardSetKeeps, DeleteRowKeeps, BoardOrderKeeps
<1>. QED BY <1>1, <1>2, <1>3, <1>4, <1>5, <1>6, <1>7, <1>8 DEF Next, Proceed

(* For any parcels, couriers, events and faults: a dispatch shown as       *)
(* CANCELLED never hides a parcel that is alive at its courier, whatever   *)
(* overlapped with the cancellation, got lost, or came twice or too late:  *)
(* staff owe the panel, the row is stamped, or the courier's word of the   *)
(* pickup is on its way or lost.  Only what staff set CANCELLED or         *)
(* PICKUP_FAILED on the board, or whose row they deleted, is excepted.     *)
THEOREM NoParcelHidden ==
  Spec => []CancelledHidesNoParcel
BY InvHidesNoParcel, ParcelsInvInitially, ParcelsInvKept, PTL DEF Spec

-----------------------------------------------------------------------------
(* The ways a webhook walks an order along.                                *)

(* Within and Way are what their definitions say: a function that satisfies *)
(* each is put together step by step.                                      *)
Further(a) ==
  [to \in OrderStatuses |->
     a[to] \cup {s \in OrderStatuses : StepNext[s] \cap a[to] # {}}]

LEMMA WithinUnfolds ==
  /\ Within[0] = [to \in OrderStatuses |-> {to}]
  /\ \A n \in 1..5 : Within[n] = Further(Within[n - 1])
<1> DEFINE a0 == [to \in OrderStatuses |-> {to}]
           a1 == Further(a0)
           a2 == Further(a1)
           a3 == Further(a2)
           a4 == Further(a3)
           a5 == Further(a4)
           f == [n \in 0..5 |-> CASE n = 0 -> a0 [] n = 1 -> a1 [] n = 2 -> a2
                                  [] n = 3 -> a3 [] n = 4 -> a4 [] n = 5 -> a5]
           Body(g, n) == [to \in OrderStatuses |->
                            IF n = 0 THEN {to}
                            ELSE LET near == g[n - 1][to]
                                 IN  near \cup {s \in OrderStatuses : StepNext[s] \cap near # {}}]
<1>1. /\ a1 = Further(a0) /\ a2 = Further(a1) /\ a3 = Further(a2)
      /\ a4 = Further(a3) /\ a5 = Further(a4)
  OBVIOUS
<1>2. \A g : Body(g, 0) = a0
  OBVIOUS
<1>3. \A g : \A n \in 1..5 : Body(g, n) = Further(g[n - 1])
  BY DEF Further
<1>. HIDE DEF a0, a1, a2, a3, a4, a5, Body
<1>4. \A n \in 0..5 : f[n] = Body(f, n)
  <2>1. /\ f[0] = a0 /\ f[1] = a1 /\ f[2] = a2
        /\ f[3] = a3 /\ f[4] = a4 /\ f[5] = a5
    OBVIOUS
  <2>. HIDE DEF f
  <2>a. \A n \in 1..5 : Body(f, n) = Further(f[n - 1])
    BY <1>3
  <2>b. /\ Body(f, 1) = Further(f[0]) /\ Body(f, 2) = Further(f[1])
        /\ Body(f, 3) = Further(f[2]) /\ Body(f, 4) = Further(f[3])
        /\ Body(f, 5) = Further(f[4])
    <3>. \A m \in 0..4 : Body(f, m + 1) = Further(f[m])
      BY <2>a
    <3>. QED OBVIOUS
  <2>2. /\ f[0] = Body(f, 0) /\ f[1] = Body(f, 1) /\ f[2] = Body(f, 2)
        /\ f[3] = Body(f, 3) /\ f[4] = Body(f, 4) /\ f[5] = Body(f, 5)
    BY <1>1, <1>2, <2>b, <2>1
  <2>. QED BY <2>2
<1>5. f = [n \in 0..5 |-> Body(f, n)]
  <2>1. f = [n \in 0..5 |-> f[n]]
    OBVIOUS
  <2>. HIDE DEF f
  <2>. QED BY <1>4, <2>1
<1>. HIDE DEF f
<1>6. \E g : g = [n \in 0..5 |-> Body(g, n)]
  BY <1>5
<1>7. Within = CHOOSE g : g = [n \in 0..5 |-> Body(g, n)]
  BY DEF Within, Body
<1>8. Within = [n \in 0..5 |-> Body(Within, n)]
  BY <1>6, <1>7
<1>9. Within[0] = a0 /\ \A n \in 1..5 : Within[n] = Body(Within, n)
  BY <1>2, <1>8
<1>. QED BY <1>3, <1>9 DEF a0

(* The ways one step longer than those of w.                               *)
Longer(n, w) ==
  [from \in OrderStatuses |->
     [to \in OrderStatuses |->
        IF from = to \/ from \notin Within[n][to] THEN <<>>
        ELSE IF from \in Within[n - 1][to] THEN w[from][to]
        ELSE LET t == CHOOSE x \in StepNext[from] : x \in Within[n - 1][to]
             IN  <<t>> \o w[t][to]]]

LEMMA WayUnfolds ==
  /\ Way[0] = [from \in OrderStatuses |-> [to \in OrderStatuses |-> <<>>]]
  /\ \A n \in 1..5 : Way[n] = Longer(n, Way[n - 1])
<1> DEFINE w0 == [from \in OrderStatuses |-> [to \in OrderStatuses |-> <<>>]]
           w1 == Longer(1, w0)
           w2 == Longer(2, w1)
           w3 == Longer(3, w2)
           w4 == Longer(4, w3)
           w5 == Longer(5, w4)
           f == [n \in 0..5 |-> CASE n = 0 -> w0 [] n = 1 -> w1 [] n = 2 -> w2
                                  [] n = 3 -> w3 [] n = 4 -> w4 [] n = 5 -> w5]
           Body(g, n) == Longer(n, g[n - 1])
<1>1. /\ w1 = Longer(1, w0) /\ w2 = Longer(2, w1) /\ w3 = Longer(3, w2)
      /\ w4 = Longer(4, w3) /\ w5 = Longer(5, w4)
  OBVIOUS
<1>2. \A g : Body(g, 0) = w0
  <2>1. \A to \in OrderStatuses : Within[0][to] = {to}
    BY WithinUnfolds
  <2>2. ASSUME NEW g
        PROVE  Longer(0, g[0 - 1]) = w0
    <3>1. \A from, to \in OrderStatuses : from = to \/ from \notin Within[0][to]
      BY <2>1
    <3>. QED BY <3>1, Zenon DEF Longer
  <2>. QED BY <2>2
<1>3. \A g : \A n \in 1..5 : Body(g, n) = Longer(n, g[n - 1])
  OBVIOUS
<1>. HIDE DEF w0, w1, w2, w3, w4, w5, Body
<1>4. \A n \in 0..5 : f[n] = Body(f, n)
  <2>1. /\ f[0] = w0 /\ f[1] = w1 /\ f[2] = w2
        /\ f[3] = w3 /\ f[4] = w4 /\ f[5] = w5
    OBVIOUS
  <2>. HIDE DEF f
  <2>2. \A m \in 0..4 : Body(f, m + 1) = Longer(m + 1, f[m])
    BY <1>3
  <2>3. /\ Body(f, 1) = Longer(1, f[0]) /\ Body(f, 2) = Longer(2, f[1])
        /\ Body(f, 3) = Longer(3, f[2]) /\ Body(f, 4) = Longer(4, f[3])
        /\ Body(f, 5) = Longer(5, f[4])
    BY <2>2
  <2>4. /\ f[0] = Body(f, 0) /\ f[1] = Body(f, 1) /\ f[2] = Body(f, 2)
        /\ f[3] = Body(f, 3) /\ f[4] = Body(f, 4) /\ f[5] = Body(f, 5)
    BY <1>1, <1>2, <2>1, <2>3
  <2>. QED BY <2>4
<1>5. f = [n \in 0..5 |-> Body(f, n)]
  <2>1. f = [n \in 0..5 |-> f[n]]
    OBVIOUS
  <2>. HIDE DEF f
  <2>. QED BY <1>4, <2>1
<1>. HIDE DEF f
<1>6. \E g : g = [n \in 0..5 |-> Body(g, n)]
  BY <1>5
<1>7. Way = CHOOSE g : g = [n \in 0..5 |-> Body(g, n)]
  BY DEF Way, Body, Longer
<1>8. Way = [n \in 0..5 |-> Body(Way, n)]
  BY <1>6, <1>7
<1>9. Way[0] = w0
  BY <1>2, <1>8
<1>. QED BY <1>3, <1>8, <1>9 DEF w0

(* What a walk that is not bound for Delivered may pass through.           *)
Avoiding == OrderStatuses \ {"Delivered"}

(* Nothing that leads to Shipping leads through Delivered, and Shipping    *)
(* itself is one step from Return Pending.                                 *)
LEMMA WithinReach ==
  /\ Within[0]["Return Pending"] = {"Return Pending"}
  /\ \A n \in 0..5 : "Delivered" \notin Within[n]["Shipping"]
  /\ \A n \in 1..5 : "Shipping" \in Within[n]["Return Pending"]
<1> DEFINE Before == {"Shipping", "Packed", "Packing Hold", "Confirmed", "Cancelled"}
           P(n) == /\ Within[n]["Shipping"] \subseteq Before
                   /\ "Return Pending" \in Within[n]["Return Pending"]
                   /\ n \in 1..5 => "Shipping" \in Within[n]["Return Pending"]
<1>0. {"Shipping", "Return Pending"} \subseteq OrderStatuses
  BY DEF OrderStatuses
<1>1. P(0) /\ Within[0]["Return Pending"] = {"Return Pending"}
  <2>1. \A to \in OrderStatuses : Within[0][to] = {to}
    BY WithinUnfolds
  <2>2. Within[0]["Shipping"] = {"Shipping"} /\ Within[0]["Return Pending"] = {"Return Pending"}
    BY <1>0, <2>1
  <2>3. Within[0]["Shipping"] \subseteq Before
    BY <2>2
  <2>. HIDE DEF Before
  <2>4. 0 \notin 1..5
    OBVIOUS
  <2>5. P(0)
    BY <2>2, <2>3, <2>4
  <2>. QED BY <2>2, <2>5
<1>2. ASSUME NEW n \in 1..5, P(n - 1)
      PROVE  P(n)
  <2> DEFINE near == Within[n - 1]["Shipping"]
             back == Within[n - 1]["Return Pending"]
  <2>1. /\ Within[n]["Shipping"] = near \cup {s \in OrderStatuses : StepNext[s] \cap near # {}}
        /\ Within[n]["Return Pending"] = back \cup {s \in OrderStatuses : StepNext[s] \cap back # {}}
    BY <1>0, WithinUnfolds DEF Further
  <2>2. near \subseteq Before /\ "Return Pending" \in back
    BY <1>2
  <2>. HIDE DEF near, back
  <2>3. \A s \in OrderStatuses : StepNext[s] \cap Before # {} => s \in Before
    <3>1. SUFFICES ASSUME NEW s \in OrderStatuses, s \notin Before
                   PROVE  StepNext[s] \cap Before = {}
      OBVIOUS
    <3>2. s \in {"Pending", "Payment Pending", "Payment Verifying", "Recall", "No Response",
                 "Hold", "Delivered", "Partial", "Return Pending", "Returned", "Damaged"}
      BY <3>1 DEF OrderStatuses
    <3>. QED BY <3>2 DEF StepNext, OrderStatuses
  <2>4. Within[n]["Shipping"] \subseteq Before
    BY <2>1, <2>2, <2>3
  <2>5. "Return Pending" \in StepNext["Shipping"]
    BY <1>0 DEF StepNext
  <2>6. {"Return Pending", "Shipping"} \subseteq Within[n]["Return Pending"]
    BY <1>0, <2>1, <2>2, <2>5
  <2>. QED BY <2>4, <2>6
<1>. HIDE DEF P
<1>3. \A m \in 0..4 : P(m) => P(m + 1)
  <2>. TAKE m \in 0..4
  <2>1. m + 1 \in 1..5 /\ (m + 1) - 1 = m
    OBVIOUS
  <2>. QED BY <1>2, <2>1
<1>4. P(0) /\ P(1) /\ P(2) /\ P(3) /\ P(4) /\ P(5)
  <2>0. /\ {0, 1, 2, 3, 4} \subseteq 0..4
        /\ 0 + 1 = 1 /\ 1 + 1 = 2 /\ 2 + 1 = 3 /\ 3 + 1 = 4 /\ 4 + 1 = 5
    OBVIOUS
  <2>1. P(1)
    BY <1>1, <1>3, <2>0, Zenon
  <2>2. P(2)
    BY <2>1, <1>3, <2>0, Zenon
  <2>3. P(3)
    BY <2>2, <1>3, <2>0, Zenon
  <2>4. P(4)
    BY <2>3, <1>3, <2>0, Zenon
  <2>5. P(5)
    BY <2>4, <1>3, <2>0, Zenon
  <2>. QED BY <1>1, <2>1, <2>2, <2>3, <2>4, <2>5
<1>5. \A n \in 0..5 : P(n)
  BY <1>4
<1>6. \A n \in 0..5 : "Delivered" \notin Within[n]["Shipping"]
  BY <1>5 DEF P
<1>7. \A n \in 1..5 : "Shipping" \in Within[n]["Return Pending"]
  <2>1. \A n \in 1..5 : n \in 0..5
    OBVIOUS
  <2>. QED BY <1>5, <2>1 DEF P
<1>. QED BY <1>1, <1>6, <1>7

(* A way is made of order statuses, and one that leads to Shipping or back *)
(* to the shop makes no order Delivered.                                   *)
LEMMA WaysAvoidDelivered ==
  \A from, to \in OrderStatuses :
    /\ FindPath[from][to] \in Seq(OrderStatuses)
    /\ to \in {"Shipping", "Return Pending"} => FindPath[from][to] \in Seq(Avoiding)
<1> DEFINE Good(to, w) == /\ w \in Seq(OrderStatuses)
                          /\ to \in {"Shipping", "Return Pending"} => w \in Seq(Avoiding)
           P(n) == \A from, to \in OrderStatuses : Good(to, Way[n][from][to])
<1>1. ASSUME NEW to
      PROVE  Good(to, <<>>)
  OBVIOUS
<1>2. ASSUME NEW to, NEW w, Good(to, w), NEW t \in OrderStatuses,
             to \in {"Shipping", "Return Pending"} => t # "Delivered"
      PROVE  Good(to, <<t>> \o w)
  <2>1. <<t>> \in Seq(OrderStatuses) /\ (t # "Delivered" => <<t>> \in Seq(Avoiding))
    BY DEF Avoiding
  <2>2. <<t>> \o w \in Seq(OrderStatuses)
    BY <1>2, <2>1, ConcatProperties
  <2>3. to \in {"Shipping", "Return Pending"} => <<t>> \o w \in Seq(Avoiding)
    BY <1>2, <2>1, ConcatProperties
  <2>. QED BY <2>2, <2>3
<1>. HIDE DEF Good
<1>3. P(0)
  BY <1>1, WayUnfolds
<1>4. ASSUME NEW n \in 1..5, P(n - 1)
      PROVE  P(n)
  <2>. SUFFICES ASSUME NEW from \in OrderStatuses, NEW to \in OrderStatuses
                PROVE  Good(to, Way[n][from][to])
    OBVIOUS
  <2> DEFINE t == CHOOSE x \in StepNext[from] : x \in Within[n - 1][to]
  <2>1. Way[n][from][to] =
          IF from = to \/ from \notin Within[n][to] THEN <<>>
          ELSE IF from \in Within[n - 1][to] THEN Way[n - 1][from][to]
          ELSE <<t>> \o Way[n - 1][t][to]
    <3>1. Way[n] = Longer(n, Way[n - 1])
      BY WayUnfolds
    <3>. HIDE DEF t
    <3>2. Longer(n, Way[n - 1])[from][to] =
            IF from = to \/ from \notin Within[n][to] THEN <<>>
            ELSE IF from \in Within[n - 1][to] THEN Way[n - 1][from][to]
            ELSE <<t>> \o Way[n - 1][t][to]
      BY Zenon DEF Longer, t
    <3>. QED BY <3>1, <3>2
  <2>2. CASE from = to \/ from \notin Within[n][to]
    BY <1>1, <2>1, <2>2
  <2>3. CASE from # to /\ from \in Within[n][to] /\ from \in Within[n - 1][to]
    <3>1. Way[n][from][to] = Way[n - 1][from][to]
      BY <2>1, <2>3
    <3>. QED BY <1>4, <3>1
  <2>4. CASE from # to /\ from \in Within[n][to] /\ from \notin Within[n - 1][to]
    <3>1. Way[n][from][to] = <<t>> \o Way[n - 1][t][to]
      BY <2>1, <2>4
    <3>2. \E x \in StepNext[from] : x \in Within[n - 1][to]
      <4>1. Within[n][to] =
              Within[n - 1][to] \cup {s \in OrderStatuses : StepNext[s] \cap Within[n - 1][to] # {}}
        BY WithinUnfolds DEF Further
      <4>. QED BY <2>4, <4>1
    <3>3. t \in StepNext[from] /\ t \in Within[n - 1][to]
      BY <3>2
    <3>. HIDE DEF t
    <3>4. t \in OrderStatuses
      BY <3>3 DEF StepNext, OrderStatuses
    <3>5. n - 1 \in 0..5
      OBVIOUS
    <3>6. CASE to = "Shipping"
      <4>1. t # "Delivered"
        BY <3>3, <3>5, <3>6, WithinReach
      <4>. QED BY <1>2, <1>4, <3>1, <3>4, <4>1
    <3>7. CASE to = "Return Pending"
      <4>1. ASSUME t = "Delivered"
            PROVE  FALSE
        <5>1. from = "Shipping"
          BY <3>3, <4>1 DEF StepNext, OrderStatuses
        <5>2. n - 1 = 0
          <6>1. n - 1 \in 1..5 => "Shipping" \in Within[n - 1]["Return Pending"]
            BY WithinReach
          <6>2. n - 1 \notin 1..5
            BY <2>4, <3>7, <5>1, <6>1
          <6>. QED BY <3>5, <6>2
        <5>3. Within[0]["Return Pending"] = {"Return Pending"}
          BY WithinReach
        <5>4. t \in Within[0]["Return Pending"]
          BY <3>3, <3>7, <5>2
        <5>. QED BY <4>1, <5>3, <5>4
      <4>. QED BY <1>2, <1>4, <3>1, <3>4, <4>1
    <3>8. CASE to \notin {"Shipping", "Return Pending"}
      BY <1>2, <1>4, <3>1, <3>4, <3>8
    <3>. QED BY <3>6, <3>7, <3>8
  <2>. QED BY <2>2, <2>3, <2>4
<1>. HIDE DEF P
<1>5. \A m \in 0..4 : P(m) => P(m + 1)
  <2>. TAKE m \in 0..4
  <2>1. m + 1 \in 1..5 /\ (m + 1) - 1 = m
    OBVIOUS
  <2>. QED BY <1>4, <2>1
<1>6. P(5)
  BY <1>3, <1>5
<1>. QED BY <1>6 DEF P, Good, FindPath

-----------------------------------------------------------------------------
(* An order is Delivered because a courier said so: a hook that wants it   *)
(* there speaks of a delivery, and no other walks it through Delivered.    *)

ReturnType ==
  [st : {"None", "REQUESTED", "IN_TRANSIT", "DELIVERED", "RESTOCKED", "CLOSED"},
   by : Parcels \cup {"None"}]
SpentType ==
  [update : 0..MaxFaults, other : 0..MaxFaults, calls : 0..MaxCalls,
   revived : BOOLEAN, putBack : BOOLEAN]

(* What a hook of p knows, and the statuses it still has to walk through.  *)
Speaks(p) ==
  /\ "delivered" \in sent[p] => truth[p] = "delivered"
  /\ hook[p].ev = "delivered" => "delivered" \in sent[p]
  /\ hook[p].st = "DELIVERED" => hook[p].ev = "delivered"
  /\ hook[p].at = "write" => hook[p].path = <<>>
  /\ hook[p].at = "advance" => Wanted(p) # "None"
  /\ hook[p].at = "walk" => hook[p].path # <<>>
  /\ hook[p].path \in Seq(OrderStatuses)
  /\ Wanted(p) # "Delivered" => hook[p].path \in Seq(Avoiding)

DeliveryInv ==
  /\ order \in OrderStatuses /\ ret \in ReturnType /\ spent \in SpentType
  /\ \A p \in Parcels : Speaks(p)

(* What the order says of its courier, and what a board call carries.      *)
BoardTyped ==
  /\ ref \in [con : Parcels \cup {"None"}, kind : {"None", "api", "panel"}]
  /\ board \in DispatchStatuses \cup OrderStatuses \cup {"None"}

LEMMA DeliveryInvTyped ==
  ASSUME ParcelsInv, DeliveryInv, BoardTyped
  PROVE  TypeOK
<1>1. hook \in [Parcels -> HookType(Seq(OrderStatuses))]
  <2>1. PICK P : hook \in [Parcels -> HookType(P)]
    BY DEF ParcelsInv, Shape, Hooks
  <2>2. ASSUME NEW p \in Parcels
        PROVE  hook[p] \in HookType(Seq(OrderStatuses))
    <3>1. hook[p] \in HookType(P) /\ hook[p].path \in Seq(OrderStatuses)
      BY <2>1 DEF DeliveryInv, Speaks
    <3>. QED BY <3>1 DEF HookType
  <2>. QED BY <2>1, <2>2
<1>2. order \in OrderStatuses /\ ret \in ReturnType /\ spent \in SpentType
  BY DEF DeliveryInv
<1>. QED BY <1>1, <1>2
     DEF ParcelsInv, Shape, TypeOK, HookType, RowType, Plans, ReturnType, SpentType, BoardTyped

LEMMA SpentTyped ==
  ASSUME spent \in SpentType,
         \/ UNCHANGED spent \/ Fault("update") \/ Fault("other") \/ Call
         \/ spent' = [spent EXCEPT !.revived = TRUE]
         \/ \E b \in BOOLEAN : spent' = [spent EXCEPT !.putBack = b]
  PROVE  spent' \in SpentType
<1>1. MaxFaults \in Nat /\ MaxCalls \in Nat
  BY CourierAssumption
<1>2. CASE Fault("update")
  <2>1. spent.update + 1 \in 0..MaxFaults
    BY <1>1, <1>2 DEF Fault, SpentType
  <2>. QED BY <1>2, <2>1 DEF Fault, SpentType
<1>3. CASE Fault("other")
  <2>1. spent.other + 1 \in 0..MaxFaults
    BY <1>1, <1>3 DEF Fault, SpentType
  <2>. QED BY <1>3, <2>1 DEF Fault, SpentType
<1>4. CASE Call
  <2>1. spent.calls + 1 \in 0..MaxCalls
    BY <1>1, <1>4 DEF Call, SpentType
  <2>. QED BY <1>4, <2>1 DEF Call, SpentType
<1>5. CASE \/ UNCHANGED spent \/ spent' = [spent EXCEPT !.revived = TRUE]
           \/ \E b \in BOOLEAN : spent' = [spent EXCEPT !.putBack = b]
  BY <1>5 DEF SpentType
<1>. QED BY <1>2, <1>3, <1>4, <1>5

LEMMA SpeaksStays ==
  ASSUME NEW p \in Parcels, Speaks(p),
         hook'[p] = hook[p], sent'[p] = sent[p], truth'[p] = truth[p]
  PROVE  Speaks(p)'
BY DEF Speaks, Wanted

(* Wanted follows from what is stored.                                     *)
LEMMA WantedIs ==
  ASSUME NEW d
  PROVE  /\ OrderFor(d) \in {"Shipping", "Delivered", "Return Pending", "None"}
         /\ OrderFor(d) = "Delivered" <=> d = "DELIVERED"
<1>1. CASE d = "PICKED_UP"
  BY <1>1 DEF OrderFor
<1>2. CASE d = "DELIVERED"
  BY <1>2 DEF OrderFor
<1>3. CASE d = "RETURN_PENDING"
  BY <1>3 DEF OrderFor
<1>4. CASE d \notin {"PICKED_UP", "DELIVERED", "RETURN_PENDING"}
  BY <1>4 DEF OrderFor
<1>. QED BY <1>1, <1>2, <1>3, <1>4

-----------------------------------------------------------------------------
(* What the couriers do: they alone make a parcel delivered.               *)
LEMMA WorldDelivers ==
  ASSUME ParcelsInv, DeliveryInv, NEW p \in Parcels,
         NEW to \in Truths, NEW e \in Events \cup {"None"},
         truth[p] \in {"none", "booked", "out", "returning"},
         truth' = [truth EXCEPT ![p] = to],
         IF e = "None" THEN UNCHANGED <<sent, mail>> ELSE Raise(p, e),
         e = "delivered" => to = "delivered",
         UNCHANGED <<order, ret, hook>>,
         UNCHANGED spent \/ Fault("update")
  PROVE  DeliveryInv'
<1>s. /\ sent'[p] = sent[p] \cup ({e} \ {"None"})
      /\ \A q \in Parcels \ {p} : sent'[q] = sent[q]
  <2>1. CASE e = "None"
    BY <2>1 DEF ParcelsInv, Shape
  <2>2. CASE e # "None"
    BY <2>2, RaiseAdds DEF ParcelsInv, Shape
  <2>. QED BY <2>1, <2>2
<1>t. /\ truth'[p] = to
      /\ \A q \in Parcels \ {p} : truth'[q] = truth[q]
  BY DEF ParcelsInv, Shape
<1>1. ASSUME NEW q \in Parcels
      PROVE  Speaks(q)'
  <2>1. CASE q # p
    BY <1>s, <1>t, <2>1, SpeaksStays DEF DeliveryInv
  <2>2. CASE q = p
    <3>1. Speaks(p)
      BY DEF DeliveryInv
    <3>2. "delivered" \notin sent[p]
      BY <3>1 DEF Speaks
    <3>3. /\ "delivered" \in sent'[p] => truth'[p] = "delivered"
          /\ hook[p].ev # "delivered"
      BY <1>s, <1>t, <3>1, <3>2 DEF Speaks
    <3>4. Wanted(p)' = Wanted(p)
      BY DEF Wanted
    <3>. QED BY <2>2, <3>1, <3>3, <3>4 DEF Speaks
  <2>. QED BY <2>1, <2>2
<1>2. spent' \in SpentType
  BY SpentTyped DEF DeliveryInv
<1>3. order' \in OrderStatuses /\ ret' \in ReturnType
  BY DEF DeliveryInv
<1>. QED BY <1>1, <1>2, <1>3 DEF DeliveryInv

LEMMA JourneyDelivers ==
  ASSUME ParcelsInv, DeliveryInv, NEW p \in Parcels,
         NEW from \in {"booked", "out", "returning"},
         NEW to \in {"dead", "failed", "out", "delivered", "returning", "home"},
         NEW e \in Events \cup {"None"},
         Journey(p, from, to, e), e = "delivered" => to = "delivered"
  PROVE  DeliveryInv'
<1>1. /\ truth[p] \in {"none", "booked", "out", "returning"}
      /\ truth' = [truth EXCEPT ![p] = to]
      /\ IF e = "None" THEN UNCHANGED <<sent, mail>> ELSE Raise(p, e)
      /\ UNCHANGED <<order, ret, hook, spent>>
  BY DEF Journey, system, past
<1>2. to \in Truths
  BY DEF Truths
<1>. QED BY <1>1, <1>2, WorldDelivers

LEMMA CouriersDeliver ==
  ASSUME ParcelsInv, DeliveryInv, NEW p \in Parcels,
         CourierMoves(p) \/ PanelCancel(p) \/ CancelPush(p)
  PROVE  DeliveryInv'
<1>1. CASE Book(p)
  <2>1. /\ truth[p] = "none" /\ truth' = [truth EXCEPT ![p] = "booked"]
        /\ Raise(p, "booked")
        /\ UNCHANGED <<order, ret, hook>>
        /\ UNCHANGED spent \/ Fault("update")
    BY <1>1 DEF Book
  <2>2. "booked" \in Truths /\ "booked" \in Events
    BY DEF Truths, Events
  <2>. QED BY <2>1, <2>2, WorldDelivers
<1>2. CASE Collect(p)
  BY <1>2, JourneyDelivers DEF Collect, Events
<1>3. CASE FailPickup(p)
  BY <1>3, JourneyDelivers DEF FailPickup, Events
<1>4. CASE Withdraw(p) \/ PanelCancel(p)
  BY <1>4, JourneyDelivers DEF Withdraw, PanelCancel, Events
<1>5. CASE HandToCustomer(p)
  BY <1>5, JourneyDelivers DEF HandToCustomer, Events
<1>6. CASE TurnBack(p)
  <2>. DEFINE e == IF p \in PanelOnly THEN "cancelled" ELSE "returning"
  <2>1. e \in {"cancelled", "returning"} /\ Journey(p, "out", "returning", e)
    BY <1>6 DEF TurnBack
  <2>. HIDE DEF e
  <2>. QED BY <2>1, JourneyDelivers DEF Events
<1>7. CASE ComeHome(p)
  <2>. DEFINE e == IF p \in PanelOnly THEN "None" ELSE "home"
  <2>1. e \in {"None", "home"} /\ Journey(p, "returning", "home", e)
    BY <1>7 DEF ComeHome
  <2>. HIDE DEF e
  <2>. QED BY <2>1, JourneyDelivers DEF Events
<1>8. CASE CancelPush(p)
  <2>1. /\ truth[p] = "booked" /\ truth' = [truth EXCEPT ![p] = "dead"]
        /\ Raise(p, "cancelled")
        /\ UNCHANGED <<order, ret, hook>>
        /\ UNCHANGED spent \/ Fault("update")
    BY <1>8 DEF CancelPush
  <2>2. "dead" \in Truths /\ "cancelled" \in Events
    BY DEF Truths, Events
  <2>. QED BY <2>1, <2>2, WorldDelivers
<1>. QED BY <1>1, <1>2, <1>3, <1>4, <1>5, <1>6, <1>7, <1>8 DEF CourierMoves

-----------------------------------------------------------------------------
(* What handlers do.                                                       *)
LEMMA HandlerDelivers ==
  ASSUME DeliveryInv, NEW p \in Parcels, Speaks(p)',
         \A q \in Parcels \ {p} : hook'[q] = hook[q],
         UNCHANGED <<truth, sent>>,
         order' \in OrderStatuses, ret' \in ReturnType, spent' \in SpentType
  PROVE  DeliveryInv'
<1>1. ASSUME NEW q \in Parcels
      PROVE  Speaks(q)'
  <2>1. CASE q # p
    BY <2>1, SpeaksStays DEF DeliveryInv
  <2>. QED BY <2>1
<1>. QED BY <1>1 DEF DeliveryInv

(* Only a handler that wants it makes the order Delivered, and it speaks   *)
(* of a delivery.                                                          *)
LEMMA HandlerClaims ==
  ASSUME DeliveryInv, NEW p \in Parcels, AdvanceDirectly(p) \/ WalkStep(p)
  PROVE  /\ order' \in OrderStatuses
         /\ order' = "Delivered" => order = "Delivered" \/ truth[p] = "delivered"
<1>s. Speaks(p) /\ order \in OrderStatuses
  BY DEF DeliveryInv
<1>w. /\ Wanted(p) \in {"Shipping", "Delivered", "Return Pending", "None"}
      /\ Wanted(p) = "Delivered" => truth[p] = "delivered"
  BY <1>s, WantedIs DEF Speaks, Wanted
<1>1. CASE AdvanceDirectly(p)
  <2>1. order' = Wanted(p) /\ Wanted(p) # "None"
    BY <1>1, <1>s DEF AdvanceDirectly, Speaks
  <2>. QED BY <1>w, <2>1 DEF OrderStatuses
<1>2. CASE WalkStep(p)
  <2> DEFINE path == hook[p].path
  <2>1. hook[p].at = "walk" /\ (order' = order \/ order' = Head(path))
    BY <1>2 DEF WalkStep
  <2>2. /\ path \in Seq(OrderStatuses) /\ path # <<>>
        /\ Wanted(p) # "Delivered" => path \in Seq(Avoiding)
    BY <1>s, <2>1 DEF Speaks
  <2>. HIDE DEF path
  <2>3. Head(path) \in OrderStatuses /\ (Wanted(p) # "Delivered" => Head(path) \in Avoiding)
    BY <2>2
  <2>4. "Delivered" \notin Avoiding
    BY DEF Avoiding
  <2>5. CASE order' = order
    BY <1>s, <2>5
  <2>6. CASE order' = Head(path)
    BY <1>w, <2>3, <2>4, <2>6
  <2>. QED BY <2>1, <2>5, <2>6
<1>. QED BY <1>1, <1>2

LEMMA FreshSpeaks ==
  ASSUME DeliveryInv, NEW p \in Parcels, UNCHANGED <<truth, sent>>,
         hook'[p].at \in {"idle", "write"}, hook'[p].st = "None", hook'[p].path = <<>>,
         hook'[p].ev = "delivered" => "delivered" \in sent[p]
  PROVE  Speaks(p)'
<1>1. Wanted(p)' = "None"
  BY DEF Wanted, OrderFor
<1>2. <<>> \in Seq(OrderStatuses) /\ <<>> \in Seq(Avoiding)
  OBVIOUS
<1>. QED BY <1>1, <1>2 DEF DeliveryInv, Speaks

(* A webhook comes in, starts over, dies or is answered.                   *)
LEMMA HookBegins ==
  ASSUME ParcelsInv, DeliveryInv, NEW p \in Parcels,
         Sync(p) \/ Rerun(p) \/ Crash(p) \/ NotFound(p) \/ \E e \in Events : Receive(p, e)
  PROVE  DeliveryInv'
<1>1. PICK h : /\ hook' = [hook EXCEPT ![p] = h]
               /\ h.at \in {"idle", "write"} /\ h.st = "None" /\ h.path = <<>>
               /\ h.ev = "delivered" => "delivered" \in sent[p]
  <2> DEFINE start(e) == [NoHook EXCEPT !.at = "write", !.ev = e]
  <2>0. /\ NoHook.at = "idle" /\ NoHook.ev = "None"
        /\ NoHook.st = "None" /\ NoHook.path = <<>>
        /\ \A e : /\ start(e).at = "write" /\ start(e).ev = e
                  /\ start(e).st = "None" /\ start(e).path = <<>>
    BY DEF NoHook
  <2>1. CASE Sync(p)
    <3> DEFINE h == start(truth[p])
    <3>1. hook' = [hook EXCEPT ![p] = h] /\ truth[p] # "delivered"
      BY <2>1 DEF Sync
    <3>2. h.at = "write" /\ h.ev = truth[p] /\ h.st = "None" /\ h.path = <<>>
      BY <2>0
    <3>. HIDE DEF h
    <3>. QED BY <3>1, <3>2
  <2>2. CASE Rerun(p)
    <3> DEFINE h == start(hook[p].ev)
    <3>1. hook' = [hook EXCEPT ![p] = h]
      BY <2>2 DEF Rerun
    <3>2. h.at = "write" /\ h.ev = hook[p].ev /\ h.st = "None" /\ h.path = <<>>
      BY <2>0
    <3>3. hook[p].ev = "delivered" => "delivered" \in sent[p]
      BY DEF DeliveryInv, Speaks
    <3>. HIDE DEF h
    <3>. QED BY <3>1, <3>2, <3>3
  <2>3. CASE Crash(p) \/ NotFound(p)
    BY <2>0, <2>3 DEF Crash, NotFound
  <2>4. CASE \E e \in Events : Receive(p, e)
    <3>1. PICK e \in Events : Receive(p, e)
      BY <2>4
    <3> DEFINE h == start(e)
    <3>2. hook' = [hook EXCEPT ![p] = h] /\ e \in mail[p]
      BY <3>1 DEF Receive
    <3>3. e \in sent[p]
      BY <3>2 DEF ParcelsInv, ParcelInv, Told
    <3>4. h.at = "write" /\ h.ev = e /\ h.st = "None" /\ h.path = <<>>
      BY <2>0
    <3>. HIDE DEF h
    <3>. QED BY <3>2, <3>3, <3>4
  <2>. QED BY <2>1, <2>2, <2>3, <2>4
<1>2. hook'[p] = h /\ \A q \in Parcels \ {p} : hook'[q] = hook[q]
  BY <1>1 DEF ParcelsInv, Shape, Hooks
<1>3. /\ UNCHANGED <<truth, sent, order, ret>>
      /\ UNCHANGED spent \/ Call \/ Fault("other")
  BY DEF Sync, Rerun, Crash, NotFound, Receive, world
<1>4. Speaks(p)'
  BY <1>1, <1>2, <1>3, FreshSpeaks
<1>5. order' \in OrderStatuses /\ ret' \in ReturnType /\ spent' \in SpentType
  BY <1>3, SpentTyped DEF DeliveryInv
<1>. QED BY <1>2, <1>3, <1>4, <1>5, HandlerDelivers

LEMMA AnswerDelivers ==
  ASSUME ParcelsInv, DeliveryInv, NEW p \in Parcels, Answer(p)
  PROVE  DeliveryInv'
<1>1. /\ hook' = [hook EXCEPT ![p] = NoHook] /\ ret' \in {ret, Recorded(p)}
      /\ UNCHANGED <<truth, sent, order, spent>>
  BY DEF Answer
<1>2. hook'[p] = NoHook /\ \A q \in Parcels \ {p} : hook'[q] = hook[q]
  BY <1>1 DEF ParcelsInv, Shape, Hooks
<1>3. Speaks(p)'
  BY <1>1, <1>2, FreshSpeaks DEF NoHook
<1>4. Recorded(p) \in ReturnType
  <2> DEFINE was == IF OpenReturn THEN ret ELSE [st |-> "REQUESTED", by |-> p]
  <2>1. was \in ReturnType
    BY DEF DeliveryInv, ReturnType
  <2>. HIDE DEF was
  <2>2. PICK moves \in BOOLEAN, home \in BOOLEAN :
          Recorded(p) = [st |-> IF moves THEN IF home THEN "DELIVERED" ELSE "IN_TRANSIT"
                                ELSE was.st,
                         by |-> IF was.by = "None" THEN p ELSE was.by]
    BY DEF Recorded, was
  <2>. QED BY <2>1, <2>2 DEF ReturnType
<1>5. order' \in OrderStatuses /\ ret' \in ReturnType /\ spent' \in SpentType
  BY <1>1, <1>4 DEF DeliveryInv
<1>. QED BY <1>1, <1>2, <1>3, <1>5, HandlerDelivers

LEMMA WriteDelivers ==
  ASSUME ParcelsInv, DeliveryInv, NEW p \in Parcels, Write(p)
  PROVE  DeliveryInv'
<1> DEFINE d == Stored(p)
           at == IF OrderFor(d) = "None" THEN "signal" ELSE "advance"
           h == [hook[p] EXCEPT !.st = d, !.at = at]
<1>1. /\ hook' = [hook EXCEPT ![p].st = d, ![p].at = at] /\ hook[p].at = "write"
      /\ UNCHANGED <<truth, sent, order, ret, spent>>
  <2>1. hook' = [hook EXCEPT ![p].st = d, ![p].at = at] /\ hook[p].at = "write"
    BY DEF Write, Stored
  <2>2. UNCHANGED <<truth, sent, order, ret, spent>>
    BY DEF Write, world
  <2>. QED BY <2>1, <2>2
<1>2. PICK P : hook \in [Parcels -> HookType(P)]
  BY DEF ParcelsInv, Shape, Hooks
<1>3. Speaks(p)
  BY DEF DeliveryInv
<1>4. d = "DELIVERED" => hook[p].ev = "delivered"
  <2>1. hook[p].ev \in Events
    BY <1>1, NoHookFields DEF ParcelsInv, ParcelInv, Handled
  <2>2. CASE hook[p].ev = "cancelled"
    BY <2>2 DEF Stored, ResolveCancelled
  <2>3. CASE hook[p].ev # "cancelled"
    BY <2>1, <2>3 DEF Stored, DispatchOf, Events
  <2>. QED BY <2>2, <2>3
<1>. HIDE DEF d
<1>5. at \in {"signal", "advance"} /\ (at = "advance" => OrderFor(d) # "None")
  OBVIOUS
<1>. HIDE DEF at
<1>6. hook' = [hook EXCEPT ![p] = h]
  BY <1>1, <1>2
<1>7. h.st = d /\ h.at = at /\ h.ev = hook[p].ev /\ h.path = <<>>
  BY <1>1, <1>2, <1>3 DEF HookType, Speaks
<1>. HIDE DEF h
<1>8. hook'[p] = h /\ \A q \in Parcels \ {p} : hook'[q] = hook[q]
  BY <1>2, <1>6
<1>9. Speaks(p)'
  <2>1. Wanted(p)' = OrderFor(d)
    BY <1>7, <1>8 DEF Wanted
  <2>2. <<>> \in Seq(OrderStatuses) /\ <<>> \in Seq(Avoiding)
    OBVIOUS
  <2>. QED BY <1>1, <1>3, <1>4, <1>5, <1>7, <1>8, <2>1, <2>2 DEF Speaks
<1>10. order' \in OrderStatuses /\ ret' \in ReturnType /\ spent' \in SpentType
  BY <1>1 DEF DeliveryInv
<1>. QED BY <1>1, <1>8, <1>9, <1>10, HandlerDelivers

(* A hook that goes on along a path, or is done with the order.            *)
LEMMA OnwardSpeaks ==
  ASSUME ParcelsInv, DeliveryInv, NEW p \in Parcels, UNCHANGED <<truth, sent>>,
         NEW path \in Seq(OrderStatuses),
         Wanted(p) # "Delivered" => path \in Seq(Avoiding),
         Walk(p, path) \/ (OrderDone(p) /\ path = <<>>)
  PROVE  Speaks(p)' /\ \A q \in Parcels \ {p} : hook'[q] = hook[q]
<1> DEFINE a == IF path = <<>> THEN "signal" ELSE "walk"
           h == [hook[p] EXCEPT !.path = path, !.at = a]
<1>1. PICK P : hook \in [Parcels -> HookType(P)]
  BY DEF ParcelsInv, Shape, Hooks
<1>2. hook' = [hook EXCEPT ![p] = h]
  <2>1. CASE Walk(p, path)
    <3>1. hook' = [hook EXCEPT ![p].path = path, ![p].at = a]
      BY <2>1 DEF Walk
    <3>. HIDE DEF a
    <3>. QED BY <1>1, <3>1
  <2>2. CASE OrderDone(p) /\ path = <<>>
    <3>1. hook' = [hook EXCEPT ![p].at = "signal", ![p].path = <<>>] /\ a = "signal"
      BY <2>2 DEF OrderDone
    <3>2. hook' = [hook EXCEPT ![p] = [hook[p] EXCEPT !.at = "signal", !.path = <<>>]]
      BY <1>1, <3>1
    <3>3. h = [hook[p] EXCEPT !.at = "signal", !.path = <<>>]
      BY <1>1, <2>2, <3>1 DEF HookType
    <3>. QED BY <3>2, <3>3
  <2>. QED BY <2>1, <2>2
<1>3. a \in {"signal", "walk"} /\ (a = "walk" => path # <<>>)
  OBVIOUS
<1>. HIDE DEF a
<1>4. h.path = path /\ h.at = a /\ h.ev = hook[p].ev /\ h.st = hook[p].st
  BY <1>1 DEF HookType
<1>. HIDE DEF h
<1>5. hook'[p] = h /\ \A q \in Parcels \ {p} : hook'[q] = hook[q]
  BY <1>1, <1>2
<1>6. Wanted(p)' = Wanted(p)
  BY <1>4, <1>5 DEF Wanted
<1>7. Speaks(p)
  BY DEF DeliveryInv
<1>8. Speaks(p)'
  BY <1>3, <1>4, <1>5, <1>6, <1>7 DEF Speaks
<1>. QED BY <1>5, <1>8

LEMMA EmptyWay ==
  <<>> \in Seq(OrderStatuses) /\ <<>> \in Seq(Avoiding)
OBVIOUS

LEMMA AdvanceDelivers ==
  ASSUME ParcelsInv, DeliveryInv, NEW p \in Parcels,
         AdvanceSkipped(p) \/ AdvanceDirectly(p) \/ AdvanceRefused(p) \/ WalkEnds(p)
  PROVE  DeliveryInv'
<1>w. Wanted(p) \in {"Shipping", "Delivered", "Return Pending", "None"}
  BY WantedIs DEF Wanted
<1>1. /\ UNCHANGED <<truth, sent, ret>>
      /\ UNCHANGED spent \/ Fault("update")
  BY DEF AdvanceSkipped, AdvanceDirectly, AdvanceRefused, WalkEnds, world
<1>2. ret' \in ReturnType /\ spent' \in SpentType
  BY <1>1, SpentTyped DEF DeliveryInv
<1>3. order' \in OrderStatuses
  BY HandlerClaims DEF AdvanceSkipped, AdvanceRefused, WalkEnds, DeliveryInv
<1>4. Speaks(p)' /\ \A q \in Parcels \ {p} : hook'[q] = hook[q]
  <2>1. CASE OrderDone(p)
    BY <1>1, <2>1, EmptyWay, OnwardSpeaks
  <2>2. CASE ~OrderDone(p)
    <3> DEFINE path == FindPath[order][Wanted(p)]
    <3>1. Walk(p, path) /\ hook[p].at = "advance"
      BY <2>2 DEF AdvanceSkipped, AdvanceDirectly, AdvanceRefused, WalkEnds
    <3>2. Wanted(p) \in {"Shipping", "Delivered", "Return Pending"} /\ order \in OrderStatuses
      BY <1>w, <3>1 DEF DeliveryInv, Speaks
    <3>3. Wanted(p) \in OrderStatuses
      BY <3>2 DEF OrderStatuses
    <3>4. path \in Seq(OrderStatuses) /\ (Wanted(p) # "Delivered" => path \in Seq(Avoiding))
      BY <3>2, <3>3, WaysAvoidDelivered
    <3>. HIDE DEF path
    <3>. QED BY <1>1, <3>1, <3>4, OnwardSpeaks
  <2>. QED BY <2>1, <2>2
<1>. QED BY <1>1, <1>2, <1>3, <1>4, HandlerDelivers

LEMMA WalkStepDelivers ==
  ASSUME ParcelsInv, DeliveryInv, NEW p \in Parcels, WalkStep(p)
  PROVE  DeliveryInv'
<1> DEFINE path == hook[p].path
<1>1. /\ UNCHANGED <<truth, sent, ret>>
      /\ UNCHANGED spent \/ Fault("update")
      /\ Walk(p, Tail(path)) \/ OrderDone(p)
      /\ hook[p].at = "walk"
  BY DEF WalkStep, world
<1>2. order' \in OrderStatuses /\ ret' \in ReturnType /\ spent' \in SpentType
  BY <1>1, SpentTyped, HandlerClaims DEF DeliveryInv
<1>3. /\ path \in Seq(OrderStatuses) /\ path # <<>>
      /\ Wanted(p) # "Delivered" => path \in Seq(Avoiding)
  BY <1>1 DEF DeliveryInv, Speaks
<1>. HIDE DEF path
<1>4. Tail(path) \in Seq(OrderStatuses)
  BY <1>3
<1>5. Wanted(p) # "Delivered" => Tail(path) \in Seq(Avoiding)
  BY <1>3
<1>6. Speaks(p)' /\ \A q \in Parcels \ {p} : hook'[q] = hook[q]
  <2>1. CASE OrderDone(p)
    BY <1>1, <2>1, EmptyWay, OnwardSpeaks
  <2>2. CASE Walk(p, Tail(path))
    BY <1>1, <1>4, <1>5, <2>2, OnwardSpeaks
  <2>. QED BY <1>1, <2>1, <2>2
<1>. QED BY <1>1, <1>2, <1>6, HandlerDelivers

-----------------------------------------------------------------------------
(* Everybody else.                                                         *)
LEMMA OthersDeliver ==
  ASSUME ParcelsInv, DeliveryInv,
         \/ CancelGate \/ CancelAborts \/ CancelCommit
         \/ \E p \in Parcels : CancelRefused(p) \/ ConfirmPanel(p)
         \/ \E p \in Parcels, e \in Events : IgnoreRepeat(p, e) \/ Redeliver(p, e)
         \/ \E to \in {"Packed", "Shipping"} : Forward(to)
         \/ Revive \/ CreateReturn \/ MarkReceived \/ CloseReturn
         \/ \E p \in Parcels : DeleteRow(p) \/ \E to \in BoardSets : BoardSet(p, to)
         \/ BoardRead \/ BoardWrite \/ BoardDies
         \/ UNCHANGED vars
  PROVE  DeliveryInv'
<1>1. UNCHANGED <<hook, truth, sent>>
  BY DEF CancelGate, CancelAborts, CancelCommit, CancelRefused, ConfirmPanel, IgnoreRepeat,
         Redeliver, Forward, Revive, CreateReturn, MarkReceived, CloseReturn,
         DeleteRow, BoardSet, BoardRead, BoardWrite, BoardDies, vars, system, world
<1>2. order' = order \/ order' \in OrderStatuses
  BY DEF CancelGate, CancelAborts, CancelCommit, CancelRefused, ConfirmPanel, IgnoreRepeat,
         Redeliver, Forward, Revive, CreateReturn, MarkReceived, CloseReturn,
         DeleteRow, BoardSet, BoardRead, BoardWrite, BoardDies, vars, system, OrderStatuses
<1>3. \/ UNCHANGED spent \/ Fault("other") \/ Call
      \/ spent' = [spent EXCEPT !.revived = TRUE]
      \/ \E b \in BOOLEAN : spent' = [spent EXCEPT !.putBack = b]
  BY DEF CancelGate, CancelAborts, CancelCommit, CancelRefused, ConfirmPanel, IgnoreRepeat,
         Redeliver, Forward, Revive, CreateReturn, MarkReceived, CloseReturn,
         DeleteRow, BoardSet, BoardRead, BoardWrite, BoardDies, vars
<1>4. \/ UNCHANGED ret
      \/ ret' = [st |-> "REQUESTED", by |-> "None"]
      \/ \E st \in {"RESTOCKED", "CLOSED"} : ret' = [ret EXCEPT !.st = st]
  BY DEF CancelGate, CancelAborts, CancelCommit, CancelRefused, ConfirmPanel, IgnoreRepeat,
         Redeliver, Forward, Revive, CreateReturn, MarkReceived, CloseReturn,
         DeleteRow, BoardSet, BoardRead, BoardWrite, BoardDies, vars, system
<1>5. ret' \in ReturnType
  BY <1>4 DEF DeliveryInv, ReturnType
<1>6. spent' \in SpentType
  BY <1>3, SpentTyped DEF DeliveryInv
<1>7. order' \in OrderStatuses
  BY <1>2 DEF DeliveryInv
<1>8. \A q \in Parcels : Speaks(q)'
  BY <1>1, SpeaksStays DEF DeliveryInv
<1>. QED BY <1>1, <1>5, <1>6, <1>7, <1>8 DEF DeliveryInv

LEMMA DeliveryInvInitially == Init => DeliveryInv
<1>. SUFFICES ASSUME Init
              PROVE  DeliveryInv
  OBVIOUS
<1>1. order \in OrderStatuses /\ ret \in ReturnType
  BY DEF Init, OrderStatuses, ReturnType, NoReturn
<1>2. spent \in SpentType
  BY CourierAssumption DEF Init, SpentType
<1>3. ASSUME NEW p \in Parcels
      PROVE  Speaks(p)
  <2>1. /\ sent[p] = {} /\ hook[p].at = "idle" /\ hook[p].ev = "None"
        /\ hook[p].st = "None" /\ hook[p].path = <<>>
    BY DEF Init, NoHook
  <2>. QED BY <2>1, EmptyWay DEF Speaks
<1>. QED BY <1>1, <1>2, <1>3 DEF DeliveryInv

LEMMA DeliveryInvKept ==
  ASSUME ParcelsInv, DeliveryInv, [Next]_vars
  PROVE  DeliveryInv'
<1>1. CASE \E p \in Parcels : CourierMoves(p) \/ Sync(p) \/ Rerun(p) \/ Crash(p)
  BY <1>1, CouriersDeliver, HookBegins
<1>2. CASE \E p \in Parcels : Handle(p)
  BY <1>2, HookBegins, WriteDelivers, AdvanceDelivers, WalkStepDelivers, AnswerDelivers DEF Handle
<1>3. CASE \E p \in Parcels, e \in Events : Deliver(p, e) \/ Redeliver(p, e)
  BY <1>3, HookBegins, OthersDeliver DEF Deliver
<1>4. CASE \E p \in Parcels : Cancelling(p)
  BY <1>4, CouriersDeliver, OthersDeliver DEF Cancelling
<1>5. CASE \/ CancelGate \/ CancelAborts \/ CancelCommit
           \/ \E to \in {"Packed", "Shipping"} : Forward(to)
           \/ Revive \/ CreateReturn \/ MarkReceived \/ CloseReturn
           \/ UNCHANGED vars
  BY <1>5, OthersDeliver
<1>6. CASE \/ \E p \in Parcels : DeleteRow(p) \/ \E to \in BoardSets : BoardSet(p, to)
           \/ BoardRead \/ BoardWrite \/ BoardDies
  BY <1>6, OthersDeliver
<1>. QED BY <1>1, <1>2, <1>3, <1>4, <1>5, <1>6 DEF Next, Proceed

LEMMA BoardTypedInitially == Init => BoardTyped
BY DEF Init, BoardTyped, NoRef

LEMMA BoardTypedKept ==
  ASSUME ParcelsInv, BoardTyped, [Next]_vars
  PROVE  BoardTyped'
<1>1. CASE \E p \in Parcels : Book(p) \/ Write(p)
  <2>1. PICK p \in Parcels : Book(p) \/ Write(p)
    BY <1>1
  <2>2. UNCHANGED board /\ (ref' \in {ref, RefTo(p)} \/ ref' = [ref EXCEPT !.kind = Kind(p)])
    BY <2>1 DEF Book, Write
  <2>. QED BY <2>2 DEF BoardTyped, RefTo, Kind
<1>2. CASE \/ \E p \in Parcels, to \in BoardSets : BoardSet(p, to)
           \/ BoardRead \/ BoardWrite \/ BoardDies
  <2>1. UNCHANGED ref
    BY <1>2 DEF BoardSet, BoardRead, BoardWrite, BoardDies
  <2>2. \A d \in DispatchStatuses : SyncTarget[d] \in OrderStatuses \cup {"None"}
    BY DEF SyncTarget, OrderStatuses
  <2>3. board' \in DispatchStatuses \cup OrderStatuses \cup {"None"}
    BY <1>2, <2>2, CourierAssumption DEF BoardSet, BoardRead, BoardWrite, BoardDies
  <2>. QED BY <2>1, <2>3 DEF BoardTyped
<1>3. CASE \E p \in Parcels :
             \/ Collect(p) \/ FailPickup(p) \/ Withdraw(p) \/ HandToCustomer(p)
             \/ TurnBack(p) \/ ComeHome(p) \/ Sync(p) \/ Cancelling(p) \/ Rerun(p)
             \/ Crash(p) \/ DeleteRow(p)
  BY <1>3 DEF BoardTyped, Collect, FailPickup, Withdraw, HandToCustomer, TurnBack, ComeHome,
              Journey, Sync, Cancelling, CancelPush, CancelRefused, PanelCancel, ConfirmPanel,
              Rerun, Crash, DeleteRow, system
<1>4. CASE \E p \in Parcels :
             \/ NotFound(p) \/ AdvanceSkipped(p) \/ AdvanceDirectly(p)
             \/ AdvanceRefused(p) \/ WalkEnds(p) \/ WalkStep(p) \/ Answer(p)
  BY <1>4 DEF BoardTyped, NotFound, AdvanceSkipped, AdvanceDirectly, AdvanceRefused, WalkEnds,
              WalkStep, Answer
<1>5. CASE \E p \in Parcels, e \in Events : Deliver(p, e) \/ Redeliver(p, e)
  BY <1>5 DEF BoardTyped, Deliver, Receive, IgnoreRepeat, Redeliver, system
<1>6. CASE \/ CancelGate \/ CancelAborts \/ CancelCommit
           \/ \E to \in {"Packed", "Shipping"} : Forward(to)
           \/ Revive \/ CreateReturn \/ MarkReceived \/ CloseReturn
           \/ UNCHANGED vars
  BY <1>6 DEF BoardTyped, CancelGate, CancelAborts, CancelCommit, Forward, Revive,
              CreateReturn, MarkReceived, CloseReturn, vars, system
<1>. QED BY <1>1, <1>2, <1>3, <1>4, <1>5, <1>6 DEF Next, Proceed, CourierMoves, Handle

(* For all constants every variable keeps its type: a hook always has a    *)
(* step left to take while it walks, and the order is always a status.     *)
THEOREM TypeCorrect ==
  Spec => []TypeOK
BY ParcelsInvInitially, ParcelsInvKept, DeliveryInvInitially, DeliveryInvKept,
   BoardTypedInitially, BoardTypedKept, DeliveryInvTyped, PTL DEF Spec

-----------------------------------------------------------------------------
(* A step that changes both a webhook and the order is a handler's.        *)
LEMMA StepClaims ==
  ASSUME DeliveryInv, [Next]_vars, hook' # hook, order' = "Delivered"
  PROVE  order = "Delivered" \/ \E p \in Parcels : truth[p] = "delivered"
<1>1. CASE \E p \in Parcels : AdvanceDirectly(p) \/ WalkStep(p)
  BY <1>1, HandlerClaims
<1>2. CASE \E p \in Parcels :
             \/ Write(p) \/ NotFound(p) \/ AdvanceSkipped(p)
             \/ AdvanceRefused(p) \/ WalkEnds(p) \/ Answer(p)
             \/ Sync(p) \/ Rerun(p) \/ Crash(p)
  BY <1>2 DEF Write, NotFound, AdvanceSkipped, AdvanceRefused, WalkEnds, Answer,
              Sync, Rerun, Crash
<1>3. CASE \E p \in Parcels :
             \/ CourierMoves(p) \/ Cancelling(p) \/ DeleteRow(p)
             \/ \E to \in BoardSets : BoardSet(p, to)
             \/ \E e \in Events : IgnoreRepeat(p, e) \/ Redeliver(p, e)
  BY <1>3 DEF CourierMoves, Book, Collect, FailPickup, Withdraw, HandToCustomer, TurnBack,
              ComeHome, Journey, Cancelling, CancelPush, CancelRefused, PanelCancel,
              ConfirmPanel, DeleteRow, BoardSet, IgnoreRepeat, Redeliver, system
<1>4. CASE \/ CancelGate \/ CancelAborts \/ CancelCommit
           \/ \E to \in {"Packed", "Shipping"} : Forward(to)
           \/ Revive \/ CreateReturn \/ MarkReceived \/ CloseReturn
           \/ BoardRead \/ BoardWrite \/ BoardDies
           \/ UNCHANGED vars
  BY <1>4 DEF CancelGate, CancelAborts, CancelCommit, Forward, Revive, CreateReturn,
              MarkReceived, CloseReturn, BoardRead, BoardWrite, BoardDies, vars, system
<1>5. CASE \E p \in Parcels, e \in Events : Receive(p, e)
  BY <1>5 DEF Receive
<1>. QED BY <1>1, <1>2, <1>3, <1>4, <1>5 DEF Next, Proceed, Handle, Deliver

(* For any parcels, events and faults: a webhook makes an order Delivered  *)
(* only when a courier delivered one of its parcels, whatever statuses it  *)
(* walks through and however late, doubled or disordered webhooks arrive.  *)
THEOREM DeliveredIsClaimed ==
  Spec => DeliveredWasClaimed
<1>1. DeliveryInv /\ [Next]_vars =>
        [hook' # hook /\ order' = "Delivered" =>
           order = "Delivered" \/ \E p \in Parcels : truth[p] = "delivered"]_vars
  BY StepClaims
<1>. QED BY <1>1, ParcelsInvInitially, ParcelsInvKept, DeliveryInvInitially, DeliveryInvKept,
            PTL DEF Spec, DeliveredWasClaimed
=============================================================================
