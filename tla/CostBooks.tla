----------------------------- MODULE CostBooks -----------------------------
(***************************************************************************)
(* What costing lots promise of one product, with the transactions, the    *)
(* reservations and the walks over the lots abstracted away.  A unit of a  *)
(* lot is unspent, or a line owes it, or it is gone for good.  A line is   *)
(* charged in one step, for no more units than it has, and only units that *)
(* lots still have; what it gives back, and no more, goes back to the lots *)
(* it was charged at.  PhysicalStock implements it (property CostPromise). *)
(***************************************************************************)
EXTENDS Integers

CONSTANTS
  Lots, Lines,
  Size,        \* Size[o]: the units of line o
  Total(_)     \* Total(f): the units f says of all lots

VARIABLES
  bought,      \* bought[l]: units lot l was received with
  unspent,     \* unspent[l]: units of l nobody was charged for
  debt         \* debt[o][l]: units of l that line o was charged for and has kept

vars == <<bought, unspent, debt>>

Amounts == [Lots -> Nat]

Init ==
  /\ bought \in Amounts
  /\ unspent = bought
  /\ debt = [o \in Lines |-> [l \in Lots |-> 0]]

Buy(l) ==
  /\ bought[l] = 0 /\ bought'[l] \in Nat \ {0}
  /\ bought' = [bought EXCEPT ![l] = bought'[l]]
  /\ unspent' = [unspent EXCEPT ![l] = bought'[l]]
  /\ UNCHANGED debt

Charge(o) ==
  LET cost == [l \in Lots |-> unspent[l] - unspent'[l]]
  IN /\ unspent' \in Amounts /\ cost \in Amounts /\ Total(cost) <= Size[o]
     /\ debt' = [debt EXCEPT ![o] = [l \in Lots |-> debt[o][l] + cost[l]]]
     /\ UNCHANGED bought

Repay(o) ==
  LET back == [l \in Lots |-> unspent'[l] - unspent[l]]
  IN /\ unspent' \in Amounts /\ back \in Amounts /\ debt'[o] \in Amounts
     /\ debt' = [debt EXCEPT ![o] = [l \in Lots |-> debt[o][l] - back[l]]]
     /\ UNCHANGED bought

Spend ==
  /\ unspent' \in Amounts /\ \A l \in Lots : unspent'[l] <= unspent[l]
  /\ UNCHANGED <<bought, debt>>

Next ==
  \/ Spend
  \/ \E l \in Lots : Buy(l)
  \/ \E o \in Lines : Charge(o) \/ Repay(o)

Spec == Init /\ [][Next]_vars
=============================================================================
