------------------------------- MODULE Shelf -------------------------------
(***************************************************************************)
(* What the stock engine promises of the units of one product, with the    *)
(* handlers, the reservations and the statuses abstracted away: a line is  *)
(* on the shelf or out, it leaves whole and comes back whole, one line at  *)
(* a time, never when the shelf has too few, and the ledger records each   *)
(* movement.  OrderStock implements it (property ShelfPromise).            *)
(***************************************************************************)
EXTENDS Integers

CONSTANTS Lines, Size, Stock      \* the lines, their units, the units at the start

VARIABLES
  shelf,     \* units on hand
  out,       \* out[l]: the units of l have left
  ledger     \* ledger[l]: units of l the ledger says are out

vars == <<shelf, out, ledger>>

Init ==
  /\ shelf = Stock
  /\ out = [l \in Lines |-> FALSE]
  /\ ledger = [l \in Lines |-> 0]

Take(l) ==
  /\ ~out[l]
  /\ shelf >= Size[l]
  /\ shelf' = shelf - Size[l]
  /\ out' = [out EXCEPT ![l] = TRUE]
  /\ ledger' = [ledger EXCEPT ![l] = @ + Size[l]]

PutBack(l) ==
  /\ out[l]
  /\ shelf' = shelf + Size[l]
  /\ out' = [out EXCEPT ![l] = FALSE]
  /\ ledger' = [ledger EXCEPT ![l] = @ - Size[l]]

Next == \E l \in Lines : Take(l) \/ PutBack(l)

Spec == Init /\ [][Next]_vars
=============================================================================
