---------------------------- MODULE MCOrderMoney ----------------------------
(* Two orders of one customer, two calls at a time.                        *)
EXTENDS OrderMoney, TLC

CONSTANTS first, second, c1, c2

Symmetry == Permutations({first, second}) \cup Permutations({c1, c2})
MCAmounts == {-1, 3}
=============================================================================
