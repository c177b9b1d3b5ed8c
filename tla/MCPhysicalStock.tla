-------------------------- MODULE MCPhysicalStock --------------------------
(* Two orders, a floor and a bin, two opening lots and room for a third.   *)
EXTENDS PhysicalStock, TLC

CONSTANTS small, large, floor, bin, w1, w2

Symmetry == Permutations({w1, w2})
MCQty == small :> 1 @@ large :> 2
MCStockAt == floor :> 1 @@ bin :> 2
MCOpening == <<1, 2, 0>>
MCMaxCycles == small :> 1 @@ large :> 2
=============================================================================
