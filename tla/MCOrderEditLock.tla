-------------------------- MODULE MCOrderEditLock --------------------------
(* Two staff members; ann may have the order open in two tabs.             *)
EXTENDS OrderEditLock, TLC

CONSTANTS ann, bob, a1, a2, b1

TwoUsers == [s \in Sessions |-> IF s = b1 THEN bob ELSE ann]
=============================================================================
