---------------------------- MODULE MCLoopBudget ----------------------------
(* A small instance of LoopBudget for TLC: two connections.                *)
EXTENDS LoopBudget

CONSTANTS k1, k2
=============================================================================
