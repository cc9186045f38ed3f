---------------------------- MODULE MCLoopQueue ----------------------------
(* Small instances of LoopQueue for TLC. *)
EXTENDS LoopQueue, TLC

CONSTANTS k1, k2, k3, k4, outside, stopper

\* k1 is asked for by the program, k2 through onLoop, and k3 by the loop as it
\* runs k1, as a close asks for its release; k4 by the loop as it runs k3.
Chain == k1 :> outside @@ k2 :> outside @@ k3 :> k1 @@ k4 :> k3
=============================================================================
