---------------------------- MODULE MCReassembly ----------------------------
(* Two sources: a longer stream, and one that interferes with its numbers. *)
EXTENDS Reassembly, TLC

CONSTANTS t1, t2
MCUnits == t1 :> 3 @@ t2 :> 1
=============================================================================
