---------------------------- MODULE MCManagement ----------------------------
(* Small instance of Management for TLC. *)
EXTENDS Management, TLC

ConnSymmetry == Permutations(Conn)
=============================================================================
