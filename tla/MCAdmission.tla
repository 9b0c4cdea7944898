----------------------------- MODULE MCAdmission -----------------------------
(* Small instances of Admission for TLC. *)
EXTENDS Admission

CONSTANTS t1, t2, t3
MCToken == {t1, t2, t3}
\* Two tokens that overlap, and one that lives too long.
MCIssued == [t \in MCToken |-> IF t = t1 THEN 0 ELSE 1]
MCLifetime == [t \in MCToken |-> IF t = t3 THEN 3 ELSE 2]
=============================================================================
