--------------------------- MODULE MCAppraisalDB ---------------------------
(* AppraisalDB for TLC.  IDs 1 .. 3: 1 is imported, 2 and 3 are handed out. *)
EXTENDS AppraisalDB, TLC

CONSTANTS u1, u2, r1, r2, t1, t2

\* For the runs that check invariants and action properties only.
Symmetry == Permutations({u1, u2}) \cup Permutations({r1, r2}) \cup Permutations({t1, t2})
=============================================================================
