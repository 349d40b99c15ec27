------------------------- MODULE MCVerification -------------------------
(* Verification on small sets of calls.                                     *)
EXTENDS Verification, TLC

Symmetry == Permutations(Requests) \cup Permutations(Subjects)
====
