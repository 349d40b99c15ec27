------------------------- MODULE MCRbacRegistry -------------------------
(* RbacRegistry on small sets of roles, permissions and calls.              *)
EXTENDS RbacRegistry, TLC

Symmetry == Permutations(Requests) \cup Permutations(Roles)
====
