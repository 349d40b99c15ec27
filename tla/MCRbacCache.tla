--------------------------- MODULE MCRbacCache ---------------------------
(* RbacCache on small sets of processes and changes.                        *)
EXTENDS RbacCache
====
