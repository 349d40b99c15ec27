---------------------------- MODULE MCHistory ----------------------------
(* History on small sets of conversions, downloads and processes.           *)
EXTENDS History
====
