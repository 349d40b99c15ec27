---------------------------- MODULE MCAccounts ----------------------------
(* Accounts on small sets of requests; each run chooses the operations.      *)
EXTENDS Accounts
====
