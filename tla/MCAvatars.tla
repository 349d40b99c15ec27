---------------------------- MODULE MCAvatars ----------------------------
(* Avatars on small sets of requests and processes. Every process sweeps,    *)
(* one serves the requests: which one does not matter to what they do.       *)
EXTENDS Avatars

CONSTANT Server

MCInit == Init /\ host = [r \in Requests |-> Server]
MCSpec == MCInit /\ [][Next]_vars /\ Fairness
====
