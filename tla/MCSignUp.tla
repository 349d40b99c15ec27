---------------------------- MODULE MCSignUp ----------------------------
(* SignUp on small sets of calls and addresses.                             *)
EXTENDS SignUp, TLC

Symmetry == Permutations(Requests) \cup Permutations(Addresses)

\* What a call leaves behind: nothing reads the user and the entity of one that is
\* over, but for the account a sign-up wrote.
Needed(r) ==
  \/ pc[r] \notin {"done", "refused", "failed"}
  \/ pc[r] # "refused" /\ about[r] = r

View ==
  <<users, challenges, required, tokens, pc, faults, mailed, proved,
    [r \in {q \in Requests : Needed(q)} |-> <<about[r], copy[r]>>]>>
====
