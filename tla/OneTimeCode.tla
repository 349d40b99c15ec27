--------------------------- MODULE OneTimeCode ---------------------------
(***************************************************************************)
(* What verification promises its callers: a challenge for one purpose of    *)
(* one user opens in place of the one before it, is confirmed at most once,  *)
(* answers a bounded number of wrong guesses, and never opens again.  Each   *)
(* operation is one step.  Calls that race for a challenge may disturb it:   *)
(* for this challenge, and for no other, the promise is void.                *)
(***************************************************************************)
EXTENDS Naturals

CONSTANTS Challenges, Subjects, MaxAttempts

VARIABLES
  about,      \* the subject of each challenge
  issued,     \* challenges there have been
  open,       \* challenges whose code is still good
  guesses,    \* wrong codes each has answered
  confirmed,  \* challenges whose right code was accepted
  disturbed   \* challenges that calls raced for

Init ==
  /\ about \in [Challenges -> Subjects]
  /\ issued = {}
  /\ open = {}
  /\ guesses = [c \in Challenges |-> 0]
  /\ confirmed = {}
  /\ disturbed = {}

OpenFor(s) == {c \in open : about[c] = s}

\* In place of the ones before it, and maybe while another one is being issued.
Issue(c) ==
  /\ c \notin issued
  /\ issued' = issued \cup {c}
  /\ open' = (open \ (OpenFor(about[c]) \ disturbed)) \cup {c}
  /\ disturbed' = disturbed \/ disturbed' = disturbed \cup {c}
  /\ UNCHANGED <<about, guesses, confirmed>>

\* Superseded by a challenge that then was not made, or out of time.
Withdraw(s) ==
  /\ \E gone \in SUBSET OpenFor(s) : open' = open \ gone
  /\ UNCHANGED <<about, issued, guesses, confirmed, disturbed>>

Guess(c) ==
  /\ c \in open
  /\ guesses' = [guesses EXCEPT ![c] = @ + 1]
  /\ open' = open \/ open' = open \ {c}
  /\ guesses'[c] >= MaxAttempts => c \notin open'
  /\ UNCHANGED <<about, issued, confirmed, disturbed>>

Confirm(c) ==
  /\ c \in open
  /\ confirmed' = confirmed \cup {c}
  /\ open' = open \ {c}
  /\ UNCHANGED <<about, issued, guesses, disturbed>>

\* Calls that overlap write over each other's result.
Disturb(c) ==
  /\ c \in issued
  /\ disturbed' = disturbed \cup {c}
  /\ \E n \in 0..MaxAttempts : guesses' = [guesses EXCEPT ![c] = n]
  /\ open' \in {open, open \cup {c}, open \ {c}}
  /\ confirmed' \in {confirmed, confirmed \cup {c}}
  /\ UNCHANGED <<about, issued>>

Next ==
  \/ \E c \in Challenges : Issue(c) \/ Guess(c) \/ Confirm(c) \/ Disturb(c)
  \/ \E s \in Subjects : Withdraw(s)

Spec == Init /\ [][Next]_<<about, issued, open, guesses, confirmed, disturbed>>
====
