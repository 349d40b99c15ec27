-------------------------- MODULE Verification --------------------------
(***************************************************************************)
(* One-time codes: VerificationService.createVerificationRecord and          *)
(* verifyOtp, and the e-mail every caller sends in between.  A challenge is  *)
(* a row of verification_tokens and is named by the request that created it. *)
(*                                                                         *)
(* Both operations are read, compute, write sequences without a transaction, *)
(* and save writes back every column of the copy that was read: attempts and *)
(* consumedAt, too.  One action is what runs between two database calls; the *)
(* bcrypt comparison touches nothing shared and is part of the save.         *)
(* Calls about one subject overlap as they like: nothing in the code, and no *)
(* lock in the database, keeps them apart.                                   *)
(***************************************************************************)
EXTENDS Naturals, FiniteSets

CONSTANTS
  Requests,     \* the calls of a run; also the names of the challenges they create
  Subjects,     \* (userId, type) pairs: what a challenge is for
  MaxAttempts,  \* MAX_ATTEMPTS
  MaxFaults     \* bound: database errors, mail errors and crashes in a run

ASSUME VerificationBounds ==
  /\ MaxAttempts \in Nat \ {0}
  /\ MaxFaults \in Nat

VARIABLES
  issued,    \* challenges with a row
  consumed,  \* challenges whose row has a consumedAt
  attempts,  \* the attempts column
  expired,   \* challenges past their expiresAt
  pc,        \* where each call stands
  subject,   \* what each call is about
  aim,       \* the challenge a call of verifyOtp names
  read,      \* attempts of the copy it read (whose consumedAt is null)
  faults,    \* errors and crashes so far
  overran,   \* history: calls of verifyOtp that saved over a row changed meanwhile
  crossed    \* history: challenges created between the two statements of another call

rows  == <<issued, consumed, attempts, expired>>
calls == <<subject, aim, read>>
races == <<overran, crossed>>
vars  == <<issued, consumed, attempts, expired, pc, subject, aim, read, faults,
           overran, crossed>>

Creating  == {"retiring", "creating", "mailing"}
Verifying == {"comparing"}
Ended == {"challenged", "accepted", "missed", "rejected", "exhausted", "failed"}

Init ==
  /\ issued = {}
  /\ consumed = {}
  /\ attempts = [c \in Requests |-> 0]
  /\ expired = {}
  /\ pc = [r \in Requests |-> "idle"]
  /\ subject \in [Requests -> Subjects]
  /\ aim = [r \in Requests |-> r]
  /\ read = [r \in Requests |-> 0]
  /\ faults = 0
  /\ overran = {}
  /\ crossed = {}

Goto(r, label) == pc' = [pc EXCEPT ![r] = label]
Fault == faults < MaxFaults /\ faults' = faults + 1

---------------------------------------------------------------------------
(* createVerificationRecord, then mailService.sendVerificationOtp            *)

\* The code is generated and hashed.
CreateBegin(r) ==
  /\ pc[r] = "idle"
  /\ Goto(r, "retiring")
  /\ UNCHANGED <<rows, calls, faults, races>>

\* Faulty: older challenges are left alone.
ConsumeNone(r) ==
  /\ pc[r] = "retiring"
  /\ Goto(r, "creating")
  /\ UNCHANGED <<rows, calls, faults, races>>

\* Faulty: the purpose of the challenges is not asked for.
ConsumeAll(r) ==
  /\ pc[r] = "retiring"
  /\ consumed' = consumed \cup issued
  /\ Goto(r, "creating")
  /\ UNCHANGED <<issued, attempts, expired, calls, faults, races>>

\* consumeActiveForUser: one UPDATE of the subject's rows without a consumedAt.
ConsumeActiveForUser(r) ==
  /\ pc[r] = "retiring"
  /\ consumed' = consumed \cup {c \in issued : subject[c] = subject[r]}
  /\ Goto(r, "creating")
  /\ UNCHANGED <<issued, attempts, expired, calls, faults, races>>

Create(r) ==
  /\ pc[r] = "creating"
  /\ issued' = issued \cup {r}
  /\ Goto(r, "mailing")
  /\ crossed' = IF \E q \in Requests \ {r} : pc[q] = "creating" /\ subject[q] = subject[r]
                  THEN crossed \cup {r} ELSE crossed
  /\ UNCHANGED <<consumed, attempts, expired, calls, faults, overran>>

Mail(r) ==
  /\ pc[r] = "mailing"
  /\ Goto(r, "challenged")
  /\ UNCHANGED <<rows, calls, faults, races>>

\* A statement or the mail transport throws, or the process dies.
CreateFails(r) ==
  /\ pc[r] \in Creating
  /\ Fault
  /\ Goto(r, "failed")
  /\ UNCHANGED <<rows, calls, races>>

---------------------------------------------------------------------------
(* verifyOtp                                                                *)

Names(r, c) == c \in issued /\ subject[c] = subject[r]

\* Faulty: findActive does not ask for consumedAt.
Unexpired(c) == c \in issued \ expired

\* findActive, the expiry check and the check of the attempts.
Active(c) == c \in issued \ (consumed \cup expired)

FindActive(r, c) ==
  /\ pc[r] = "idle"
  /\ Names(r, c) /\ Active(c)
  /\ IF attempts[c] >= MaxAttempts
       THEN Goto(r, "exhausted")
       ELSE Goto(r, "comparing")
  /\ aim' = [aim EXCEPT ![r] = c]
  /\ read' = [read EXCEPT ![r] = attempts[c]]
  /\ UNCHANGED <<rows, subject, faults, races>>

\* There is no such row, or its ten minutes are over.
FindNone(r) ==
  /\ pc[r] = "idle"
  /\ \E c \in Requests : ~(Names(r, c) /\ Active(c))
  /\ Goto(r, "rejected")
  /\ UNCHANGED <<rows, calls, faults, races>>

\* The row is as the call read it.
Current(r) == aim[r] \notin consumed /\ attempts[aim[r]] = read[r]

\* save(record): every column of the copy goes to the row.
Save(r, count, done) ==
  /\ overran' = IF Current(r) THEN overran ELSE overran \cup {r}
  /\ attempts' = [attempts EXCEPT ![aim[r]] = count]
  /\ consumed' = IF done THEN consumed \cup {aim[r]} ELSE consumed \ {aim[r]}

\* Faulty: the attempt is not counted.
MissUncounted(r) ==
  /\ pc[r] = "comparing"
  /\ Goto(r, "missed")
  /\ UNCHANGED <<rows, calls, faults, races>>

\* The code is wrong: count the attempt. The answer is 422, or 429 for the last one.
Miss(r) ==
  /\ pc[r] = "comparing"
  /\ Save(r, read[r] + 1, FALSE)
  /\ Goto(r, "missed")
  /\ UNCHANGED <<issued, expired, calls, faults, crossed>>

\* Faulty: the challenge is not consumed.
HitUnconsumed(r) ==
  /\ pc[r] = "comparing"
  /\ Goto(r, "accepted")
  /\ UNCHANGED <<rows, calls, faults, races>>

\* The code is right: consume the challenge and return the record to the caller.
Hit(r) ==
  /\ pc[r] = "comparing"
  /\ Save(r, read[r], TRUE)
  /\ Goto(r, "accepted")
  /\ UNCHANGED <<issued, expired, calls, faults, crossed>>

VerifyFails(r) ==
  /\ pc[r] \in Verifying
  /\ Fault
  /\ Goto(r, "failed")
  /\ UNCHANGED <<rows, calls, races>>

---------------------------------------------------------------------------
\* Ten minutes have passed since the challenge was created.
Expire(c) ==
  /\ c \in issued \ expired
  /\ expired' = expired \cup {c}
  /\ UNCHANGED <<issued, consumed, attempts, pc, calls, faults, races>>

CreateVerificationRecord(r) ==
  \/ CreateBegin(r)
  \/ ConsumeActiveForUser(r)
  \/ Create(r)
  \/ Mail(r)
  \/ CreateFails(r)

VerifyOtp(r) ==
  \/ \E c \in Requests : FindActive(r, c)
  \/ FindNone(r)
  \/ Miss(r)
  \/ Hit(r)
  \/ VerifyFails(r)

Next == \E r \in Requests : CreateVerificationRecord(r) \/ VerifyOtp(r) \/ Expire(r)

Spec == Init /\ [][Next]_vars

---------------------------------------------------------------------------
(* Properties                                                               *)

\* Every variable keeps its type, and no row counts more than MAX_ATTEMPTS.
TypeOK ==
  /\ issued \subseteq Requests
  /\ consumed \subseteq Requests
  /\ attempts \in [Requests -> 0..MaxAttempts]
  /\ expired \subseteq Requests
  /\ pc \in [Requests -> {"idle"} \cup Creating \cup Verifying \cup Ended]
  /\ subject \in [Requests -> Subjects]
  /\ aim \in [Requests -> Requests]
  /\ read \in [Requests -> 0..MaxAttempts]
  /\ faults \in 0..MaxFaults
  /\ overran \subseteq Requests
  /\ crossed \subseteq Requests

Closed(c) == c \in consumed \/ attempts[c] = MaxAttempts
Readers(c) == {r \in Requests : pc[r] \in Verifying /\ aim[r] = c}
Dead(c) == c \in issued /\ Closed(c) /\ Readers(c) = {}

\* However calls overlap and fail, a challenge that was consumed, superseded or
\* has used up its attempts never opens again once no call holds a copy of its row.
DeadForGood == [][\A c \in Requests : Dead(c) => Dead(c)']_vars

\* "Invalidate the challenge token immediately": a code is good for one confirmation.
SingleUse ==
  \A r, q \in Requests :
    pc[r] = "accepted" /\ pc[q] = "accepted" /\ aim[r] = aim[q] => r = q

Accepted(c) == {r \in Requests : pc[r] = "accepted" /\ aim[r] = c}
Misses(c) == {r \in Requests : pc[r] = "missed" /\ aim[r] = c}
Overran(c) == {r \in overran : aim[r] = c}

\* What is left of "one confirmation" and "max 5 attempts" when calls overlap: each
\* save over a newer row gives away one confirmation, or MAX_ATTEMPTS wrong codes,
\* at most, and nothing else does.  A challenge whose calls meet no such save is
\* confirmed once and answers MAX_ATTEMPTS wrong codes.
ConfirmationsBounded ==
  \A c \in Requests : Cardinality(Accepted(c)) <= 1 + Cardinality(Overran(c))
GuessesBounded ==
  \A c \in Requests : Cardinality(Misses(c)) <= MaxAttempts * (1 + Cardinality(Overran(c)))
UsesBounded == ConfirmationsBounded /\ GuessesBounded

\* A new challenge supersedes the older ones of the same user and purpose: of those
\* that are open together at most one has met no race, of creations or of saves.
Disturbed == crossed \cup {aim[r] : r \in overran}
OneOpenChallenge ==
  \A c, d \in issued \ (consumed \cup Disturbed) : subject[c] = subject[d] => c = d

---------------------------------------------------------------------------
(* Verification implements OneTimeCode                                      *)

\* A code is good while its row says so, and for a call that found it in time.
Open == {c \in issued \ consumed :
           attempts[c] < MaxAttempts /\ (c \in expired => Readers(c) # {})}

Confirmed == {aim[r] : r \in {q \in Requests : pc[q] = "accepted"}}

Code == INSTANCE OneTimeCode WITH
          Challenges <- Requests, about <- subject, open <- Open,
          guesses <- attempts, confirmed <- Confirmed, disturbed <- Disturbed

\* The separate reads and writes of overlapping calls, with their errors and with
\* expiry in between, amount to the one-step operations of OneTimeCode; a save over a
\* newer row is its Disturb, and touches no challenge but its own.
CodeSpec == Code!Spec

---------------------------------------------------------------------------
\* The inductive invariant.  A row's attempts, and its consumedAt, account for the
\* answers given about it, but for those that each save over a newer row undid.

\* verifyOtp goes on only with a copy that has attempts left.
CopiesHaveAttempts == \A r \in Requests : pc[r] = "comparing" => read[r] < MaxAttempts

\* A challenge has a row once its call has created it, and nothing but its row; a
\* call about a row is about its subject.
RowsAreCreated ==
  /\ \A r \in Requests : pc[r] \in {"idle", "retiring", "creating"} => r \notin issued
  /\ \A r \in Requests : pc[r] = "comparing" =>
       aim[r] \in issued /\ subject[aim[r]] = subject[r]
  /\ \A c \in Requests \ issued : c \notin consumed \cup expired /\ attempts[c] = 0

\* A call that has saved is over, and answered.
OverranAnswered == \A r \in overran : pc[r] \in {"accepted", "missed"}

\* Between the two steps of createVerificationRecord no older challenge is open,
\* unless a save opened it again or it was created in between.
RetiredBeforeCreate ==
  \A r \in Requests : pc[r] = "creating" =>
    \A c \in issued \ (consumed \cup Disturbed) : subject[c] # subject[r]

Spent(c) == IF c \in consumed THEN 1 ELSE 0

AcceptedAccounted ==
  \A c \in Requests :
    IsFiniteSet(Accepted(c)) /\ Cardinality(Accepted(c)) <= Spent(c) + Cardinality(Overran(c))

MissesAccounted ==
  \A c \in Requests :
    /\ IsFiniteSet(Misses(c))
    /\ Cardinality(Misses(c)) <= attempts[c] + MaxAttempts * Cardinality(Overran(c))

RacesInv ==
  /\ \A c \in Requests : IsFiniteSet(Overran(c))
  /\ OverranAnswered
  /\ RetiredBeforeCreate
  /\ OneOpenChallenge
  /\ AcceptedAccounted
  /\ MissesAccounted

IInv ==
  /\ TypeOK
  /\ CopiesHaveAttempts
  /\ RowsAreCreated
  /\ RacesInv
====
