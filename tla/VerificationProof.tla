------------------------ MODULE VerificationProof ------------------------
(***************************************************************************)
(* Proofs about Verification, for every number of calls and attempts, and    *)
(* for every way these calls overlap.                                        *)
(***************************************************************************)
EXTENDS Verification, FiniteSetTheorems, TLAPS

\* Before any call the inductive invariant holds.
LEMMA InductiveInit == Init => IInv
<1> SUFFICES ASSUME Init PROVE IInv
  OBVIOUS
<1>1. TypeOK /\ CopiesHaveAttempts /\ RowsAreCreated
  BY VerificationBounds DEF Init, TypeOK, CopiesHaveAttempts, RowsAreCreated, Ended, Creating, Verifying
<1>2. ASSUME NEW c \in Requests
      PROVE  /\ IsFiniteSet(Overran(c)) /\ IsFiniteSet(Accepted(c)) /\ IsFiniteSet(Misses(c))
             /\ Cardinality(Overran(c)) = 0 /\ Cardinality(Accepted(c)) = 0
             /\ Cardinality(Misses(c)) = 0
  <2>1. Overran(c) = {} /\ Accepted(c) = {} /\ Misses(c) = {}
    BY DEF Init, Overran, Accepted, Misses
  <2> QED
    BY <2>1, FS_EmptySet
<1>3. AcceptedAccounted
  BY <1>2 DEF Init, AcceptedAccounted, Spent
<1>4. MissesAccounted
  <2> SUFFICES ASSUME NEW c \in Requests
               PROVE  /\ IsFiniteSet(Misses(c))
                      /\ Cardinality(Misses(c)) <= attempts[c] + MaxAttempts * Cardinality(Overran(c))
    BY DEF MissesAccounted
  <2>1. attempts[c] = 0 /\ MaxAttempts * 0 = 0
    BY VerificationBounds DEF Init
  <2> QED
    BY <1>2, <2>1
<1>5. OverranAnswered /\ RetiredBeforeCreate /\ OneOpenChallenge
  BY DEF Init, OverranAnswered, RetiredBeforeCreate, OneOpenChallenge
<1> QED
  BY <1>1, <1>2, <1>3, <1>4, <1>5 DEF IInv, RacesInv

\* Types, and the bound on the attempts of copies, survive every step.
LEMMA TypeStep == TypeOK /\ CopiesHaveAttempts /\ [Next]_vars
                    => TypeOK' /\ CopiesHaveAttempts'
<1> SUFFICES ASSUME TypeOK, CopiesHaveAttempts, [Next]_vars
             PROVE TypeOK' /\ CopiesHaveAttempts'
  OBVIOUS
<1> USE VerificationBounds DEF TypeOK, CopiesHaveAttempts, Creating, Verifying, Ended,
        Goto, Fault, rows, calls, races
<1>1. CASE UNCHANGED vars
  BY <1>1 DEF vars
<1>2. ASSUME NEW r \in Requests, CreateVerificationRecord(r)
      PROVE TypeOK' /\ CopiesHaveAttempts'
  BY <1>2 DEF CreateVerificationRecord, CreateBegin, ConsumeActiveForUser, Create, Mail,
              CreateFails
<1>3. ASSUME NEW r \in Requests, VerifyOtp(r)
      PROVE TypeOK' /\ CopiesHaveAttempts'
  <2>1. ASSUME NEW c \in Requests, FindActive(r, c)
        PROVE TypeOK' /\ CopiesHaveAttempts'
    BY <2>1 DEF FindActive, Names, Active
  <2>2. CASE FindNone(r)
    BY <2>2 DEF FindNone
  <2>3. CASE Miss(r)
    BY <2>3 DEF Miss, Save
  <2>4. CASE Hit(r)
    BY <2>4 DEF Hit, Save
  <2>5. CASE VerifyFails(r)
    BY <2>5 DEF VerifyFails
  <2> QED
    BY <1>3, <2>1, <2>2, <2>3, <2>4, <2>5 DEF VerifyOtp
<1>4. ASSUME NEW r \in Requests, Expire(r)
      PROVE TypeOK' /\ CopiesHaveAttempts'
  BY <1>4 DEF Expire
<1> QED
  BY <1>1, <1>2, <1>3, <1>4 DEF Next

\* A row is made by its own call and written by calls that found it only.
LEMMA RowsStep == TypeOK /\ RowsAreCreated /\ [Next]_vars => RowsAreCreated'
<1> SUFFICES ASSUME TypeOK, RowsAreCreated, [Next]_vars PROVE RowsAreCreated'
  OBVIOUS
<1> USE DEF TypeOK, RowsAreCreated, Goto, Fault, rows, calls, races, Creating, Verifying
<1>1. CASE UNCHANGED vars
  BY <1>1 DEF vars
<1>2. ASSUME NEW r \in Requests, CreateVerificationRecord(r) PROVE RowsAreCreated'
  BY <1>2 DEF CreateVerificationRecord, CreateBegin, ConsumeActiveForUser, Create, Mail,
              CreateFails
<1>3. ASSUME NEW r \in Requests, NEW c \in Requests, FindActive(r, c) PROVE RowsAreCreated'
  BY <1>3 DEF FindActive, Names
<1>4. ASSUME NEW r \in Requests, FindNone(r) \/ VerifyFails(r) PROVE RowsAreCreated'
  BY <1>4 DEF FindNone, VerifyFails
<1>5. ASSUME NEW r \in Requests, Miss(r) \/ Hit(r) PROVE RowsAreCreated'
  BY <1>5 DEF Miss, Hit, Save
<1>6. ASSUME NEW r \in Requests, Expire(r) PROVE RowsAreCreated'
  BY <1>6 DEF Expire
<1> QED
  BY <1>1, <1>2, <1>3, <1>4, <1>5, <1>6 DEF Next, VerifyOtp

\* The accounts of answers stay right in a step that gives none.
LEMMA AccountsKept ==
  ASSUME TypeOK, RacesInv, consumed \subseteq consumed', attempts' = attempts, overran' = overran,
         \A q \in Requests : pc[q] \in {"accepted", "missed"} =>
                               pc'[q] = pc[q] /\ aim'[q] = aim[q],
         \A q \in Requests : pc'[q] \in {"accepted", "missed"} => pc[q] = pc'[q]
  PROVE  /\ \A c \in Requests : IsFiniteSet(Overran(c)')
         /\ OverranAnswered' /\ AcceptedAccounted' /\ MissesAccounted'
<1>1. \A q \in overran : q \in Requests /\ pc[q] \in {"accepted", "missed"} /\ aim'[q] = aim[q]
  BY DEF RacesInv, OverranAnswered, TypeOK
<1>2. ASSUME NEW c \in Requests
      PROVE  Overran(c)' = Overran(c) /\ Accepted(c)' = Accepted(c) /\ Misses(c)' = Misses(c)
  BY <1>1 DEF Overran, Accepted, Misses
<1>3. OverranAnswered'
  BY <1>1 DEF OverranAnswered
<1>4. AcceptedAccounted'
  <2> SUFFICES ASSUME NEW c \in Requests
               PROVE  /\ IsFiniteSet(Accepted(c)')
                      /\ Cardinality(Accepted(c)') <= Spent(c)' + Cardinality(Overran(c)')
    BY DEF AcceptedAccounted
  <2>1. IsFiniteSet(Accepted(c)) /\ Cardinality(Accepted(c)) <= Spent(c) + Cardinality(Overran(c))
    BY DEF RacesInv, AcceptedAccounted
  <2>2. Cardinality(Accepted(c)) \in Nat /\ Cardinality(Overran(c)) \in Nat
    BY <2>1, FS_CardinalityType DEF RacesInv
  <2>3. Spent(c) \in Nat /\ Spent(c)' \in Nat /\ Spent(c) <= Spent(c)'
    BY DEF Spent
  <2> QED
    BY <1>2, <2>1, <2>2, <2>3
<1>5. MissesAccounted'
  BY <1>2 DEF RacesInv, MissesAccounted
<1> QED
  BY <1>2, <1>3, <1>4, <1>5 DEF RacesInv

\* One challenge at most stays open and undisturbed in a step that opens none.
LEMMA OpenKept ==
  ASSUME RacesInv, UNCHANGED subject,
         issued' \ (consumed' \cup Disturbed') \subseteq issued \ (consumed \cup Disturbed),
         \A q \in Requests : pc'[q] = "creating" => pc[q] = "creating"
  PROVE  RetiredBeforeCreate' /\ OneOpenChallenge'
  BY DEF RacesInv, RetiredBeforeCreate, OneOpenChallenge

\* A step that answers no code and creates no challenge.
LEMMA BystanderStep ==
  ASSUME TypeOK, RacesInv, consumed \subseteq consumed',
         UNCHANGED <<issued, attempts, subject, overran, crossed>>,
         \A q \in Requests : pc[q] \in {"accepted", "missed"} =>
                               pc'[q] = pc[q] /\ aim'[q] = aim[q],
         \A q \in Requests : pc'[q] \in {"accepted", "missed"} => pc[q] = pc'[q],
         \A q \in Requests : pc'[q] = "creating" => pc[q] = "creating"
  PROVE  RacesInv'
<1>1. Disturbed' = Disturbed
  BY DEF Disturbed, RacesInv, OverranAnswered, TypeOK
<1>2. RetiredBeforeCreate' /\ OneOpenChallenge'
  BY <1>1, OpenKept
<1> QED
  BY <1>2, AccountsKept DEF RacesInv

\* Creating a challenge keeps the accounts, and leaves one undisturbed.
LEMMA CreateStep ==
  ASSUME TypeOK, RowsAreCreated, RacesInv, NEW r \in Requests, CreateVerificationRecord(r)
  PROVE  RacesInv'
<1> USE DEF TypeOK, Creating, Verifying, Ended, Goto, Fault, rows, calls, races
<1>1. CASE CreateBegin(r) \/ Mail(r) \/ CreateFails(r)
  BY <1>1, BystanderStep DEF CreateBegin, Mail, CreateFails
<1>2. CASE ConsumeActiveForUser(r)
  <2> USE <1>2 DEF ConsumeActiveForUser
  <2>1. Disturbed' = Disturbed
    BY DEF Disturbed
  <2>2. RetiredBeforeCreate' /\ OneOpenChallenge'
    BY <2>1 DEF RacesInv, RetiredBeforeCreate, OneOpenChallenge
  <2> QED
    BY <2>2, AccountsKept DEF RacesInv
<1>3. CASE Create(r)
  <2> USE <1>3 DEF Create
  <2>1. Disturbed \subseteq Disturbed'
    BY DEF Disturbed
  <2>2. RetiredBeforeCreate'
    <3> SUFFICES ASSUME NEW q \in Requests, pc'[q] = "creating",
                        NEW c \in issued' \ (consumed' \cup Disturbed')
                 PROVE  subject'[c] # subject'[q]
      BY DEF RetiredBeforeCreate
    <3>1. q # r /\ pc[q] = "creating"
      OBVIOUS
    <3>2. CASE c = r
      <4>1. r \notin crossed'
        BY <3>2 DEF Disturbed
      <4> QED
        BY <3>1, <3>2, <4>1
    <3>3. CASE c # r
      BY <2>1, <3>1, <3>3 DEF RacesInv, RetiredBeforeCreate
    <3> QED
      BY <3>2, <3>3
  <2>3. OneOpenChallenge'
    BY <2>1 DEF RacesInv, OneOpenChallenge, RetiredBeforeCreate
  <2> QED
    BY <2>2, <2>3, AccountsKept DEF RacesInv
<1> QED
  BY <1>1, <1>2, <1>3 DEF CreateVerificationRecord

\* One more save over a newer row: MAX_ATTEMPTS wrong codes more.
LEMMA OneMore ==
  ASSUME NEW k \in Nat
  PROVE  /\ MaxAttempts * k \in Nat
         /\ MaxAttempts * (k + 1) = MaxAttempts * k + MaxAttempts
  BY VerificationBounds

\* The answer to a code keeps the accounts: its save is of the current row, or counts
\* as one over a newer row.
LEMMA AnswerStep ==
  ASSUME TypeOK, CopiesHaveAttempts, RowsAreCreated, RacesInv,
         NEW r \in Requests, Miss(r) \/ Hit(r), NEW c \in Requests, c = aim[r]
  PROVE  RacesInv'
<1>1. /\ pc[r] = "comparing" /\ c \in Requests /\ read[r] \in 0..MaxAttempts
      /\ read[r] < MaxAttempts /\ attempts[c] \in 0..MaxAttempts
  BY DEF TypeOK, CopiesHaveAttempts, Miss, Hit
<1>2. UNCHANGED <<issued, subject, aim, read, crossed>>
  BY DEF Miss, Hit, calls
<1>3. \A q \in Requests \ {r} : pc'[q] = pc[q]
  BY DEF TypeOK, Miss, Hit, Goto
<1>4. pc' = [pc EXCEPT ![r] = pc'[r]] /\ pc'[r] \in {"missed", "accepted"}
  BY DEF TypeOK, Miss, Hit, Goto
<1>5. r \notin overran
  BY <1>1 DEF RacesInv, OverranAnswered
<1>6. overran' = IF Current(r) THEN overran ELSE overran \cup {r}
  BY DEF Miss, Hit, Save
<1>7. \A d \in Requests \ {c} : attempts'[d] = attempts[d] /\ (d \in consumed' <=> d \in consumed)
  BY DEF TypeOK, Miss, Hit, Save
<1>8. OverranAnswered'
  BY <1>3, <1>4, <1>6 DEF TypeOK, RacesInv, OverranAnswered
<1>9. RetiredBeforeCreate' /\ OneOpenChallenge'
  <2>1. Disturbed \subseteq Disturbed'
    BY <1>2, <1>6 DEF Disturbed
  <2>2. ~Current(r) => c \in Disturbed'
    BY <1>2, <1>6 DEF Disturbed
  <2>3. Current(r) => c \notin consumed
    BY DEF Current
  <2>4. consumed \ {c} \subseteq consumed'
    BY DEF Miss, Hit, Save
  <2>5. issued' \ (consumed' \cup Disturbed') \subseteq issued \ (consumed \cup Disturbed)
    BY <1>2, <2>1, <2>2, <2>3, <2>4
  <2>6. \A q \in Requests : pc'[q] = "creating" => pc[q] = "creating"
    BY <1>3, <1>4
  <2> QED
    BY <1>2, <2>5, <2>6, OpenKept
<1>10. ASSUME NEW d \in Requests
       PROVE  /\ IsFiniteSet(Overran(d)') /\ IsFiniteSet(Accepted(d)') /\ IsFiniteSet(Misses(d)')
              /\ Cardinality(Accepted(d)') <= Spent(d)' + Cardinality(Overran(d)')
              /\ Cardinality(Misses(d)') <=
                   attempts'[d] + MaxAttempts * Cardinality(Overran(d)')
  <2>1. /\ IsFiniteSet(Overran(d)) /\ IsFiniteSet(Accepted(d)) /\ IsFiniteSet(Misses(d))
        /\ Cardinality(Accepted(d)) <= Spent(d) + Cardinality(Overran(d))
        /\ Cardinality(Misses(d)) <= attempts[d] + MaxAttempts * Cardinality(Overran(d))
    BY DEF RacesInv, AcceptedAccounted, MissesAccounted
  <2>2. /\ Cardinality(Overran(d)) \in Nat /\ Cardinality(Accepted(d)) \in Nat
        /\ Cardinality(Misses(d)) \in Nat
    BY <2>1, FS_CardinalityType
  <2>3. CASE d # c
    <3>1. Overran(d)' = Overran(d)
      BY <1>2, <1>6, <2>3 DEF Overran
    <3>2. Accepted(d)' = Accepted(d) /\ Misses(d)' = Misses(d)
      BY <1>2, <1>3, <2>3 DEF Accepted, Misses
    <3>3. Spent(d)' = Spent(d) /\ attempts'[d] = attempts[d]
      BY <1>7, <2>3 DEF Spent
    <3> QED
      BY <2>1, <3>1, <3>2, <3>3
  <2>4. CASE d = c
    <3> DEFINE k == Cardinality(Overran(c))
               k1 == Cardinality(Overran(c)')
    <3>0. k \in Nat /\ MaxAttempts * k \in Nat
          /\ MaxAttempts * (k + 1) = MaxAttempts * k + MaxAttempts
      BY <2>2, <2>4, OneMore
    <3>1. IsFiniteSet(Overran(c)') /\ k1 = IF Current(r) THEN k ELSE k + 1
      <4>1. CASE Current(r)
        <5>1. Overran(c)' = Overran(c)
          BY <1>2, <1>6, <4>1 DEF Overran
        <5> QED
          BY <2>1, <2>4, <4>1, <5>1
      <4>2. CASE ~Current(r)
        <5>1. Overran(c)' = Overran(c) \cup {r} /\ r \notin Overran(c)
          BY <1>2, <1>5, <1>6, <4>2 DEF Overran
        <5> QED
          BY <2>1, <2>4, <4>2, <5>1, FS_AddElement
      <4> QED
        BY <4>1, <4>2
    <3>2. CASE Miss(r)
      <4>1. Accepted(c)' = Accepted(c)
        BY <1>1, <1>2, <1>3, <3>2 DEF TypeOK, Accepted, Miss, Goto
      <4>2. Misses(c)' = Misses(c) \cup {r} /\ r \notin Misses(c)
        BY <1>1, <1>2, <1>3, <3>2 DEF TypeOK, Misses, Miss, Goto
      <4>3. IsFiniteSet(Misses(c)') /\ Cardinality(Misses(c)') = Cardinality(Misses(c)) + 1
        BY <2>1, <2>4, <4>2, FS_AddElement
      <4>4. attempts'[c] = read[r] + 1 /\ Spent(c)' = 0
        BY <1>1, <3>2 DEF TypeOK, Miss, Save, Spent
      <4>5. Current(r) => Spent(c) = 0 /\ attempts[c] = read[r]
        BY DEF Current, Spent
      <4>6. Spent(c) \in {0, 1}
        BY DEF Spent
      <4>7. Cardinality(Accepted(c)') <= Spent(c)' + k1
        BY <2>1, <2>2, <2>4, <3>0, <3>1, <4>1, <4>4, <4>5, <4>6
      <4>8. Cardinality(Misses(c)') <= attempts'[c] + MaxAttempts * k1
        <5>1. CASE Current(r)
          BY <1>1, <2>1, <2>2, <2>4, <3>0, <3>1, <4>3, <4>4, <4>5, <5>1, VerificationBounds
        <5>2. CASE ~Current(r)
          BY <1>1, <2>1, <2>2, <2>4, <3>0, <3>1, <4>3, <4>4, <5>2, VerificationBounds
        <5> QED
          BY <5>1, <5>2
      <4> QED
        BY <2>1, <2>4, <3>1, <4>1, <4>3, <4>7, <4>8
    <3>3. CASE Hit(r)
      <4>1. Misses(c)' = Misses(c)
        BY <1>1, <1>2, <1>3, <3>3 DEF TypeOK, Misses, Hit, Goto
      <4>2. Accepted(c)' = Accepted(c) \cup {r} /\ r \notin Accepted(c)
        BY <1>1, <1>2, <1>3, <3>3 DEF TypeOK, Accepted, Hit, Goto
      <4>3. IsFiniteSet(Accepted(c)') /\ Cardinality(Accepted(c)') = Cardinality(Accepted(c)) + 1
        BY <2>1, <2>4, <4>2, FS_AddElement
      <4>4. attempts'[c] = read[r] /\ Spent(c)' = 1
        BY <1>1, <3>3 DEF TypeOK, Hit, Save, Spent
      <4>5. Current(r) => Spent(c) = 0 /\ attempts[c] = read[r]
        BY DEF Current, Spent
      <4>6. Spent(c) \in {0, 1}
        BY DEF Spent
      <4>7. Cardinality(Accepted(c)') <= Spent(c)' + k1
        BY <2>1, <2>2, <2>4, <3>0, <3>1, <4>3, <4>4, <4>5, <4>6
      <4>8. Cardinality(Misses(c)') <= attempts'[c] + MaxAttempts * k1
        <5>1. CASE Current(r)
          BY <1>1, <2>1, <2>2, <2>4, <3>0, <3>1, <4>1, <4>4, <4>5, <5>1, VerificationBounds
        <5>2. CASE ~Current(r)
          BY <1>1, <2>1, <2>2, <2>4, <3>0, <3>1, <4>1, <4>4, <5>2, VerificationBounds
        <5> QED
          BY <5>1, <5>2
      <4> QED
        BY <2>1, <2>4, <3>1, <4>1, <4>3, <4>7, <4>8
    <3> QED
      BY <3>2, <3>3
  <2> QED
    BY <2>3, <2>4
<1>11. AcceptedAccounted' /\ MissesAccounted'
  BY <1>10 DEF AcceptedAccounted, MissesAccounted
<1> QED
  BY <1>8, <1>9, <1>10, <1>11 DEF RacesInv

\* Checking a code keeps the accounts.
LEMMA VerifyStep ==
  ASSUME TypeOK, CopiesHaveAttempts, RowsAreCreated, RacesInv,
         NEW r \in Requests, VerifyOtp(r)
  PROVE  RacesInv'
<1> USE DEF TypeOK, Goto, Fault, rows, calls, races
<1>1. ASSUME NEW c \in Requests, FindActive(r, c) PROVE RacesInv'
  BY <1>1, BystanderStep DEF FindActive
<1>2. CASE FindNone(r) \/ VerifyFails(r)
  BY <1>2, BystanderStep DEF FindNone, VerifyFails, Verifying
<1>3. CASE Miss(r) \/ Hit(r)
  <2>1. aim[r] \in Requests
    OBVIOUS
  <2> QED
    BY <1>3, <2>1, AnswerStep
<1> QED
  BY <1>1, <1>2, <1>3 DEF VerifyOtp

\* No step breaks the inductive invariant.
LEMMA InductiveStep == IInv /\ [Next]_vars => IInv'
<1> SUFFICES ASSUME IInv, [Next]_vars PROVE IInv'
  OBVIOUS
<1>1. TypeOK' /\ CopiesHaveAttempts' /\ RowsAreCreated'
  BY TypeStep, RowsStep DEF IInv
<1>2. RacesInv'
  <2>0. TypeOK /\ CopiesHaveAttempts /\ RowsAreCreated /\ RacesInv
    BY DEF IInv
  <2>1. CASE UNCHANGED vars
    BY <2>0, <2>1, BystanderStep DEF vars
  <2>2. ASSUME NEW r \in Requests, CreateVerificationRecord(r) PROVE RacesInv'
    BY <2>0, <2>2, CreateStep
  <2>3. ASSUME NEW r \in Requests, VerifyOtp(r) PROVE RacesInv'
    BY <2>0, <2>3, VerifyStep
  <2>4. ASSUME NEW r \in Requests, Expire(r) PROVE RacesInv'
    BY <2>0, <2>4, BystanderStep DEF Expire, calls, races
  <2> QED
    BY <2>1, <2>2, <2>3, <2>4 DEF Next
<1> QED
  BY <1>1, <1>2 DEF IInv

\* The inductive invariant holds in every reachable state of the two operations.
THEOREM Inductive == Spec => []IInv
  BY InductiveInit, InductiveStep, PTL DEF Spec

\* TypeOK: no row ever counts more than MAX_ATTEMPTS, however calls overlap.
THEOREM TypeCorrect == Spec => []TypeOK
<1>1. IInv => TypeOK
  BY DEF IInv
<1> QED
  BY <1>1, Inductive, PTL

\* DeadForGood: a consumed or exhausted challenge that no call holds a copy of stays
\* closed, however calls overlap.
THEOREM ClosedChallengesStayClosed == Spec => DeadForGood
<1>1. IInv /\ [Next]_vars => [\A c \in Requests : Dead(c) => Dead(c)']_vars
  <2> SUFFICES ASSUME IInv, [Next]_vars, NEW c \in Requests, Dead(c) PROVE Dead(c)'
    OBVIOUS
  <2> USE DEF IInv, TypeOK, Dead, Closed, Readers, Verifying, Creating, Goto, rows, calls, races
  <2>1. CASE UNCHANGED vars
    BY <2>1 DEF vars
  <2>2. ASSUME NEW r \in Requests, CreateVerificationRecord(r) PROVE Dead(c)'
    BY <2>2 DEF CreateVerificationRecord, CreateBegin, ConsumeActiveForUser, Create, Mail,
                CreateFails
  <2>3. ASSUME NEW r \in Requests, NEW d \in Requests, FindActive(r, d) PROVE Dead(c)'
    BY <2>3, VerificationBounds DEF FindActive, Active
  <2>4. ASSUME NEW r \in Requests, Miss(r) \/ Hit(r) PROVE Dead(c)'
    <3>1. aim[r] # c
      BY <2>4 DEF Miss, Hit
    <3> QED
      BY <2>4, <3>1 DEF Miss, Hit, Save
  <2>5. ASSUME NEW r \in Requests, FindNone(r) \/ VerifyFails(r) PROVE Dead(c)'
    BY <2>5 DEF FindNone, VerifyFails
  <2>6. ASSUME NEW r \in Requests, Expire(r) PROVE Dead(c)'
    BY <2>6 DEF Expire
  <2> QED
    BY <2>1, <2>2, <2>3, <2>4, <2>5, <2>6 DEF Next, VerifyOtp
<1> QED
  BY <1>1, Inductive, PTL DEF Spec, DeadForGood

\* UsesBounded: each save over a newer row gives away one confirmation, or
\* MAX_ATTEMPTS wrong codes, and without one a code is good for one confirmation and
\* a challenge for MAX_ATTEMPTS wrong codes.
THEOREM RacesAreBounded == Spec => []UsesBounded
<1>1. IInv => UsesBounded
  <2> SUFFICES ASSUME IInv, NEW c \in Requests
               PROVE  /\ Cardinality(Accepted(c)) <= 1 + Cardinality(Overran(c))
                      /\ Cardinality(Misses(c)) <= MaxAttempts * (1 + Cardinality(Overran(c)))
    BY DEF UsesBounded, ConfirmationsBounded, GuessesBounded
  <2>1. /\ IsFiniteSet(Overran(c)) /\ IsFiniteSet(Accepted(c)) /\ IsFiniteSet(Misses(c))
        /\ Cardinality(Accepted(c)) <= Spent(c) + Cardinality(Overran(c))
        /\ Cardinality(Misses(c)) <= attempts[c] + MaxAttempts * Cardinality(Overran(c))
    BY DEF IInv, RacesInv, AcceptedAccounted, MissesAccounted
  <2>2. /\ Cardinality(Overran(c)) \in Nat /\ Cardinality(Accepted(c)) \in Nat
        /\ Cardinality(Misses(c)) \in Nat
    BY <2>1, FS_CardinalityType
  <2>3. Spent(c) \in {0, 1} /\ attempts[c] \in 0..MaxAttempts
    BY DEF Spent, IInv, TypeOK
  <2>4. Cardinality(Accepted(c)) <= 1 + Cardinality(Overran(c))
    BY <2>1, <2>2, <2>3
  <2> DEFINE k == Cardinality(Overran(c))
  <2>5. MaxAttempts * k \in Nat /\ MaxAttempts * (1 + k) = MaxAttempts * k + MaxAttempts
    <3>1. 1 + k = k + 1
      BY <2>2
    <3> QED
      BY <2>2, <3>1, OneMore
  <2>6. Cardinality(Misses(c)) <= MaxAttempts * (1 + k)
    BY <2>1, <2>2, <2>3, <2>5, VerificationBounds
  <2> QED
    BY <2>4, <2>6
<1> QED
  BY <1>1, Inductive, PTL

\* OneOpenChallenge: of the challenges of a user and purpose that are open together,
\* at most one has met no race.
THEOREM Superseded == Spec => []OneOpenChallenge
<1>1. IInv => OneOpenChallenge
  BY DEF IInv, RacesInv
<1> QED
  BY <1>1, Inductive, PTL

\* CodeSpec: calls have the effect of the one-step operations of OneTimeCode, however
\* they overlap; a save over a newer row is its Disturb.
THEOREM ImplementsOneTimeCode == Spec => CodeSpec
<1> DEFINE map == <<subject, issued, Open, attempts, Confirmed, Disturbed>>
<1>1. Init => Code!Init
  BY DEF Init, Code!Init, Open, Confirmed, Disturbed
<1>2. IInv /\ IInv' /\ [Next]_vars => [Code!Next]_map
  <2> SUFFICES ASSUME IInv, IInv', [Next]_vars PROVE Code!Next \/ UNCHANGED map
    OBVIOUS
  <2> USE DEF Goto, Fault, rows, calls, races, Creating, Verifying, Readers
  <2>0. /\ TypeOK /\ TypeOK' /\ CopiesHaveAttempts /\ RowsAreCreated
        /\ OverranAnswered /\ RetiredBeforeCreate
    BY DEF IInv, RacesInv
  <2>1. CASE UNCHANGED vars
    BY <2>1 DEF vars, Open, Confirmed, Disturbed
  \* The step of a call that writes no row, before and after which it holds no copy.
  <2>2. ASSUME NEW r \in Requests, CreateBegin(r) \/ Mail(r) \/ CreateFails(r) \/ FindNone(r)
        PROVE  UNCHANGED map
    <3>1. \A q \in Requests : pc'[q] = "comparing" <=> pc[q] = "comparing"
      BY <2>0, <2>2 DEF TypeOK, CreateBegin, Mail, CreateFails, FindNone
    <3>2. \A q \in Requests : pc'[q] = "accepted" <=> pc[q] = "accepted"
      BY <2>0, <2>2 DEF TypeOK, CreateBegin, Mail, CreateFails, FindNone
    <3>3. UNCHANGED <<issued, consumed, attempts, expired, subject, aim, overran, crossed>>
      BY <2>2 DEF CreateBegin, Mail, CreateFails, FindNone
    <3> QED
      BY <3>1, <3>2, <3>3 DEF Open, Confirmed, Disturbed
  <2>3. ASSUME NEW r \in Requests, ConsumeActiveForUser(r) PROVE Code!Withdraw(subject[r])
    <3>1. Open' = {c \in Open : subject[c] # subject[r]}
      BY <2>0, <2>3 DEF TypeOK, ConsumeActiveForUser, Open
    <3>2. Confirmed' = Confirmed /\ Disturbed' = Disturbed
      BY <2>0, <2>3 DEF TypeOK, ConsumeActiveForUser, Confirmed, Disturbed
    <3>3. Open' = Open \ Code!OpenFor(subject[r])
      BY <3>1 DEF Code!OpenFor
    <3> QED
      BY <2>3, <3>2, <3>3 DEF ConsumeActiveForUser, Code!Withdraw
  <2>4. ASSUME NEW r \in Requests, Create(r) PROVE Code!Issue(r)
    <3>1. r \notin issued /\ r \notin consumed \cup expired /\ attempts[r] = 0
      BY <2>0, <2>4 DEF Create, RowsAreCreated
    <3>2. \A c \in Open : subject[c] = subject[r] => c \in Disturbed
      BY <2>0, <2>4 DEF Create, RetiredBeforeCreate, Open
    <3>3. Open' = Open \cup {r}
      BY <2>0, <2>4, <3>1, VerificationBounds DEF TypeOK, Create, Open
    <3>4. Confirmed' = Confirmed
      BY <2>0, <2>4 DEF TypeOK, Create, Confirmed
    <3>5. Disturbed' = Disturbed \/ Disturbed' = Disturbed \cup {r}
      BY <2>4 DEF Create, Disturbed
    <3>6. Code!OpenFor(subject[r]) \ Disturbed = {}
      BY <3>2 DEF Code!OpenFor
    <3> QED
      BY <2>4, <3>1, <3>3, <3>4, <3>5, <3>6 DEF Create, Code!Issue
  <2>5. ASSUME NEW r \in Requests, NEW c \in Requests, FindActive(r, c) PROVE UNCHANGED map
    <3>1. Open' = Open
      BY <2>0, <2>5 DEF TypeOK, FindActive, Active, Open
    <3>2. Confirmed' = Confirmed
      BY <2>0, <2>5 DEF TypeOK, FindActive, Confirmed
    <3>3. \A q \in overran : aim'[q] = aim[q]
      BY <2>0, <2>5 DEF TypeOK, FindActive, OverranAnswered
    <3>4. Disturbed' = Disturbed
      BY <2>5, <3>3 DEF FindActive, Disturbed
    <3> QED
      BY <2>5, <3>1, <3>2, <3>4 DEF FindActive
  \* What an answer does to the row of its challenge, and to nothing else.
  <2>6. ASSUME NEW r \in Requests, Miss(r) \/ Hit(r)
        PROVE  /\ aim[r] \in issued /\ subject[aim[r]] = subject[r]
               /\ Open' \ {aim[r]} = Open \ {aim[r]}
               /\ Disturbed' = IF Current(r) THEN Disturbed ELSE Disturbed \cup {aim[r]}
               /\ Current(r) => aim[r] \in Open /\ read[r] = attempts[aim[r]]
               /\ UNCHANGED <<issued, subject>>
    <3>0. /\ pc[r] = "comparing" /\ aim[r] \in Requests /\ aim[r] \in issued
          /\ subject[aim[r]] = subject[r] /\ read[r] < MaxAttempts
      BY <2>0, <2>6 DEF TypeOK, Miss, Hit, RowsAreCreated, CopiesHaveAttempts
    <3>1. UNCHANGED <<issued, subject, expired, aim, crossed>>
      BY <2>6 DEF Miss, Hit
    <3>2. \A c \in Requests \ {aim[r]} :
            attempts'[c] = attempts[c] /\ (c \in consumed' <=> c \in consumed)
      BY <2>0, <2>6 DEF TypeOK, Miss, Hit, Save
    <3>3. \A c \in Requests \ {aim[r]} : Readers(c)' = Readers(c)
      BY <2>0, <2>6, <3>1 DEF TypeOK, Miss, Hit
    <3>4. Open' \ {aim[r]} = Open \ {aim[r]}
      BY <2>0, <3>1, <3>2, <3>3 DEF TypeOK, Open
    <3>5. overran' = IF Current(r) THEN overran ELSE overran \cup {r}
      BY <2>6 DEF Miss, Hit, Save
    <3>6. Disturbed' = IF Current(r) THEN Disturbed ELSE Disturbed \cup {aim[r]}
      BY <3>1, <3>5 DEF Disturbed
    <3>7. Current(r) => aim[r] \in Open /\ read[r] = attempts[aim[r]]
      BY <3>0 DEF Current, Open
    <3> QED
      BY <3>0, <3>1, <3>4, <3>6, <3>7
  <2>7. ASSUME NEW r \in Requests, Miss(r)
        PROVE  Code!Guess(aim[r]) \/ Code!Disturb(aim[r])
    <3>1. attempts' = [attempts EXCEPT ![aim[r]] = read[r] + 1]
      BY <2>7 DEF Miss, Save
    <3>2. aim[r] \in Requests /\ read[r] + 1 \in 0..MaxAttempts
      BY <2>0, <2>7, VerificationBounds DEF TypeOK, Miss, CopiesHaveAttempts
    <3>3. Confirmed' = Confirmed
      BY <2>0, <2>7 DEF TypeOK, Miss, Confirmed
    <3>4. attempts'[aim[r]] >= MaxAttempts => aim[r] \notin Open'
      BY <2>0, <3>1, <3>2, VerificationBounds DEF TypeOK, Open
    <3>5. CASE Current(r)
      <4>1. aim[r] \in Open /\ attempts' = [attempts EXCEPT ![aim[r]] = @ + 1]
        BY <2>6, <2>7, <3>1, <3>5
      <4>2. Open' = Open \/ Open' = Open \ {aim[r]}
        BY <2>6, <2>7, <4>1
      <4> QED
        BY <2>6, <2>7, <3>3, <3>4, <3>5, <4>1, <4>2 DEF Code!Guess
    <3>6. CASE ~Current(r)
      <4>1. Open' \in {Open, Open \cup {aim[r]}, Open \ {aim[r]}}
        BY <2>6, <2>7
      <4> QED
        BY <2>6, <2>7, <3>1, <3>2, <3>3, <3>6, <4>1 DEF Code!Disturb
    <3> QED
      BY <3>5, <3>6
  <2>8. ASSUME NEW r \in Requests, Hit(r)
        PROVE  Code!Confirm(aim[r]) \/ Code!Disturb(aim[r])
    <3>1. attempts' = [attempts EXCEPT ![aim[r]] = read[r]] /\ aim[r] \in consumed'
      BY <2>8 DEF Hit, Save
    <3>2. aim[r] \in Requests /\ read[r] \in 0..MaxAttempts
      BY <2>0, <2>8 DEF TypeOK
    <3>3. Confirmed' = Confirmed \cup {aim[r]}
      BY <2>0, <2>8 DEF TypeOK, Hit, Confirmed
    <3>4. Open' = Open \ {aim[r]}
      <4>1. aim[r] \notin Open'
        BY <3>1 DEF Open
      <4> QED
        BY <2>6, <2>8, <4>1
    <3>5. CASE Current(r)
      <4>1. attempts' = attempts
        BY <2>0, <2>6, <2>8, <3>1, <3>5 DEF TypeOK
      <4> QED
        BY <2>6, <2>8, <3>3, <3>4, <3>5, <4>1 DEF Code!Confirm
    <3>6. CASE ~Current(r)
      BY <2>6, <2>8, <3>1, <3>2, <3>3, <3>4, <3>6 DEF Code!Disturb
    <3> QED
      BY <3>5, <3>6
  <2>9. ASSUME NEW r \in Requests, VerifyFails(r) PROVE Code!Withdraw(subject[r])
    <3>0. aim[r] \in Requests /\ subject[aim[r]] = subject[r]
      BY <2>0, <2>9 DEF TypeOK, VerifyFails, RowsAreCreated
    <3>1. \A c \in Requests \ {aim[r]} : Readers(c)' = Readers(c)
      BY <2>0, <2>9 DEF TypeOK, VerifyFails
    <3>2. Open' \subseteq Open /\ Open \ Open' \subseteq {aim[r]}
      BY <2>0, <2>9, <3>1 DEF TypeOK, VerifyFails, Open
    <3>3. Open' = Open \ (Open \ Open') /\ Open \ Open' \subseteq Code!OpenFor(subject[r])
      BY <3>0, <3>2 DEF Code!OpenFor
    <3>4. Confirmed' = Confirmed /\ Disturbed' = Disturbed
      BY <2>0, <2>9 DEF TypeOK, VerifyFails, Confirmed, Disturbed
    <3> QED
      BY <2>9, <3>3, <3>4 DEF VerifyFails, Code!Withdraw
  <2>10. ASSUME NEW c \in Requests, Expire(c) PROVE Code!Withdraw(subject[c])
    <3>1. Open' \subseteq Open /\ Open \ Open' \subseteq {c}
      BY <2>0, <2>10 DEF TypeOK, Expire, Open
    <3>2. Open' = Open \ (Open \ Open') /\ Open \ Open' \subseteq Code!OpenFor(subject[c])
      BY <3>1 DEF Code!OpenFor
    <3>3. Confirmed' = Confirmed /\ Disturbed' = Disturbed
      BY <2>10 DEF Expire, Confirmed, Disturbed
    <3> QED
      BY <2>10, <3>2, <3>3 DEF Expire, Code!Withdraw
  <2>11. \A r \in Requests : aim[r] \in Requests /\ subject[r] \in Subjects
    BY <2>0 DEF TypeOK
  <2> QED
    BY <2>1, <2>2, <2>3, <2>4, <2>5, <2>7, <2>8, <2>9, <2>10, <2>11
       DEF Next, CreateVerificationRecord, VerifyOtp, Code!Next
<1> QED
  BY <1>1, <1>2, Inductive, PTL DEF Spec, CodeSpec, Code!Spec
====
