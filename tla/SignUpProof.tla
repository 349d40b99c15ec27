--------------------------- MODULE SignUpProof ---------------------------
(***************************************************************************)
(* Proofs about SignUp, for every set of calls and addresses, and any number *)
(* of mails that are not sent.                                              *)
(***************************************************************************)
EXTENDS SignUp, TLAPS

---------------------------------------------------------------------------
(* What a step of one call leaves as it was                                 *)

\* A step of call r: the other calls stand where they stood, r does not go back to
\* the start, and what a sign-up has written stays what it wrote.
StepOf(r) ==
  /\ \A q \in Requests \ {r} : pc'[q] = pc[q] /\ about'[q] = about[q] /\ copy'[q] = copy[q]
  /\ pc'[r] # "idle"
  /\ pc[r] \in SigningUp => pc'[r] \in SigningUp /\ about'[r] = about[r] /\ copy'[r] = copy[r]
  /\ proved \subseteq proved'
  /\ mailed \subseteq mailed'

\* Then whatever was known, signed up, proved or founded is so after it.
LEMMA FactsStay ==
  ASSUME NEW r \in Requests, StepOf(r), GoneIsNoRow
  PROVE  /\ \A u \in Ids : Known(u) => Known(u)'
         /\ \A u : SignedUp(u) => SignedUp(u)' /\ copy'[u] = copy[u]
         /\ \A u, a : Proved(u, a) => Proved(u, a)'
         /\ \A u, a : Founded(u, a) => Founded(u, a)'
<1>1. \A u \in Ids : Known(u) => Known(u)'
  BY DEF StepOf, Known, Ids
<1>2. \A u : SignedUp(u) => SignedUp(u)' /\ copy'[u] = copy[u]
  BY DEF StepOf, SignedUp
<1>3. \A u, a : Proved(u, a) => Proved(u, a)'
  BY DEF StepOf, Proved
<1> QED
  BY <1>1, <1>2, <1>3 DEF Founded

\* What founds an address before the step founds it after.
LEMMA FoundationStays ==
  ASSUME NEW r \in Requests, StepOf(r), NEW u, NEW a, Founded(u, a)
  PROVE  <<u, a>> \in proved' \/ (SignedUp(u)' /\ a = copy'[u].email)
<1>1. CASE Proved(u, a)
  BY <1>1 DEF StepOf, Proved
<1>2. CASE SignedUp(u) /\ a = copy[u].email
  BY <1>2, FactsStay, GoneIsNoRow
<1> QED
  BY <1>1, <1>2 DEF Founded

\* The rows it leaves alone and the other calls fit as before.
LEMMA OthersFit ==
  ASSUME IInv, NEW r \in Requests, StepOf(r)
  PROVE  /\ \A u \in Ids : users'[u] = users[u] => UserFits(u)'
         /\ \A u \in tokens : TokenFits(u)'
         /\ \A c \in Requests : challenges'[c] = challenges[c] => ChallengeFits(c)'
         /\ \A q \in Requests \ {r} : CallFits(q)'
<1>1. /\ \A u \in Ids : Known(u) => Known(u)'
      /\ \A u : SignedUp(u) => SignedUp(u)' /\ copy'[u] = copy[u]
      /\ \A u, a : Proved(u, a) => Proved(u, a)'
      /\ \A u, a : Founded(u, a) => Founded(u, a)'
  BY FactsStay, GoneIsNoRow
<1>2. ASSUME NEW u \in Ids, users'[u] = users[u] PROVE UserFits(u)'
  <2>1. UserFits(u)
    BY DEF IInv
  <2> QED
    BY <1>1, <1>2, <2>1 DEF UserFits, Exists
<1>3. ASSUME NEW u \in tokens PROVE TokenFits(u)'
  BY <1>1 DEF IInv, TypeOK, TokenFits
<1>4. ASSUME NEW c \in Requests, challenges'[c] = challenges[c] PROVE ChallengeFits(c)'
  <2>1. ChallengeFits(c) /\ challenges[c] \in {Gone} \cup Challenge /\ c \in Ids
    BY DEF IInv, TypeOK, Ids
  <2> QED
    BY <1>1, <1>4, <2>1 DEF ChallengeFits, Challenge
<1>5. ASSUME NEW q \in Requests \ {r} PROVE CallFits(q)'
  <2>1. CallFits(q) /\ about[q] \in Ids
    BY DEF IInv, TypeOK
  <2>2. pc'[q] = pc[q] /\ about'[q] = about[q] /\ copy'[q] = copy[q] /\ mailed \subseteq mailed'
    BY DEF StepOf
  <2> QED
    BY <1>1, <2>1, <2>2 DEF CallFits
<1> QED
  BY <1>2, <1>3, <1>4, <1>5

\* So only what the step writes has to be looked at.
LEMMA StepKeeps ==
  ASSUME IInv, NEW r \in Requests, StepOf(r), TypeOK', CallFits(r)',
         \A u \in Ids : users'[u] = users[u] \/ UserFits(u)',
         \A u \in tokens' : u \in tokens \/ TokenFits(u)',
         \A c \in Requests : challenges'[c] = challenges[c] \/ ChallengeFits(c)'
  PROVE  IInv'
<1>1. \A u \in Ids : UserFits(u)'
  BY OthersFit
<1>2. \A u \in tokens' : TokenFits(u)'
  BY OthersFit
<1>3. \A c \in Requests : ChallengeFits(c)'
  BY OthersFit
<1>4. \A q \in Requests : CallFits(q)'
  BY OthersFit
<1> QED
  BY <1>1, <1>2, <1>3, <1>4 DEF IInv, Ids

\* A call that goes on is about the same account.
LEMMA AboutStaysKnown ==
  ASSUME IInv, NEW r \in Requests, StepOf(r), pc[r] # "idle", about'[r] = about[r]
  PROVE  Known(about[r])'
<1> DEFINE u == about[r]
<1>1. u \in Ids /\ Known(u)
  BY DEF IInv, TypeOK, CallFits
<1>2. pc'[u] # "idle" \/ u = Owner
  BY <1>1 DEF StepOf, Known, Ids
<1> QED
  BY <1>2 DEF Known

\* Writing a row: the row of u is the copy, or the call has failed.
LEMMA WriteEffect ==
  ASSUME TypeOK, NEW r \in Requests, NEW u \in Ids, NEW next, copy[r] \in User,
         Write(r, u, next)
  PROVE  /\ users' \in [Ids -> {Gone} \cup User]
         /\ \/ users' = users /\ pc' = [pc EXCEPT ![r] = "failed"]
            \/ /\ users' = [users EXCEPT ![u] = copy[r]] /\ pc' = [pc EXCEPT ![r] = next]
               /\ \A w \in Ids \ {u} : ~Owns(w, copy[r].email)
<1>1. CASE users' = users /\ pc' = [pc EXCEPT ![r] = "failed"]
  BY <1>1 DEF TypeOK
<1>2. CASE /\ users' = [users EXCEPT ![u] = copy[r]] /\ pc' = [pc EXCEPT ![r] = next]
           /\ \A w \in Ids \ {u} : ~Owns(w, copy[r].email)
  BY <1>2 DEF TypeOK
<1> QED
  BY <1>1, <1>2 DEF Write, Goto

\* An address still belongs to one account.
LEMMA AddressesStayUnique ==
  ASSUME TypeOK, NEW r \in Requests, NEW u \in Ids, NEW next, copy[r] \in User,
         Write(r, u, next), NEW v \in Ids, NEW w \in Ids,
         users'[v] # Gone, users'[w] # Gone, users'[v].email = users'[w].email
  PROVE  v = w
<1>1. users[v] # Gone /\ users[w] # Gone /\ users[v].email = users[w].email => v = w
  BY DEF TypeOK, Exists
<1>2. CASE users' = users
  BY <1>1, <1>2
<1>3. CASE /\ users' = [users EXCEPT ![u] = copy[r]]
           /\ \A x \in Ids \ {u} : ~Owns(x, copy[r].email)
  <2>1. \A x \in Ids : users'[x] = IF x = u THEN copy[r] ELSE users[x]
    BY <1>3 DEF TypeOK
  <2>2. \A x \in Ids \ {u} : users[x] # Gone => users[x].email # copy[r].email
    BY <1>3 DEF Owns, Exists
  <2> QED
    BY <1>1, <2>1, <2>2
<1> QED
  BY <1>2, <1>3, WriteEffect

\* Creating a challenge: the new row fits, the older ones are closed at most.
LEMMA CreateChallengeKeeps ==
  ASSUME IInv, NEW r \in Requests, NEW type \in Purposes, copy[r] \in User,
         pc[r] # "idle", StepOf(r), CreateChallenge(r, type),
         type = "registration" => about[r] = r /\ SignedUp(r)
  PROVE  /\ pc' = [pc EXCEPT ![r] = "mailing"] \/ pc' = [pc EXCEPT ![r] = "failed"]
         /\ challenges' \in [Requests -> {Gone} \cup Challenge]
         /\ \A c \in Requests : ChallengeFits(c)'
<1> DEFINE new == [user |-> about[r], type |-> type, to |-> copy[r].email, open |-> TRUE]
<1>1. new \in Challenge
  BY DEF IInv, TypeOK, Challenge, User
<1>2. /\ \A u \in Ids : Known(u) => Known(u)'
      /\ \A u : SignedUp(u) => SignedUp(u)' /\ copy'[u] = copy[u]
  BY FactsStay, GoneIsNoRow
<1>3. CASE challenges' = challenges /\ pc' = [pc EXCEPT ![r] = "failed"]
  <2>1. \A c \in Requests : ChallengeFits(c)'
    BY <1>3, OthersFit
  <2> QED
    BY <1>3, <2>1 DEF IInv, TypeOK
<1>4. CASE /\ pc' = [pc EXCEPT ![r] = "mailing"]
           /\ challenges' \in [Requests -> {Gone} \cup Challenge]
           /\ challenges'[r] = new
           /\ \A c \in Requests \ {r} :
                \/ challenges'[c] = challenges[c]
                \/ challenges[c] # Gone /\ challenges'[c] = [challenges[c] EXCEPT !.open = FALSE]
  <2>1. ChallengeFits(r)'
    <3>1. Known(r) /\ Known(about[r]) /\ about[r] \in Ids /\ r \in Ids
      BY DEF IInv, TypeOK, CallFits, Known, Ids
    <3> QED
      BY <1>2, <1>4, <3>1 DEF ChallengeFits
  <2>2. ASSUME NEW c \in Requests \ {r} PROVE ChallengeFits(c)'
    <3>1. challenges'[c] = challenges[c] => ChallengeFits(c)'
      BY OthersFit
    <3>2. CASE challenges[c] # Gone /\ challenges'[c] = [challenges[c] EXCEPT !.open = FALSE]
      <4>1. ChallengeFits(c) /\ challenges[c] \in Challenge /\ c \in Ids
        BY <3>2 DEF IInv, TypeOK, Ids
      <4>2. challenges'[c].user = challenges[c].user /\ challenges'[c].type = challenges[c].type
            /\ challenges'[c].to = challenges[c].to /\ challenges[c].user \in Ids
        BY <3>2, <4>1 DEF Challenge
      <4> QED
        BY <1>2, <3>2, <4>1, <4>2 DEF ChallengeFits
    <3> QED
      BY <1>4, <3>1, <3>2
  <2> QED
    BY <1>4, <2>1, <2>2
<1>5. \/ challenges' = challenges /\ pc' = [pc EXCEPT ![r] = "failed"]
      \/ /\ pc' = [pc EXCEPT ![r] = "mailing"]
         /\ challenges' \in [Requests -> {Gone} \cup Challenge]
         /\ challenges'[r] = new
         /\ \A c \in Requests \ {r} :
              \/ challenges'[c] = challenges[c]
              \/ challenges[c] # Gone /\ challenges'[c] = [challenges[c] EXCEPT !.open = FALSE]
  <2>1. CASE ~Exists(about[r])
    BY <2>1 DEF CreateChallenge, Goto
  <2>2. CASE Exists(about[r])
    <3> DEFINE Older(c) == /\ challenges[c] # Gone /\ challenges[c].user = about[r]
                           /\ challenges[c].type = type
    <3>1. /\ pc' = [pc EXCEPT ![r] = "mailing"]
          /\ challenges' = [c \in Requests |->
                             IF c = r THEN new
                             ELSE IF Older(c) THEN [challenges[c] EXCEPT !.open = FALSE]
                             ELSE challenges[c]]
      BY <2>2 DEF CreateChallenge, Goto
    <3>2. \A c \in Requests : challenges[c] \in {Gone} \cup Challenge
      BY DEF IInv, TypeOK
    <3>3. ASSUME NEW x \in Challenge PROVE [x EXCEPT !.open = FALSE] \in Challenge
      BY DEF Challenge
    <3> HIDE DEF new
    <3>4. challenges' \in [Requests -> {Gone} \cup Challenge]
      BY <1>1, <3>1, <3>2, <3>3
    <3> QED
      BY <3>1, <3>4
  <2> QED
    BY <2>1, <2>2
<1> QED
  BY <1>3, <1>4, <1>5

\* A code is accepted: its challenge is closed, and fits as before.
LEMMA AcceptKeeps ==
  ASSUME IInv, NEW r \in Requests, StepOf(r), NEW c \in Requests, NEW type, Accept(c, type)
  PROVE  /\ challenges[c] \in Challenge
         /\ challenges[c].type = type
         /\ challenges' \in [Requests -> {Gone} \cup Challenge]
         /\ \A b \in Requests : ChallengeFits(b)'
<1>1. challenges[c] \in Challenge
  BY DEF IInv, TypeOK, Accept
<1>2. challenges' = [challenges EXCEPT ![c].open = FALSE]
  BY DEF Accept
<1>3. challenges'[c] = [challenges[c] EXCEPT !.open = FALSE]
  BY <1>2 DEF IInv, TypeOK
<1>4. challenges'[c] \in Challenge
  BY <1>1, <1>3 DEF Challenge
<1>5. challenges' \in [Requests -> {Gone} \cup Challenge]
  BY <1>2, <1>3, <1>4 DEF IInv, TypeOK
<1>6. /\ \A u \in Ids : Known(u) => Known(u)'
      /\ \A u : SignedUp(u) => SignedUp(u)' /\ copy'[u] = copy[u]
  BY FactsStay, GoneIsNoRow
<1>7. ChallengeFits(c)'
  <2>1. ChallengeFits(c) /\ c \in Ids
    BY DEF IInv, Ids
  <2>2. /\ challenges'[c].user = challenges[c].user /\ challenges'[c].type = challenges[c].type
        /\ challenges'[c].to = challenges[c].to /\ challenges[c].user \in Ids
    BY <1>1, <1>3 DEF Challenge
  <2> QED
    BY <1>1, <1>6, <2>1, <2>2, GoneIsNoRow DEF ChallengeFits
<1>8. ASSUME NEW b \in Requests \ {c} PROVE ChallengeFits(b)'
  <2>1. challenges'[b] = challenges[b]
    BY <1>2 DEF IInv, TypeOK
  <2> QED
    BY <2>1, OthersFit
<1> QED
  BY <1>1, <1>5, <1>7, <1>8 DEF Accept

---------------------------------------------------------------------------
(* The inductive invariant                                                  *)

\* At the start there is one account at most, with a proved address.
LEMMA InductiveInit == Init => IInv
<1> SUFFICES ASSUME Init PROVE IInv
  OBVIOUS
<1>1. PICK row \in {Gone} \cup {x \in User : x.status = "active" /\ x.verified} :
        users = [u \in Ids |-> IF u = Owner THEN row ELSE Gone]
  BY DEF Init
<1>2. \A u \in Ids : Exists(u) => u = Owner /\ users[u] \in User
  BY <1>1 DEF Exists
<1>3. Owner \in Ids /\ Requests \subseteq Ids
  BY DEF Ids
<1>4. users \in [Ids -> {Gone} \cup User]
  BY <1>1
<1>5. proved = IF users[Owner] = Gone THEN {} ELSE {<<Owner, users[Owner].email>>}
  BY DEF Init
<1>6. proved \subseteq Ids \X Addresses
  BY <1>2, <1>3, <1>5 DEF User, Exists
<1>7. tokens = {} \/ (tokens = {Owner} /\ Exists(Owner))
  BY DEF Init, Exists
<1>8. TypeOK
  BY <1>2, <1>3, <1>4, <1>6, <1>7, SignUpBounds DEF Init, TypeOK
<1>9. \A u \in Ids : UserFits(u)
  BY <1>2, <1>5 DEF UserFits, Known, Founded, Proved, Exists
<1>10. \A u \in tokens : TokenFits(u)
  BY <1>2, <1>3, <1>5, <1>7 DEF TokenFits, Known, Proved, Exists, User
<1>11. \A r \in Requests : ChallengeFits(r)
  BY DEF Init, ChallengeFits
<1>12. \A r \in Requests : CallFits(r)
  BY DEF Init, CallFits, Creating, Saving, Holding, OfAnother
<1> QED
  BY <1>8, <1>9, <1>10, <1>11, <1>12 DEF IInv

\* The steps of signing up, signing in and verifying keep it.
LEMMA AuthKeeps ==
  ASSUME IInv, NEW r \in Requests, Auth(r) PROVE IInv'
<1>1. /\ TypeOK /\ CallFits(r) /\ about[r] \in Ids /\ copy[r] \in {Gone} \cup User
      /\ r \in Ids /\ r # Owner
  BY SignUpBounds DEF IInv, TypeOK, Ids
<1>2. CASE SignUpBegin(r)
  <2>1. StepOf(r)
    BY <1>2 DEF SignUpBegin, Goto, StepOf, IInv, TypeOK, SigningUp
  <2>2. PICK a \in Addresses :
          /\ copy' = [copy EXCEPT ![r] = [email |-> a, status |-> "pending", verified |-> FALSE]]
          /\ pc' = [pc EXCEPT ![r] = IF Taken(a) THEN "refused" ELSE "asking"]
    BY <1>2 DEF SignUpBegin, Goto
  <2>3. copy'[r] \in User /\ about'[r] = r /\ pc'[r] \in {"refused", "asking"}
    BY <1>1, <1>2, <2>2 DEF SignUpBegin, TypeOK, User, UserStatus
  <2>4. TypeOK'
    BY <1>1, <1>2, <2>2, <2>3 DEF SignUpBegin, TypeOK, Exists
  <2>5. CallFits(r)'
    BY <2>3, GoneIsNoRow DEF CallFits, Known, Creating, Saving, Holding, OfAnother
  <2> QED
    BY <1>2, <2>1, <2>4, <2>5, StepKeeps DEF SignUpBegin
<1>3. CASE SignUpAsk(r)
  <2>1. StepOf(r)
    BY <1>3 DEF SignUpAsk, Goto, StepOf, IInv, TypeOK, SigningUp
  <2>2. copy[r] \in User
    BY <1>1, <1>3 DEF SignUpAsk, CallFits, Holding, Creating
  <2>3. copy' = [copy EXCEPT ![r] = [[copy[r] EXCEPT !.verified = ~required]
                   EXCEPT !.status = IF required THEN "pending" ELSE "active"]]
    BY <1>1, <1>3 DEF SignUpAsk, TypeOK
  <2>4. copy'[r] \in User
    BY <1>1, <2>2, <2>3 DEF TypeOK, User, UserStatus
  <2>5. about'[r] = r /\ pc'[r] = "creating"
    BY <1>1, <1>3 DEF SignUpAsk, Goto, TypeOK, CallFits, Creating
  <2>6. TypeOK'
    BY <1>1, <1>3, <2>3, <2>4, <2>5 DEF SignUpAsk, Goto, TypeOK, Exists
  <2>7. CallFits(r)'
    BY <2>4, <2>5, GoneIsNoRow DEF CallFits, Known, Creating, Saving, Holding, OfAnother
  <2> QED
    BY <1>3, <2>1, <2>6, <2>7, StepKeeps DEF SignUpAsk
<1>4. CASE SignUpCreate(r)
  <2>1. copy[r] \in User /\ about[r] = r /\ pc[r] = "creating"
    BY <1>1, <1>4 DEF SignUpCreate, CallFits, Holding, Creating
  <2> DEFINE next == IF copy[r].verified THEN "issuing" ELSE "challenging_registration"
  <2>2. Write(r, r, next)
    BY <1>4 DEF SignUpCreate
  <2>3. /\ users' \in [Ids -> {Gone} \cup User]
        /\ \/ users' = users /\ pc' = [pc EXCEPT ![r] = "failed"]
           \/ users' = [users EXCEPT ![r] = copy[r]] /\ pc' = [pc EXCEPT ![r] = next]
    BY <1>1, <2>1, <2>2, WriteEffect
  <2>4. \A v, w \in Ids : users'[v] # Gone /\ users'[w] # Gone /\ users'[v].email = users'[w].email => v = w
    BY <1>1, <2>1, <2>2, AddressesStayUnique
  <2>5. StepOf(r)
    BY <1>1, <1>4, <2>3 DEF SignUpCreate, StepOf, TypeOK, SigningUp
  <2>6. TypeOK'
    BY <1>1, <1>4, <2>1, <2>3, <2>4 DEF SignUpCreate, TypeOK, Exists, User
  <2>7. pc'[r] \in {"failed", "issuing", "challenging_registration"} /\ SignedUp(r)'
    BY <1>1, <1>4, <2>1, <2>3, GoneIsNoRow DEF SignUpCreate, TypeOK, SignedUp, SigningUp
  <2>8. pc'[r] = "issuing" => Proved(r, copy[r].email)'
    BY <1>1, <1>4, <2>1, <2>3, GoneIsNoRow DEF SignUpCreate, TypeOK, Proved
  <2>9. CallFits(r)'
    BY <1>1, <1>4, <2>1, <2>7, <2>8, GoneIsNoRow
    DEF SignUpCreate, CallFits, Known, Creating, Saving, Holding, OfAnother, User
  <2>10. \A u \in Ids : users'[u] = users[u] \/ UserFits(u)'
    <3>1. UserFits(r)' \/ users' = users
      BY <1>1, <1>4, <2>1, <2>3, <2>7, GoneIsNoRow
      DEF SignUpCreate, TypeOK, UserFits, Known, Founded, Proved, Exists, SignedUp
    <3> QED
      BY <1>1, <2>3, <3>1 DEF TypeOK
  <2> QED
    BY <1>4, <2>5, <2>6, <2>9, <2>10, StepKeeps DEF SignUpCreate
<1>5. CASE SignUpChallenge(r)
  <2>1. copy[r] \in User /\ about[r] = r /\ pc[r] = "challenging_registration" /\ SignedUp(r)
    BY <1>1, <1>5, GoneIsNoRow DEF SignUpChallenge, CallFits, Holding, Creating, SignedUp, SigningUp
  <2>2. CreateChallenge(r, "registration")
    BY <1>5 DEF SignUpChallenge
  <2>3. pc' = [pc EXCEPT ![r] = "mailing"] \/ pc' = [pc EXCEPT ![r] = "failed"]
    BY <2>2 DEF CreateChallenge, Goto
  <2>4. StepOf(r)
    BY <1>1, <1>5, <2>3 DEF SignUpChallenge, StepOf, TypeOK, SigningUp
  <2>5. /\ challenges' \in [Requests -> {Gone} \cup Challenge]
        /\ \A c \in Requests : ChallengeFits(c)'
    BY <2>1, <2>2, <2>4, CreateChallengeKeeps DEF Purposes
  <2>6. TypeOK'
    BY <1>1, <1>5, <2>3, <2>5 DEF SignUpChallenge, TypeOK, Exists
  <2>7. CallFits(r)'
    BY <1>1, <1>5, <2>1, <2>3
    DEF SignUpChallenge, TypeOK, CallFits, Known, Creating, Saving, Holding, OfAnother
  <2> QED
    BY <1>5, <2>4, <2>5, <2>6, <2>7, StepKeeps DEF SignUpChallenge
<1>6. CASE VerifyRegistration(r)
  <2>1. PICK c \in Requests :
          Accept(c, "registration") /\ about' = [about EXCEPT ![r] = challenges[c].user]
    BY <1>6 DEF VerifyRegistration
  <2>2. pc[r] = "idle" /\ pc' = [pc EXCEPT ![r] = "activating"]
    BY <1>6 DEF VerifyRegistration, Goto
  <2>3. StepOf(r)
    BY <1>1, <1>6, <2>1, <2>2 DEF VerifyRegistration, Accept, StepOf, TypeOK, SigningUp
  <2>4. /\ challenges[c] \in Challenge /\ challenges[c].type = "registration"
        /\ challenges' \in [Requests -> {Gone} \cup Challenge]
        /\ \A b \in Requests : ChallengeFits(b)'
    BY <2>1, <2>3, AcceptKeeps
  <2>5. challenges[c].user = c /\ SignedUp(c) /\ challenges[c].to = copy[c].email /\ Known(c)
    BY <2>4, GoneIsNoRow DEF IInv, ChallengeFits
  <2>6. c # r /\ c \in Ids /\ about'[r] = c /\ pc'[r] = "activating"
    BY <1>1, <2>1, <2>2, <2>5, SignUpBounds DEF TypeOK, Known, Ids
  <2>7. TypeOK'
    BY <1>1, <1>6, <2>1, <2>2, <2>4, <2>5, <2>6
    DEF VerifyRegistration, Accept, TypeOK, Exists, Challenge
  <2>8. Proved(c, copy[c].email)' /\ SignedUp(c)' /\ Known(c)'
    <3>1. SignedUp(c)' /\ Known(c)'
      BY <2>3, <2>5, <2>6, FactsStay, GoneIsNoRow
    <3> QED
      BY <1>6, <2>1, <2>5, <3>1 DEF VerifyRegistration, Accept, Proved
  <2>9. CallFits(r)'
    BY <2>6, <2>8 DEF CallFits, Creating, Saving, Holding, OfAnother
  <2> QED
    BY <1>6, <2>3, <2>4, <2>7, <2>9, StepKeeps DEF VerifyRegistration
<1>7. CASE Activate(r)
  <2> DEFINE u == about[r]
  <2>1. pc[r] = "activating" /\ u # r /\ SignedUp(u) /\ Proved(u, copy[u].email)
    BY <1>1, <1>7 DEF Activate, CallFits, OfAnother
  <2>2. /\ \/ /\ Exists(u) /\ pc' = [pc EXCEPT ![r] = "saving_activated"]
              /\ copy' = [copy EXCEPT ![r] = [[users[u] EXCEPT !.verified = TRUE]
                                              EXCEPT !.status = "active"]]
           \/ pc' = [pc EXCEPT ![r] = "failed"] /\ copy' = copy
        /\ about' = about /\ proved' = proved /\ mailed' = mailed
    BY <1>7 DEF Activate, Goto
  <2>3. StepOf(r)
    BY <1>1, <2>1, <2>2 DEF StepOf, TypeOK, SigningUp
  <2>4. CASE Exists(u) /\ pc'[r] = "saving_activated"
    <3>1. users[u] \in User /\ Proved(u, users[u].email)
      BY <1>1, <2>1, <2>4 DEF IInv, TypeOK, UserFits, Founded, Exists
    <3>2. copy' = [copy EXCEPT ![r] = [[users[u] EXCEPT !.verified = TRUE]
                                        EXCEPT !.status = "active"]]
      BY <1>1, <2>2, <2>4 DEF TypeOK
    <3>3. copy'[r] = [[users[u] EXCEPT !.verified = TRUE] EXCEPT !.status = "active"]
      BY <1>1, <3>2 DEF TypeOK
    <3>4. copy'[r] \in User /\ copy'[r].email = users[u].email /\ copy'[r].verified
      BY <3>1, <3>3 DEF User, UserStatus
    <3>5. TypeOK'
      BY <1>1, <1>7, <2>2, <3>2, <3>4 DEF Activate, TypeOK, Exists
    <3>6. CallFits(r)'
      <4>1. Known(about[r])' /\ about'[r] = about[r]
        BY <2>1, <2>2, <2>3, AboutStaysKnown
      <4>2. Proved(about[r], copy[r].email)'
        BY <2>2, <3>1, <3>4 DEF Proved
      <4> QED
        BY <2>1, <2>4, <3>4, <4>1, <4>2, GoneIsNoRow
        DEF CallFits, Founded, Creating, Saving, Holding, OfAnother
    <3> QED
      BY <1>7, <2>3, <3>5, <3>6, StepKeeps DEF Activate
  <2>5. CASE pc' = [pc EXCEPT ![r] = "failed"] /\ copy' = copy
    <3>1. TypeOK'
      BY <1>1, <1>7, <2>5 DEF Activate, TypeOK, Exists
    <3>2. CallFits(r)'
      BY <1>1, <2>1, <2>2, <2>5
      DEF TypeOK, CallFits, Known, SignedUp, Creating, Saving, Holding, OfAnother
    <3> QED
      BY <1>7, <2>3, <3>1, <3>2, StepKeeps DEF Activate
  <2> QED
    BY <1>1, <2>2, <2>4, <2>5 DEF TypeOK
<1>8. CASE SaveActivated(r)
  <2>1. copy[r] \in User /\ copy[r].verified /\ Proved(about[r], copy[r].email)
        /\ about[r] # r /\ pc[r] = "saving_activated"
    BY <1>1, <1>8 DEF SaveActivated, CallFits, Holding, OfAnother, Saving
  <2>2. Write(r, about[r], "issuing")
    BY <1>8 DEF SaveActivated
  <2>3. /\ users' \in [Ids -> {Gone} \cup User]
        /\ \/ users' = users /\ pc' = [pc EXCEPT ![r] = "failed"]
           \/ users' = [users EXCEPT ![about[r]] = copy[r]] /\ pc' = [pc EXCEPT ![r] = "issuing"]
    BY <1>1, <2>1, <2>2, WriteEffect
  <2>4. \A v, w \in Ids : users'[v] # Gone /\ users'[w] # Gone /\ users'[v].email = users'[w].email => v = w
    BY <1>1, <2>1, <2>2, AddressesStayUnique
  <2>5. StepOf(r)
    BY <1>1, <1>8, <2>3 DEF SaveActivated, StepOf, TypeOK, SigningUp
  <2>6. TypeOK'
    BY <1>1, <1>8, <2>3, <2>4 DEF SaveActivated, TypeOK, Exists
  <2>7. Known(about[r])' /\ Proved(about[r], copy[r].email)'
    <3>1. Known(about[r])
      BY <1>1, <2>1 DEF CallFits
    <3> QED
      BY <1>1, <1>8, <2>1, <2>5, <3>1, FactsStay, GoneIsNoRow DEF SaveActivated, Proved
  <2>8. CallFits(r)'
    BY <1>1, <1>8, <2>1, <2>3, <2>7
    DEF SaveActivated, TypeOK, CallFits, Proved, User, Creating, Saving, Holding, OfAnother
  <2>9. \A u \in Ids : users'[u] = users[u] \/ UserFits(u)'
    <3>1. about' = about /\ copy' = copy
      BY <1>8 DEF SaveActivated
    <3>2. ASSUME NEW u \in Ids, users'[u] # users[u] PROVE UserFits(u)'
      <4>1. u = about[r] /\ users'[u] = copy[r]
        BY <1>1, <2>3, <3>2 DEF TypeOK
      <4> QED
        BY <2>7, <3>1, <4>1 DEF UserFits, Founded, Known, Proved
    <3> QED
      BY <3>2
  <2> QED
    BY <1>8, <2>5, <2>6, <2>8, <2>9, StepKeeps DEF SaveActivated
<1>9. CASE SignIn(r)
  <2>1. PICK u \in Ids :
          /\ MaySignIn(u)
          /\ about' = [about EXCEPT ![r] = u]
          /\ copy' = [copy EXCEPT ![r] = users[u]]
    BY <1>9 DEF SignIn
  <2>2. PICK next \in {"issuing", "challenging_login"} : pc' = [pc EXCEPT ![r] = next]
    BY <1>9 DEF SignIn, Goto
  <2>3. StepOf(r)
    BY <1>1, <1>9, <2>1, <2>2 DEF SignIn, StepOf, TypeOK, SigningUp
  <2>4. users[u] \in User /\ Known(u) /\ Proved(u, users[u].email) /\ u # r
    BY <1>1, <1>9, <2>1 DEF SignIn, MaySignIn, IInv, TypeOK, UserFits, Exists, Known
  <2>5. TypeOK'
    BY <1>1, <1>9, <2>1, <2>2, <2>4 DEF SignIn, TypeOK, Exists
  <2>6. CallFits(r)'
    <3>1. Known(u)' /\ Proved(u, users[u].email)'
      BY <1>9, <2>3, <2>4, FactsStay, GoneIsNoRow DEF SignIn, Proved
    <3>2. about'[r] = u /\ copy'[r] = users[u] /\ pc'[r] \in {"issuing", "challenging_login"}
      BY <1>1, <2>1, <2>2 DEF TypeOK
    <3> QED
      BY <1>9, <2>4, <3>1, <3>2, GoneIsNoRow
      DEF SignIn, CallFits, Proved, User, Creating, Saving, Holding, OfAnother
  <2> QED
    BY <1>9, <2>3, <2>5, <2>6, StepKeeps DEF SignIn
<1>10. CASE SignInChallenge(r)
  <2>1. copy[r] \in User /\ about[r] # r /\ pc[r] = "challenging_login"
    BY <1>1, <1>10 DEF SignInChallenge, CallFits, Holding, OfAnother
  <2>2. CreateChallenge(r, "login")
    BY <1>10 DEF SignInChallenge
  <2>3. pc' = [pc EXCEPT ![r] = "mailing"] \/ pc' = [pc EXCEPT ![r] = "failed"]
    BY <2>2 DEF CreateChallenge, Goto
  <2>4. StepOf(r)
    BY <1>1, <1>10, <2>3 DEF SignInChallenge, StepOf, TypeOK, SigningUp
  <2>5. /\ challenges' \in [Requests -> {Gone} \cup Challenge]
        /\ \A c \in Requests : ChallengeFits(c)'
    BY <2>1, <2>2, <2>4, CreateChallengeKeeps DEF Purposes
  <2>6. TypeOK'
    BY <1>1, <1>10, <2>3, <2>5 DEF SignInChallenge, TypeOK, Exists
  <2>7. CallFits(r)'
    <3>1. Known(about[r])' /\ about'[r] = about[r] /\ pc'[r] \in {"mailing", "failed"}
      BY <1>1, <1>10, <2>1, <2>3, <2>4, AboutStaysKnown DEF SignInChallenge, TypeOK
    <3> QED
      BY <2>1, <3>1 DEF CallFits, Creating, Saving, Holding, OfAnother
  <2> QED
    BY <1>10, <2>4, <2>5, <2>6, <2>7, StepKeeps DEF SignInChallenge
<1>11. CASE VerifyLogin(r)
  <2>1. PICK c \in Requests :
          Accept(c, "login") /\ about' = [about EXCEPT ![r] = challenges[c].user]
    BY <1>11 DEF VerifyLogin
  <2>2. pc[r] = "idle" /\ pc' = [pc EXCEPT ![r] = "checking"]
    BY <1>11 DEF VerifyLogin, Goto
  <2>3. StepOf(r)
    BY <1>1, <1>11, <2>1, <2>2 DEF VerifyLogin, Accept, StepOf, TypeOK, SigningUp
  <2>4. /\ challenges[c] \in Challenge /\ challenges[c].type = "login"
        /\ challenges' \in [Requests -> {Gone} \cup Challenge]
        /\ \A b \in Requests : ChallengeFits(b)'
    BY <2>1, <2>3, AcceptKeeps
  <2>5. Known(challenges[c].user) /\ challenges[c].user \in Ids
    BY <2>4, GoneIsNoRow DEF IInv, ChallengeFits, Challenge
  <2>6. challenges[c].user # r /\ about'[r] = challenges[c].user /\ pc'[r] = "checking"
    BY <1>1, <2>1, <2>2, <2>5 DEF TypeOK, Known
  <2>7. TypeOK'
    BY <1>1, <1>11, <2>1, <2>2, <2>4, <2>5 DEF VerifyLogin, Accept, TypeOK, Exists, Challenge
  <2>8. CallFits(r)'
    <3> DEFINE u == challenges[c].user
    <3>1. u = Owner \/ pc'[u] # "idle"
      BY <2>3, <2>5, <2>6 DEF Known, StepOf, Ids
    <3>2. about'[r] = u /\ u # r
      BY <2>6
    <3> HIDE DEF u
    <3> QED
      BY <2>6, <3>1, <3>2 DEF CallFits, Known, Creating, Saving, Holding, OfAnother
  <2> QED
    BY <1>11, <2>3, <2>4, <2>7, <2>8, StepKeeps DEF VerifyLogin
<1>12. CASE CheckLogin(r)
  <2>1. pc[r] = "checking" /\ about[r] # r /\ Known(about[r])
    BY <1>1, <1>12 DEF CheckLogin, CallFits, OfAnother
  <2>2. pc' = [pc EXCEPT ![r] = IF MaySignIn(about[r]) THEN "issuing" ELSE "refused"]
    BY <1>12 DEF CheckLogin, Goto
  <2>3. StepOf(r)
    BY <1>1, <1>12, <2>1, <2>2 DEF CheckLogin, StepOf, TypeOK, SigningUp
  <2>4. TypeOK'
    BY <1>1, <1>12, <2>2 DEF CheckLogin, TypeOK, Exists
  <2>5. MaySignIn(about[r]) => \E b \in Addresses : Proved(about[r], b)
    BY <1>1 DEF MaySignIn, IInv, TypeOK, UserFits, Exists, User
  <2>6. CallFits(r)'
    BY <1>1, <1>12, <2>1, <2>2, <2>5
    DEF CheckLogin, TypeOK, CallFits, Known, Proved, Creating, Saving, Holding, OfAnother
  <2> QED
    BY <1>12, <2>3, <2>4, <2>6, StepKeeps DEF CheckLogin
<1>13. CASE Mail(r) \/ MailFails(r)
  <2>1. /\ pc[r] = "mailing"
        /\ \/ pc' = [pc EXCEPT ![r] = "done"] /\ mailed' = mailed \cup {r} /\ faults' = faults
           \/ pc' = [pc EXCEPT ![r] = "failed"] /\ mailed' = mailed
              /\ faults < MaxFaults /\ faults' = faults + 1
        /\ UNCHANGED <<users, challenges, required, tokens, about, copy, proved>>
    BY <1>13 DEF Mail, MailFails, Goto
  <2>2. StepOf(r)
    BY <1>1, <2>1 DEF StepOf, TypeOK, SigningUp
  <2>3. TypeOK'
    BY <1>1, <2>1, SignUpBounds DEF TypeOK, Exists
  <2>4. CallFits(r)'
    <3>1. Known(about[r])' /\ about'[r] = about[r]
      BY <2>1, <2>2, AboutStaysKnown
    <3>2. (pc'[r] = "done" /\ r \in mailed') \/ pc'[r] = "failed"
      BY <1>1, <2>1 DEF TypeOK
    <3> QED
      BY <3>1, <3>2 DEF CallFits, Creating, Saving, Holding, OfAnother
  <2> QED
    BY <2>1, <2>2, <2>3, <2>4, StepKeeps
<1>14. CASE IssueTokens(r)
  <2>1. /\ pc[r] = "issuing" /\ pc' = [pc EXCEPT ![r] = "done"]
        /\ tokens' = tokens \cup {about[r]}
        /\ UNCHANGED <<users, challenges, required, about, copy, faults, mailed, proved>>
    BY <1>14 DEF IssueTokens, Goto
  <2>2. StepOf(r)
    BY <1>1, <2>1 DEF StepOf, TypeOK, SigningUp
  <2>3. TypeOK'
    BY <1>1, <2>1 DEF TypeOK, Exists
  <2>4. CallFits(r)'
    <3>1. Known(about[r])' /\ about'[r] = about[r] /\ pc'[r] = "done"
      BY <1>1, <2>1, <2>2, AboutStaysKnown DEF TypeOK
    <3>2. about[r] = r => Proved(r, copy[r].email)'
      BY <1>1, <2>1 DEF CallFits, Proved
    <3> QED
      BY <2>1, <3>1, <3>2 DEF CallFits, Creating, Saving, Holding, OfAnother
  <2>5. \A u \in tokens' : u \in tokens \/ TokenFits(u)'
    <3>1. Known(about[r])' /\ about'[r] = about[r]
      BY <2>1, <2>2, AboutStaysKnown
    <3>2. \E b \in Addresses : Proved(about[r], b)'
      BY <1>1, <2>1 DEF CallFits, Proved
    <3> QED
      BY <2>1, <3>1, <3>2 DEF TokenFits, Proved, Known
  <2> QED
    BY <2>1, <2>2, <2>3, <2>4, <2>5, StepKeeps
<1> QED
  BY <1>2, <1>3, <1>4, <1>5, <1>6, <1>7, <1>8, <1>9, <1>10, <1>11, <1>12, <1>13, <1>14 DEF Auth

\* So do the steps of e-mail changes and of creating and updating users.
LEMMA ProfileKeeps ==
  ASSUME IInv, NEW r \in Requests, Profile(r) PROVE IInv'
<1>1. /\ TypeOK /\ CallFits(r) /\ about[r] \in Ids /\ copy[r] \in {Gone} \cup User
      /\ r \in Ids /\ r # Owner
  BY SignUpBounds DEF IInv, TypeOK, Ids
<1>2. CASE InitiateEmailChange(r)
  <2>1. PICK u \in Ids, a \in Addresses :
          /\ Authenticated(u)
          /\ about' = [about EXCEPT ![r] = u]
          /\ copy' = [copy EXCEPT ![r] = [users[u] EXCEPT !.email = a]]
          /\ pc' = [pc EXCEPT ![r] = IF Taken(a) THEN "refused" ELSE "challenging_email"]
    BY <1>2 DEF InitiateEmailChange, Goto
  <2>2. pc[r] = "idle"
    BY <1>2 DEF InitiateEmailChange
  <2>3. users[u] \in User /\ Known(u) /\ u # r
    BY <1>1, <2>1, <2>2 DEF Authenticated, IInv, TypeOK, UserFits, Exists, Known
  <2>4. [users[u] EXCEPT !.email = a] \in User
    BY <2>3 DEF User
  <2>5. StepOf(r)
    BY <1>1, <1>2, <2>1, <2>2 DEF InitiateEmailChange, StepOf, TypeOK, SigningUp
  <2>6. TypeOK'
    BY <1>1, <1>2, <2>1, <2>4 DEF InitiateEmailChange, TypeOK, Exists
  <2>7. CallFits(r)'
    <3>1. u = Owner \/ pc'[u] # "idle"
      BY <2>3, <2>5 DEF StepOf, Known, Ids
    <3>2. about'[r] = u /\ copy'[r] # Gone /\ pc'[r] \in {"refused", "challenging_email"}
      BY <1>1, <2>1, <2>4, GoneIsNoRow DEF TypeOK
    <3> QED
      BY <2>3, <3>1, <3>2 DEF CallFits, Known, Creating, Saving, Holding, OfAnother
  <2> QED
    BY <1>2, <2>5, <2>6, <2>7, StepKeeps DEF InitiateEmailChange
<1>3. CASE EmailChallenge(r)
  <2>1. copy[r] \in User /\ about[r] # r /\ pc[r] = "challenging_email"
    BY <1>1, <1>3 DEF EmailChallenge, CallFits, Holding, OfAnother
  <2>2. CreateChallenge(r, "email_change")
    BY <1>3 DEF EmailChallenge
  <2>3. pc' = [pc EXCEPT ![r] = "mailing"] \/ pc' = [pc EXCEPT ![r] = "failed"]
    BY <2>2 DEF CreateChallenge, Goto
  <2>4. StepOf(r)
    BY <1>1, <1>3, <2>3 DEF EmailChallenge, StepOf, TypeOK, SigningUp
  <2>5. /\ challenges' \in [Requests -> {Gone} \cup Challenge]
        /\ \A c \in Requests : ChallengeFits(c)'
    BY <2>1, <2>2, <2>4, CreateChallengeKeeps DEF Purposes
  <2>6. TypeOK'
    BY <1>1, <1>3, <2>3, <2>5 DEF EmailChallenge, TypeOK, Exists
  <2>7. CallFits(r)'
    <3>1. Known(about[r])' /\ about'[r] = about[r] /\ pc'[r] \in {"mailing", "failed"}
      BY <1>1, <1>3, <2>1, <2>3, <2>4, AboutStaysKnown DEF EmailChallenge, TypeOK
    <3> QED
      BY <2>1, <3>1 DEF CallFits, Creating, Saving, Holding, OfAnother
  <2> QED
    BY <1>3, <2>4, <2>5, <2>6, <2>7, StepKeeps DEF EmailChallenge
<1>4. CASE ConfirmEmailChange(r)
  <2>1. PICK u \in Ids, c \in Requests :
          /\ Authenticated(u)
          /\ Accept(c, "email_change")
          /\ about' = [about EXCEPT ![r] = u]
          /\ copy' = [copy EXCEPT ![r] = [users[u] EXCEPT !.email = challenges[c].to]]
          /\ pc' = [pc EXCEPT ![r] = IF challenges[c].user = u THEN "comparing" ELSE "refused"]
    BY <1>4 DEF ConfirmEmailChange, Goto
  <2>2. pc[r] = "idle"
    BY <1>4 DEF ConfirmEmailChange
  <2>3. users[u] \in User /\ Known(u) /\ u # r
    BY <1>1, <2>1, <2>2 DEF Authenticated, IInv, TypeOK, UserFits, Exists, Known
  <2>4. StepOf(r)
    BY <1>1, <1>4, <2>1, <2>2 DEF ConfirmEmailChange, Accept, StepOf, TypeOK, SigningUp
  <2>5. /\ challenges[c] \in Challenge
        /\ challenges' \in [Requests -> {Gone} \cup Challenge]
        /\ \A b \in Requests : ChallengeFits(b)'
    BY <2>1, <2>4, AcceptKeeps
  <2>6. challenges[c].to \in Addresses /\ challenges[c].user \in Ids
    BY <2>5 DEF Challenge
  <2>7. /\ [users[u] EXCEPT !.email = challenges[c].to] \in User
        /\ [users[u] EXCEPT !.email = challenges[c].to].email = challenges[c].to
    BY <2>3, <2>6 DEF User
  <2>8. TypeOK'
    BY <1>1, <1>4, <2>1, <2>5, <2>6, <2>7 DEF ConfirmEmailChange, Accept, TypeOK, Exists
  <2>9. CallFits(r)'
    <3>1. u = Owner \/ pc'[u] # "idle"
      BY <2>3, <2>4 DEF StepOf, Known, Ids
    <3>2. /\ about'[r] = u /\ copy'[r] # Gone /\ copy'[r].email = challenges[c].to
          /\ pc'[r] = IF challenges[c].user = u THEN "comparing" ELSE "refused"
      BY <1>1, <2>1, <2>7, GoneIsNoRow DEF TypeOK
    <3>3. <<challenges[c].user, challenges[c].to>> \in proved'
      BY <2>1 DEF Accept
    <3> QED
      BY <2>3, <3>1, <3>2, <3>3
      DEF CallFits, Known, Proved, Creating, Saving, Holding, OfAnother
  <2> QED
    BY <1>4, <2>4, <2>5, <2>8, <2>9, StepKeeps DEF ConfirmEmailChange
<1>5. CASE ConfirmCompare(r)
  <2>1. /\ pc[r] = "comparing"
        /\ pc' = [pc EXCEPT ![r] = "refused"] \/ pc' = [pc EXCEPT ![r] = "reading"]
        /\ UNCHANGED <<users, challenges, required, tokens, about, copy, faults, mailed, proved>>
    BY <1>5 DEF ConfirmCompare, Goto
  <2>2. StepOf(r)
    BY <1>1, <2>1 DEF StepOf, TypeOK, SigningUp
  <2>3. TypeOK'
    BY <1>1, <2>1 DEF TypeOK, Exists
  <2>4. CallFits(r)'
    <3>1. /\ Known(about[r])' /\ about'[r] = about[r] /\ copy'[r] = copy[r]
          /\ pc'[r] \in {"refused", "reading"}
      BY <1>1, <2>1, <2>2, AboutStaysKnown DEF TypeOK
    <3>2. about[r] # r /\ copy[r] # Gone /\ Proved(about[r], copy[r].email)'
      BY <1>1, <2>1 DEF CallFits, Proved, Holding, OfAnother
    <3> QED
      BY <3>1, <3>2 DEF CallFits, Proved, Creating, Saving, Holding, OfAnother
  <2> QED
    BY <2>1, <2>2, <2>3, <2>4, StepKeeps
<1>6. CASE ConfirmRead(r)
  <2> DEFINE u == about[r]
  <2>1. pc[r] = "reading" /\ u # r /\ copy[r] \in User /\ Proved(u, copy[r].email)
    BY <1>1, <1>6 DEF ConfirmRead, CallFits, OfAnother, Holding
  <2>2. /\ \/ /\ Exists(u) /\ pc' = [pc EXCEPT ![r] = "saving"]
              /\ copy' = [copy EXCEPT ![r] = [users[u] EXCEPT !.email = copy[r].email]]
           \/ pc' = [pc EXCEPT ![r] = "refused"] /\ copy' = copy
        /\ about' = about /\ proved' = proved /\ mailed' = mailed
    BY <1>6 DEF ConfirmRead, Goto
  <2>3. StepOf(r)
    BY <1>1, <2>1, <2>2 DEF StepOf, TypeOK, SigningUp
  <2>4. Known(about[r])' /\ about'[r] = about[r]
    BY <2>1, <2>2, <2>3, AboutStaysKnown
  <2>5. CASE /\ Exists(u) /\ pc' = [pc EXCEPT ![r] = "saving"]
             /\ copy' = [copy EXCEPT ![r] = [users[u] EXCEPT !.email = copy[r].email]]
    <3>1. users[u] \in User
      BY <1>1, <2>5 DEF TypeOK, Exists
    <3>2. copy'[r] = [users[u] EXCEPT !.email = copy[r].email] /\ pc'[r] = "saving"
      BY <1>1, <2>5 DEF TypeOK
    <3>3. copy'[r] \in User /\ copy'[r].email = copy[r].email
      BY <2>1, <3>1, <3>2 DEF User
    <3>4. TypeOK'
      BY <1>1, <1>6, <2>5, <3>2, <3>3 DEF ConfirmRead, TypeOK, Exists
    <3>5. CallFits(r)'
      <4>1. Proved(about[r], copy[r].email)'
        BY <2>1, <2>2, <3>3 DEF Proved
      <4> QED
        BY <2>1, <2>4, <3>2, <3>3, <4>1, GoneIsNoRow
        DEF CallFits, Founded, Creating, Saving, Holding, OfAnother
    <3> QED
      BY <1>6, <2>3, <3>4, <3>5, StepKeeps DEF ConfirmRead
  <2>6. CASE pc' = [pc EXCEPT ![r] = "refused"] /\ copy' = copy
    <3>1. TypeOK'
      BY <1>1, <1>6, <2>6 DEF ConfirmRead, TypeOK, Exists
    <3>2. pc'[r] = "refused"
      BY <1>1, <2>6 DEF TypeOK
    <3>3. CallFits(r)'
      BY <2>4, <3>2 DEF CallFits, Creating, Saving, Holding, OfAnother
    <3> QED
      BY <1>6, <2>3, <3>1, <3>3, StepKeeps DEF ConfirmRead
  <2> QED
    BY <2>2, <2>5, <2>6
<1>7. CASE CreateUser(r)
  <2>1. PICK dto \in User : copy' = [copy EXCEPT ![r] = dto]
    BY <1>7 DEF CreateUser
  <2>2. pc[r] = "idle" /\ pc' = [pc EXCEPT ![r] = "saving_vouched"]
    BY <1>7 DEF CreateUser, Goto
  <2>3. StepOf(r)
    BY <1>1, <1>7, <2>1, <2>2 DEF CreateUser, StepOf, TypeOK, SigningUp
  <2>4. TypeOK'
    BY <1>1, <1>7, <2>1, <2>2 DEF CreateUser, TypeOK, Exists
  <2>5. about'[r] = r /\ copy'[r] # Gone /\ pc'[r] = "saving_vouched"
    BY <1>1, <1>7, <2>1, <2>2, GoneIsNoRow DEF CreateUser, TypeOK
  <2>6. CallFits(r)'
    BY <2>5 DEF CallFits, Known, Creating, Saving, Holding, OfAnother
  <2> QED
    BY <1>7, <2>3, <2>4, <2>6, StepKeeps DEF CreateUser
<1>8. CASE UpdateUser(r)
  <2>1. PICK u \in Ids :
          /\ Exists(u)
          /\ about' = [about EXCEPT ![r] = u]
          /\ copy' = [copy EXCEPT ![r] = users[u]]
          /\ pc' = [pc EXCEPT ![r] = "updating"] \/ pc' = [pc EXCEPT ![r] = "updating_self"]
    BY <1>8 DEF UpdateUser, Goto
  <2>2. pc[r] = "idle"
    BY <1>8 DEF UpdateUser
  <2>3. users[u] \in User /\ UserFits(u) /\ Known(u) /\ u # r
    BY <1>1, <2>1, <2>2 DEF IInv, TypeOK, UserFits, Exists, Known
  <2>4. StepOf(r)
    BY <1>1, <1>8, <2>1, <2>2 DEF UpdateUser, StepOf, TypeOK, SigningUp
  <2>5. TypeOK'
    BY <1>1, <1>8, <2>1, <2>3 DEF UpdateUser, TypeOK, Exists
  <2>6. CallFits(r)'
    <3>1. u = Owner \/ pc'[u] # "idle"
      BY <2>3, <2>4 DEF StepOf, Known, Ids
    <3>2. about'[r] = u /\ copy'[r] = users[u] /\ pc'[r] \in {"updating", "updating_self"}
      BY <1>1, <2>1 DEF TypeOK
    <3>3. Founded(u, users[u].email)
      BY <2>1, <2>3 DEF UserFits
    <3> DEFINE a == users[u].email
    <3>4. <<u, a>> \in proved' \/ (SignedUp(u)' /\ a = copy'[u].email)
      BY <2>4, <3>3, FoundationStays
    <3>5. users[u].verified => <<u, a>> \in proved'
      BY <1>8, <2>1, <2>3 DEF UpdateUser, UserFits, Proved
    <3>6. Known(about[r])' /\ Founded(about[r], copy[r].email)'
      BY <3>1, <3>2, <3>4 DEF Known, Founded, Proved, SignedUp
    <3>7. users[u].verified => Proved(about[r], copy[r].email)'
      BY <3>2, <3>5 DEF Proved
    <3> QED
      BY <2>3, <3>2, <3>6, <3>7, GoneIsNoRow
      DEF CallFits, Creating, Saving, Holding, OfAnother
  <2> QED
    BY <1>8, <2>4, <2>5, <2>6, StepKeeps DEF UpdateUser
<1>9. CASE UpdateSelf(r)
  <2>1. PICK s \in UserStatus, v \in BOOLEAN :
          /\ copy' = [copy EXCEPT ![r] = [email |-> copy[r].email, status |-> s, verified |-> v]]
          /\ pc' = [pc EXCEPT ![r] = IF v /\ ~copy[r].verified THEN "saving_vouched" ELSE "saving"]
    BY <1>1, <1>9 DEF UpdateSelf, Goto, TypeOK
  <2>2. /\ pc[r] = "updating_self" /\ copy[r] \in User /\ about[r] # r
        /\ Founded(about[r], copy[r].email)
        /\ copy[r].verified => Proved(about[r], copy[r].email)
    BY <1>1, <1>9 DEF UpdateSelf, CallFits, Holding, Saving, OfAnother
  <2>3. /\ copy'[r] = [email |-> copy[r].email, status |-> s, verified |-> v]
        /\ pc'[r] = IF v /\ ~copy[r].verified THEN "saving_vouched" ELSE "saving"
    BY <1>1, <2>1 DEF TypeOK
  <2>4. copy'[r] \in User
    BY <2>2, <2>3 DEF User
  <2>5. StepOf(r)
    BY <1>1, <1>9, <2>1, <2>2 DEF UpdateSelf, StepOf, TypeOK, SigningUp
  <2>6. TypeOK'
    BY <1>1, <1>9, <2>1, <2>3, <2>4 DEF UpdateSelf, TypeOK, Exists
  <2>7. CallFits(r)'
    <3>1. Known(about[r])' /\ about'[r] = about[r]
      BY <1>9, <2>2, <2>5, AboutStaysKnown DEF UpdateSelf
    <3>2. Founded(about[r], copy[r].email)'
      <4>1. PICK u \in Ids, a \in Addresses :
              u = about[r] /\ a = copy[r].email /\ u # r /\ Founded(u, a)
        BY <1>1, <2>2 DEF User
      <4>2. <<u, a>> \in proved' \/ (SignedUp(u)' /\ a = copy'[u].email)
        BY <2>5, <4>1, FoundationStays
      <4>3. copy'[r].email = a /\ about'[r] = u
        BY <2>3, <3>1, <4>1
      <4> QED
        BY <4>1, <4>2, <4>3 DEF Founded, Proved, SignedUp
    <3>3. copy[r].verified => Proved(about[r], copy[r].email)'
      BY <1>9, <2>2, <2>3, <3>1 DEF UpdateSelf, Proved
    <3> QED
      BY <2>2, <2>3, <2>4, <3>1, <3>2, <3>3, GoneIsNoRow
      DEF CallFits, Proved, Creating, Saving, Holding, OfAnother
  <2> QED
    BY <1>9, <2>5, <2>6, <2>7, StepKeeps DEF UpdateSelf
<1>10. CASE UpdateByAdmin(r)
  <2>1. PICK dto \in User :
          /\ copy' = [copy EXCEPT ![r] = dto]
          /\ pc' = [pc EXCEPT ![r] =
                      IF dto.email # copy[r].email /\ Taken(dto.email) THEN "refused"
                      ELSE IF dto.email # copy[r].email \/ (dto.verified /\ ~copy[r].verified)
                        THEN "saving_vouched" ELSE "saving"]
    BY <1>10 DEF UpdateByAdmin, Goto
  <2>2. /\ pc[r] = "updating" /\ copy[r] \in User /\ about[r] # r
        /\ Founded(about[r], copy[r].email)
        /\ copy[r].verified => Proved(about[r], copy[r].email)
    BY <1>1, <1>10 DEF UpdateByAdmin, CallFits, Holding, Saving, OfAnother
  <2>3. /\ copy'[r] = dto /\ pc'[r] \in {"refused", "saving_vouched", "saving"}
        /\ pc'[r] = "saving" => /\ dto.email = copy[r].email
                                /\ dto.verified => copy[r].verified
    BY <1>1, <2>1, <2>2 DEF TypeOK, User
  <2>4. StepOf(r)
    BY <1>1, <1>10, <2>1, <2>2 DEF UpdateByAdmin, StepOf, TypeOK, SigningUp
  <2>5. TypeOK'
    BY <1>1, <1>10, <2>1 DEF UpdateByAdmin, TypeOK, Exists
  <2>6. CallFits(r)'
    <3>1. Known(about[r])' /\ about'[r] = about[r]
      BY <1>10, <2>2, <2>4, AboutStaysKnown DEF UpdateByAdmin
    <3>2. pc'[r] = "saving" => Founded(about[r], copy[r].email)'
      <4>1. PICK u \in Ids, a \in Addresses :
              u = about[r] /\ a = copy[r].email /\ u # r /\ Founded(u, a)
        BY <1>1, <2>2 DEF User
      <4>2. <<u, a>> \in proved' \/ (SignedUp(u)' /\ a = copy'[u].email)
        BY <2>4, <4>1, FoundationStays
      <4>3. pc'[r] = "saving" => copy'[r].email = a /\ about'[r] = u
        BY <2>3, <3>1, <4>1
      <4> QED
        BY <4>1, <4>2, <4>3 DEF Founded, Proved, SignedUp
    <3>3. pc'[r] = "saving" /\ dto.verified => Proved(about[r], copy[r].email)'
      BY <1>10, <2>2, <2>3, <3>1 DEF UpdateByAdmin, Proved
    <3>4. copy'[r] # Gone
      BY <2>3, GoneIsNoRow
    <3> QED
      BY <2>2, <2>3, <3>1, <3>2, <3>3, <3>4
      DEF CallFits, Proved, Creating, Saving, Holding, OfAnother
  <2> QED
    BY <1>10, <2>4, <2>5, <2>6, StepKeeps DEF UpdateByAdmin
<1>11. CASE SaveUser(r)
  <2>1. /\ copy[r] \in User /\ about[r] # r /\ pc[r] = "saving"
        /\ Founded(about[r], copy[r].email)
        /\ copy[r].verified => Proved(about[r], copy[r].email)
    BY <1>1, <1>11 DEF SaveUser, CallFits, Holding, Saving, OfAnother
  <2>2. Write(r, about[r], "done")
    BY <1>11 DEF SaveUser
  <2>3. /\ users' \in [Ids -> {Gone} \cup User]
        /\ \/ users' = users /\ pc' = [pc EXCEPT ![r] = "failed"]
           \/ users' = [users EXCEPT ![about[r]] = copy[r]] /\ pc' = [pc EXCEPT ![r] = "done"]
    BY <1>1, <2>1, <2>2, WriteEffect
  <2>4. \A v, w \in Ids : users'[v] # Gone /\ users'[w] # Gone /\ users'[v].email = users'[w].email => v = w
    BY <1>1, <2>1, <2>2, AddressesStayUnique
  <2>5. StepOf(r)
    BY <1>1, <1>11, <2>3 DEF SaveUser, StepOf, TypeOK, SigningUp
  <2>6. TypeOK'
    BY <1>1, <1>11, <2>3, <2>4 DEF SaveUser, TypeOK, Exists
  <2>7. Known(about[r])' /\ about' = about /\ copy' = copy
    BY <1>11, <2>1, <2>5, AboutStaysKnown DEF SaveUser
  <2>8. CallFits(r)'
    <3>1. pc'[r] \in {"failed", "done"}
      BY <1>1, <2>3 DEF TypeOK
    <3> QED
      BY <2>1, <2>7, <3>1 DEF CallFits, Creating, Saving, Holding, OfAnother
  <2>9. \A u \in Ids : users'[u] = users[u] \/ UserFits(u)'
    <3>1. ASSUME NEW u \in Ids, users'[u] # users[u] PROVE UserFits(u)'
      <4>1. u = about[r] /\ users'[u] = copy[r]
        BY <1>1, <2>3, <3>1 DEF TypeOK
      <4>2. /\ u = Owner \/ pc'[u] # "idle"
            /\ \A a : Founded(u, a) => Founded(u, a)'
            /\ \A a : Proved(u, a) => Proved(u, a)'
        BY <2>5, <2>7, <4>1, FactsStay, GoneIsNoRow DEF Known
      <4> QED
        BY <2>1, <4>1, <4>2 DEF UserFits, Known
    <3> QED
      BY <3>1
  <2> QED
    BY <1>11, <2>5, <2>6, <2>8, <2>9, StepKeeps DEF SaveUser
<1>12. CASE SaveVouched(r)
  <2>1. copy[r] \in User /\ pc[r] = "saving_vouched"
    BY <1>1, <1>12 DEF SaveVouched, CallFits, Holding
  <2>2. Write(r, about[r], "done")
    BY <1>12 DEF SaveVouched
  <2>3. /\ users' \in [Ids -> {Gone} \cup User]
        /\ \/ users' = users /\ pc' = [pc EXCEPT ![r] = "failed"]
           \/ users' = [users EXCEPT ![about[r]] = copy[r]] /\ pc' = [pc EXCEPT ![r] = "done"]
    BY <1>1, <2>1, <2>2, WriteEffect
  <2>4. \A v, w \in Ids : users'[v] # Gone /\ users'[w] # Gone /\ users'[v].email = users'[w].email => v = w
    BY <1>1, <2>1, <2>2, AddressesStayUnique
  <2>5. StepOf(r)
    BY <1>1, <1>12, <2>1, <2>3 DEF SaveVouched, StepOf, TypeOK, SigningUp
  <2>6. TypeOK'
    BY <1>1, <1>12, <2>1, <2>3, <2>4 DEF SaveVouched, TypeOK, Exists, User
  <2>7. Known(about[r])' /\ about' = about /\ copy' = copy
    BY <1>12, <2>1, <2>5, AboutStaysKnown DEF SaveVouched
  <2>8. /\ pc'[r] \in {"failed", "done"}
        /\ pc'[r] = "done" => <<about[r], copy[r].email>> \in proved'
    BY <1>1, <1>12, <2>3 DEF SaveVouched, TypeOK
  <2>9. CallFits(r)'
    BY <2>7, <2>8 DEF CallFits, Proved, Creating, Saving, Holding, OfAnother
  <2>10. \A u \in Ids : users'[u] = users[u] \/ UserFits(u)'
    <3>1. ASSUME NEW u \in Ids, users'[u] # users[u] PROVE UserFits(u)'
      <4>1. u = about[r] /\ users'[u] = copy[r] /\ pc'[r] = "done"
        BY <1>1, <2>3, <3>1 DEF TypeOK
      <4>2. u = Owner \/ pc'[u] # "idle"
        BY <2>7, <4>1 DEF Known
      <4> QED
        BY <2>8, <4>1, <4>2 DEF UserFits, Founded, Proved, Known
    <3> QED
      BY <3>1
  <2> QED
    BY <1>12, <2>5, <2>6, <2>9, <2>10, StepKeeps DEF SaveVouched
<1> QED
  BY <1>2, <1>3, <1>4, <1>5, <1>6, <1>7, <1>8, <1>9, <1>10, <1>11, <1>12 DEF Profile

\* Every step keeps it: those of calls, the setting that is switched, an account that
\* is erased.
LEMMA InductiveNext == IInv /\ [Next]_vars => IInv'
<1> SUFFICES ASSUME IInv, [Next]_vars PROVE IInv'
  OBVIOUS
<1>1. CASE UpdateSetting
  <2>1. TypeOK'
    BY <1>1 DEF UpdateSetting, IInv, TypeOK, Exists
  <2> QED
    BY <1>1, <2>1 DEF UpdateSetting, IInv, UserFits, TokenFits, ChallengeFits, CallFits,
                      Known, SignedUp, Founded, Proved, Exists
<1>2. ASSUME NEW u \in Ids, Erase(u) PROVE IInv'
  <2>1. /\ users' = [users EXCEPT ![u] = Gone]
        /\ \A c \in Requests : challenges'[c] = Gone \/ challenges'[c] = challenges[c]
        /\ UNCHANGED <<required, tokens, pc, about, copy, faults, mailed, proved>>
    BY <1>2 DEF Erase
  <2>2. challenges' \in [Requests -> {Gone} \cup Challenge]
    BY <1>2 DEF Erase, IInv, TypeOK
  <2>3. \A w \in Ids : users'[w] = Gone \/ users'[w] = users[w]
    BY <2>1 DEF IInv, TypeOK
  <2>4. TypeOK'
    BY <2>1, <2>2, <2>3 DEF IInv, TypeOK, Exists
  <2>5. \A w \in Ids : UserFits(w)'
    BY <2>1, <2>3 DEF IInv, UserFits, Known, SignedUp, Founded, Proved, Exists
  <2>6. \A w \in tokens' : TokenFits(w)'
    BY <2>1 DEF IInv, TokenFits, Known, Proved
  <2>7. \A c \in Requests : ChallengeFits(c)'
    BY <2>1 DEF IInv, ChallengeFits, Known, SignedUp
  <2>8. \A r \in Requests : CallFits(r)'
    BY <2>1 DEF IInv, CallFits, Known, SignedUp, Founded, Proved
  <2> QED
    BY <2>4, <2>5, <2>6, <2>7, <2>8 DEF IInv
<1>3. CASE UNCHANGED vars
  <2>1. TypeOK'
    BY <1>3 DEF vars, IInv, TypeOK, Exists
  <2> QED
    BY <1>3, <2>1 DEF vars, IInv, UserFits, TokenFits, ChallengeFits, CallFits,
                      Known, SignedUp, Founded, Proved, Exists
<1> QED
  BY <1>1, <1>2, <1>3, AuthKeeps, ProfileKeeps DEF Next

---------------------------------------------------------------------------
(* Theorems                                                                 *)

\* The invariant holds whatever calls, deletions and changes of the setting overlap.
THEOREM Inductive == Spec => []IInv
  BY InductiveInit, InductiveNext, PTL DEF Spec

\* Verified accounts have an address that was proved or vouched for, and tokens go
\* to accounts that had one (signUp, verifyLogin, confirmEmailChange, updateUser).
THEOREM AddressesAreProved == Spec => []AddressProved
<1>1. IInv => AddressProved
  BY DEF IInv, TypeOK, UserFits, TokenFits, Proved, AddressProved
<1> QED
  BY <1>1, Inductive, PTL

\* A sign-up that was answered left a code by mail, or a proved account.
THEOREM SignUpsAreAnswered == Spec => []SignUpAnswered
<1>1. IInv => SignUpAnswered
  BY DEF IInv, CallFits, Proved, SignUpAnswered
<1> QED
  BY <1>1, Inductive, PTL
====
