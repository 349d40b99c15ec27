----------------------------- MODULE SignUp -----------------------------
(***************************************************************************)
(* How an account comes to have its address and its status: AuthService      *)
(* (signUp, verifyRegistration, signIn, verifyLogin), the settings it asks,  *)
(* AuthGuard, and the other writers of users.email, users.status and         *)
(* users.isVerified: createUser, updateUser, initiateEmailChange and         *)
(* confirmEmailChange.  One action is what runs between two awaits.          *)
(*                                                                         *)
(* Verification has the statements of a challenge one by one; here creating  *)
(* one, and checking its code, is one step each.  An account is named by the *)
(* request that created it.                                                  *)
(***************************************************************************)
EXTENDS Naturals

CONSTANTS
  Requests,   \* calls; also the ids of the accounts and challenges they create
  Owner,      \* an account that was there before
  Addresses,
  Gone,       \* no row
  MaxFaults   \* bound: mails that are not sent

ASSUME SignUpBounds ==
  /\ Owner \notin Requests
  /\ MaxFaults \in Nat

Ids == Requests \cup {Owner}
UserStatus == {"pending", "active", "blocked"}
User == [email : Addresses, status : UserStatus, verified : BOOLEAN]
Purposes == {"registration", "login", "email_change"}
\* `to' is targetEmail for an e-mail change, and where the code was sent for all.
Challenge == [user : Ids, type : Purposes, to : Addresses, open : BOOLEAN]

\* No row is not a row.
ASSUME GoneIsNoRow == Gone \notin User \cup Challenge

VARIABLES
  users,       \* the users table
  challenges,  \* verification_tokens, by the request that created the row
  required,    \* registration_verification_enabled; a missing row is FALSE
  tokens,      \* accounts whose client holds tokens (cookies)
  pc,          \* where each call stands
  about,       \* the account it is about
  copy,        \* the user entity, or the address, it goes on with
  faults,      \* mails not sent so far
  mailed,      \* history: challenges whose code was mailed
  proved       \* history: accounts with an address that was confirmed by its code,
               \* or that was vouched for: by an administrator, by the setting,
               \* by the user itself

vars == <<users, challenges, required, tokens, pc, about, copy, faults, mailed, proved>>

Goto(r, label) == pc' = [pc EXCEPT ![r] = label]
Exists(u) == users[u] # Gone
Owns(u, a) == Exists(u) /\ users[u].email = a
Taken(a) == \E u \in Ids : Owns(u, a)

\* AuthGuard: a valid token, and a row that is active now.
Authenticated(u) == u \in tokens /\ Exists(u) /\ users[u].status = "active"

---------------------------------------------------------------------------
(* Statements that several calls share                                      *)

\* Faulty: the address has no unique index.
WriteDuplicate(r, u, next) ==
  /\ users' = [users EXCEPT ![u] = copy[r]]
  /\ Goto(r, next)

\* repository.save: a new row, an update, or the old row again when it is gone.
\* The address is unique.
Write(r, u, next) ==
  IF \E w \in Ids \ {u} : Owns(w, copy[r].email)
    THEN Goto(r, "failed") /\ UNCHANGED users
    ELSE users' = [users EXCEPT ![u] = copy[r]] /\ Goto(r, next)

\* createVerificationRecord: the older challenges are consumed; the row refers to
\* its user.
CreateChallenge(r, type) ==
  LET u == about[r]
      to == copy[r].email
      Older(c) == challenges[c] # Gone /\ challenges[c].user = u /\ challenges[c].type = type
  IN  IF Exists(u)
        THEN /\ challenges' =
                  [c \in Requests |->
                     IF c = r THEN [user |-> u, type |-> type, to |-> to, open |-> TRUE]
                     ELSE IF Older(c) THEN [challenges[c] EXCEPT !.open = FALSE]
                     ELSE challenges[c]]
             /\ Goto(r, "mailing")
        ELSE Goto(r, "failed") /\ UNCHANGED challenges

\* verifyOtp accepts the code of a challenge, which only its addressee can know.
Accept(c, type) ==
  /\ c \in mailed /\ challenges[c] # Gone
  /\ challenges[c].open /\ challenges[c].type = type
  /\ challenges' = [challenges EXCEPT ![c].open = FALSE]
  /\ proved' = proved \cup {<<challenges[c].user, challenges[c].to>>}

\* mailService.sendVerificationOtp, then the answer with the attemptId.
Mail(r) ==
  /\ pc[r] = "mailing"
  /\ mailed' = mailed \cup {r}
  /\ Goto(r, "done")
  /\ UNCHANGED <<users, challenges, required, tokens, about, copy, faults, proved>>

MailFails(r) ==
  /\ pc[r] = "mailing"
  /\ faults < MaxFaults
  /\ faults' = faults + 1
  /\ Goto(r, "failed")
  /\ UNCHANGED <<users, challenges, required, tokens, about, copy, mailed, proved>>

\* generateTokenPair and the cookies.
IssueTokens(r) ==
  /\ pc[r] = "issuing"
  /\ tokens' = tokens \cup {about[r]}
  /\ Goto(r, "done")
  /\ UNCHANGED <<users, challenges, required, about, copy, faults, mailed, proved>>

---------------------------------------------------------------------------
(* signUp and verifyRegistration                                            *)

\* 409 when the address is registered.
SignUpBegin(r) ==
  /\ pc[r] = "idle"
  /\ \E a \in Addresses :
       /\ copy' = [copy EXCEPT ![r] = [email |-> a, status |-> "pending", verified |-> FALSE]]
       /\ Goto(r, IF Taken(a) THEN "refused" ELSE "asking")
  /\ about' = [about EXCEPT ![r] = r]
  /\ UNCHANGED <<users, challenges, required, tokens, faults, mailed, proved>>

\* isFeatureEnabled, once the password is hashed.
SignUpAsk(r) ==
  /\ pc[r] = "asking"
  /\ copy' = [copy EXCEPT ![r].verified = ~required,
                          ![r].status = IF required THEN "pending" ELSE "active"]
  /\ Goto(r, "creating")
  /\ UNCHANGED <<users, challenges, required, tokens, about, faults, mailed, proved>>

\* Faulty: the setting is read again to choose the answer.
SignUpCreateAskAgain(r) ==
  /\ pc[r] = "creating"
  /\ Write(r, r, IF required THEN "challenging_registration" ELSE "issuing")
  /\ proved' = IF copy[r].verified /\ users'[r] # Gone
                 THEN proved \cup {<<r, copy[r].email>>} ELSE proved
  /\ UNCHANGED <<challenges, required, tokens, about, copy, faults, mailed>>

\* createUser; then a challenge, or tokens at once.
SignUpCreate(r) ==
  /\ pc[r] = "creating"
  /\ Write(r, r, IF copy[r].verified THEN "issuing" ELSE "challenging_registration")
  /\ proved' = IF copy[r].verified /\ users'[r] # Gone
                 THEN proved \cup {<<r, copy[r].email>>} ELSE proved
  /\ UNCHANGED <<challenges, required, tokens, about, copy, faults, mailed>>

SignUpChallenge(r) ==
  /\ pc[r] = "challenging_registration"
  /\ CreateChallenge(r, "registration")
  /\ UNCHANGED <<users, required, tokens, about, copy, faults, mailed, proved>>

VerifyRegistration(r) ==
  /\ pc[r] = "idle"
  /\ \E c \in Requests :
       /\ Accept(c, "registration")
       /\ about' = [about EXCEPT ![r] = challenges[c].user]
  /\ Goto(r, "activating")
  /\ UNCHANGED <<users, required, tokens, copy, faults, mailed>>

\* updateUser reads the user ...
Activate(r) ==
  /\ pc[r] = "activating"
  /\ IF Exists(about[r])
       THEN /\ copy' = [copy EXCEPT ![r] =
                          [users[about[r]] EXCEPT !.verified = TRUE, !.status = "active"]]
            /\ Goto(r, "saving_activated")
       ELSE Goto(r, "failed") /\ UNCHANGED copy
  /\ UNCHANGED <<users, challenges, required, tokens, about, faults, mailed, proved>>

\* ... and saves it.
SaveActivated(r) ==
  /\ pc[r] = "saving_activated"
  /\ Write(r, about[r], "issuing")
  /\ UNCHANGED <<challenges, required, tokens, about, copy, faults, mailed, proved>>

---------------------------------------------------------------------------
(* signIn and verifyLogin                                                   *)

MaySignIn(u) == Exists(u) /\ users[u].verified /\ users[u].status = "active"

\* 401 or 403, or the user is read and the login setting asked for.
SignIn(r) ==
  /\ pc[r] = "idle"
  /\ \E u \in Ids :
       /\ MaySignIn(u)
       /\ about' = [about EXCEPT ![r] = u]
       /\ copy' = [copy EXCEPT ![r] = users[u]]
  /\ \E next \in {"issuing", "challenging_login"} : Goto(r, next)
  /\ UNCHANGED <<users, challenges, required, tokens, faults, mailed, proved>>

SignInChallenge(r) ==
  /\ pc[r] = "challenging_login"
  /\ CreateChallenge(r, "login")
  /\ UNCHANGED <<users, required, tokens, about, copy, faults, mailed, proved>>

VerifyLogin(r) ==
  /\ pc[r] = "idle"
  /\ \E c \in Requests :
       /\ Accept(c, "login")
       /\ about' = [about EXCEPT ![r] = challenges[c].user]
  /\ Goto(r, "checking")
  /\ UNCHANGED <<users, required, tokens, copy, faults, mailed>>

CheckLogin(r) ==
  /\ pc[r] = "checking"
  /\ Goto(r, IF MaySignIn(about[r]) THEN "issuing" ELSE "refused")
  /\ UNCHANGED <<users, challenges, required, tokens, about, copy, faults, mailed, proved>>

---------------------------------------------------------------------------
(* initiateEmailChange and confirmEmailChange                               *)

\* Of oneself only; 409 when the new address is taken.
InitiateEmailChange(r) ==
  /\ pc[r] = "idle"
  /\ \E u \in Ids, a \in Addresses :
       /\ Authenticated(u)
       /\ about' = [about EXCEPT ![r] = u]
       /\ copy' = [copy EXCEPT ![r] = [users[u] EXCEPT !.email = a]]
       /\ Goto(r, IF Taken(a) THEN "refused" ELSE "challenging_email")
  /\ UNCHANGED <<users, challenges, required, tokens, faults, mailed, proved>>

EmailChallenge(r) ==
  /\ pc[r] = "challenging_email"
  /\ CreateChallenge(r, "email_change")
  /\ UNCHANGED <<users, required, tokens, about, copy, faults, mailed, proved>>

\* Faulty: nobody asks whose challenge it was.
ConfirmEmailChangeOfAnyone(r) ==
  /\ pc[r] = "idle"
  /\ \E u \in Ids, c \in Requests :
       /\ Authenticated(u)
       /\ Accept(c, "email_change")
       /\ about' = [about EXCEPT ![r] = u]
       /\ copy' = [copy EXCEPT ![r] = [users[u] EXCEPT !.email = challenges[c].to]]
       /\ Goto(r, "comparing")
  /\ UNCHANGED <<users, required, tokens, faults, mailed>>

\* The code is used up before the challenge is seen to be another user's.
ConfirmEmailChange(r) ==
  /\ pc[r] = "idle"
  /\ \E u \in Ids, c \in Requests :
       /\ Authenticated(u)
       /\ Accept(c, "email_change")
       /\ about' = [about EXCEPT ![r] = u]
       /\ copy' = [copy EXCEPT ![r] = [users[u] EXCEPT !.email = challenges[c].to]]
       /\ Goto(r, IF challenges[c].user = u THEN "comparing" ELSE "refused")
  /\ UNCHANGED <<users, required, tokens, faults, mailed>>

\* 409 when someone else has the address by now.
ConfirmCompare(r) ==
  /\ pc[r] = "comparing"
  /\ Goto(r, IF \E w \in Ids \ {about[r]} : Owns(w, copy[r].email)
               THEN "refused" ELSE "reading")
  /\ UNCHANGED <<users, challenges, required, tokens, about, copy, faults, mailed, proved>>

\* The user is read now; 404 when it is gone.
ConfirmRead(r) ==
  /\ pc[r] = "reading"
  /\ IF Exists(about[r])
       THEN /\ copy' = [copy EXCEPT ![r] = [users[about[r]] EXCEPT !.email = copy[r].email]]
            /\ Goto(r, "saving")
       ELSE Goto(r, "refused") /\ UNCHANGED copy
  /\ UNCHANGED <<users, challenges, required, tokens, about, faults, mailed, proved>>

---------------------------------------------------------------------------
(* createUser of an administrator, and updateUser                           *)

\* The address is not looked for; only the index keeps it unique.
CreateUser(r) ==
  /\ pc[r] = "idle"
  /\ \E dto \in User : copy' = [copy EXCEPT ![r] = dto]
  /\ about' = [about EXCEPT ![r] = r]
  /\ Goto(r, "saving_vouched")
  /\ UNCHANGED <<users, challenges, required, tokens, faults, mailed, proved>>

\* findById, for the user itself or for an administrator; others are refused.
UpdateUser(r) ==
  /\ pc[r] = "idle"
  /\ \E u \in Ids :
       /\ Exists(u)
       /\ about' = [about EXCEPT ![r] = u]
       /\ copy' = [copy EXCEPT ![r] = users[u]]
       /\ \/ Goto(r, "updating")
          \/ Authenticated(u) /\ Goto(r, "updating_self")
  /\ UNCHANGED <<users, challenges, required, tokens, faults, mailed, proved>>

\* A user changes anything but the address; the patch may leave it all as it is,
\* or say that the account is verified: then nobody else answers for its address.
UpdateSelf(r) ==
  /\ pc[r] = "updating_self"
  /\ \E s \in UserStatus, v \in BOOLEAN :
       /\ copy' = [copy EXCEPT ![r] = [email |-> @.email, status |-> s, verified |-> v]]
       /\ Goto(r, IF v /\ ~copy[r].verified THEN "saving_vouched" ELSE "saving")
  /\ UNCHANGED <<users, challenges, required, tokens, about, faults, mailed, proved>>

\* An administrator also sets the address, unless it is taken. It answers for an
\* address it sets and for one it marks as verified.
UpdateByAdmin(r) ==
  /\ pc[r] = "updating"
  /\ \E dto \in User :
       /\ copy' = [copy EXCEPT ![r] = dto]
       /\ Goto(r, IF dto.email # copy[r].email /\ Taken(dto.email) THEN "refused"
                  ELSE IF dto.email # copy[r].email \/ (dto.verified /\ ~copy[r].verified)
                    THEN "saving_vouched" ELSE "saving")
  /\ UNCHANGED <<users, challenges, required, tokens, about, faults, mailed, proved>>

\* Object.assign and save; updateUser and confirmEmailChange end so.
SaveUser(r) ==
  /\ pc[r] = "saving"
  /\ Write(r, about[r], "done")
  /\ UNCHANGED <<challenges, required, tokens, about, copy, faults, mailed, proved>>

\* The same, with an address or a flag that was answered for.
SaveVouched(r) ==
  /\ pc[r] = "saving_vouched"
  /\ Write(r, about[r], "done")
  /\ proved' = IF pc'[r] = "done" THEN proved \cup {<<about[r], copy[r].email>>} ELSE proved
  /\ UNCHANGED <<challenges, required, tokens, about, copy, faults, mailed>>

---------------------------------------------------------------------------
\* updateVerificationSettings
UpdateSetting ==
  /\ required' = ~required
  /\ UNCHANGED <<users, challenges, tokens, pc, about, copy, faults, mailed, proved>>

\* An account is erased (see Accounts), its challenges with it.
Erase(u) ==
  /\ Exists(u)
  /\ users' = [users EXCEPT ![u] = Gone]
  /\ challenges' = [c \in Requests |->
                      IF challenges[c] # Gone /\ challenges[c].user = u THEN Gone
                      ELSE challenges[c]]
  /\ UNCHANGED <<required, tokens, pc, about, copy, faults, mailed, proved>>

\* At most one account, which is active, and signed in or not.
Init ==
  /\ users \in {[u \in Ids |-> IF u = Owner THEN row ELSE Gone] :
                  row \in {Gone} \cup {x \in User : x.status = "active" /\ x.verified}}
  /\ tokens \in IF users[Owner] = Gone THEN {{}} ELSE {{}, {Owner}}
  /\ challenges = [c \in Requests |-> Gone]
  /\ required \in BOOLEAN
  /\ pc = [r \in Requests |-> "idle"]
  /\ about = [r \in Requests |-> r]
  /\ copy = [r \in Requests |-> Gone]
  /\ faults = 0
  /\ mailed = {}
  /\ proved = IF users[Owner] = Gone THEN {} ELSE {<<Owner, users[Owner].email>>}

Auth(r) ==
  \/ SignUpBegin(r) \/ SignUpAsk(r) \/ SignUpCreate(r) \/ SignUpChallenge(r)
  \/ VerifyRegistration(r) \/ Activate(r) \/ SaveActivated(r)
  \/ SignIn(r) \/ SignInChallenge(r)
  \/ VerifyLogin(r) \/ CheckLogin(r)
  \/ Mail(r) \/ MailFails(r) \/ IssueTokens(r)

Profile(r) ==
  \/ InitiateEmailChange(r) \/ EmailChallenge(r)
  \/ ConfirmEmailChange(r) \/ ConfirmCompare(r) \/ ConfirmRead(r)
  \/ CreateUser(r) \/ UpdateUser(r) \/ UpdateSelf(r) \/ UpdateByAdmin(r)
  \/ SaveUser(r) \/ SaveVouched(r)

Next ==
  \/ \E r \in Requests : Auth(r) \/ Profile(r)
  \/ UpdateSetting
  \/ \E u \in Ids : Erase(u)

Spec == Init /\ [][Next]_vars

---------------------------------------------------------------------------
(* Properties                                                               *)

\* Every variable keeps its type, and an address belongs to one account: sign-ups,
\* e-mail changes and administrators that found it free at once cannot all get it.
TypeOK ==
  /\ users \in [Ids -> {Gone} \cup User]
  /\ \A u, w \in Ids : Exists(u) /\ Exists(w) /\ users[u].email = users[w].email => u = w
  /\ challenges \in [Requests -> {Gone} \cup Challenge]
  /\ required \in BOOLEAN
  /\ tokens \subseteq Ids
  /\ pc \in [Requests -> {"idle", "asking", "creating", "challenging_registration",
                          "activating", "saving_activated", "challenging_login",
                          "checking", "challenging_email", "comparing", "reading",
                          "updating", "updating_self", "saving", "saving_vouched", "mailing", "issuing",
                          "done", "refused", "failed"}]
  /\ about \in [Requests -> Ids]
  /\ copy \in [Requests -> {Gone} \cup User]
  /\ faults \in 0..MaxFaults
  /\ mailed \subseteq Requests
  /\ proved \subseteq Ids \X Addresses

\* A verified account has an address that was proved, or vouched for, for this very
\* account, and tokens go to such accounts only, whatever updates, e-mail changes,
\* deletions and changes of the setting overlap with its registration.
AddressProved ==
  /\ \A u \in Ids : Exists(u) /\ users[u].verified => <<u, users[u].email>> \in proved
  /\ \A u \in tokens : \E a \in Addresses : <<u, a>> \in proved

\* A sign-up that was answered left its client with a way in: tokens for an account
\* that is active, a code by mail for one that is pending, although the setting may
\* change between the steps of signUp.
SignUpAnswered ==
  \A r \in Requests :
    pc[r] = "done" /\ about[r] = r => r \in mailed \/ <<r, copy[r].email>> \in proved

---------------------------------------------------------------------------
(* The inductive invariant                                                  *)

\* Calls that go on with an entity or an address, and those that will save it.
Creating == {"asking", "creating", "challenging_registration"}
Saving == {"updating", "updating_self", "saving", "saving_activated"}
Holding == Creating \cup Saving \cup
           {"challenging_login", "challenging_email", "comparing", "reading",
            "saving_vouched"}

\* Calls about an account that another call created.
OfAnother == Saving \cup {"activating", "challenging_login", "checking",
                          "challenging_email", "comparing", "reading"}

\* An account that there may be, or may have been.
Known(u) == u = Owner \/ pc[u] # "idle"

\* A sign-up that has written its account, or failed to: `copy' is what it wrote.
SigningUp == {"challenging_registration", "mailing", "issuing", "done", "failed"}
SignedUp(u) == u \in Requests /\ about[u] = u /\ copy[u] # Gone /\ pc[u] \in SigningUp

\* An address of an account is proved, or the one the account signed up with.
Proved(u, a) == <<u, a>> \in proved
Founded(u, a) == Proved(u, a) \/ (SignedUp(u) /\ a = copy[u].email)

UserFits(u) ==
  Exists(u) => /\ Known(u)
               /\ Founded(u, users[u].email)
               /\ users[u].verified => Proved(u, users[u].email)

TokenFits(u) == Known(u) /\ \E a \in Addresses : Proved(u, a)

\* The code of a registration was sent to the address its account signed up with.
ChallengeFits(c) ==
  challenges[c] # Gone =>
    /\ Known(c) /\ Known(challenges[c].user)
    /\ challenges[c].type = "registration" =>
         challenges[c].user = c /\ SignedUp(c) /\ challenges[c].to = copy[c].email

\* A call is about its own account while it creates it. A copy that will be saved
\* has an address with a foundation, a proved one if it says verified; so have the
\* new address of a change, and the account that is activated or gets tokens.
CallFits(r) ==
  LET u == about[r]
      a == copy[r].email
  IN  /\ pc[r] \in Holding => copy[r] # Gone
      /\ pc[r] # "idle" => Known(u)
      /\ pc[r] \in Creating => u = r
      /\ pc[r] \in OfAnother => u # r
      /\ pc[r] \in Saving => Founded(u, a) /\ (copy[r].verified => Proved(u, a))
      /\ pc[r] \in {"comparing", "reading"} => Proved(u, a)
      /\ pc[r] = "activating" => SignedUp(u) /\ Proved(u, copy[u].email)
      /\ pc[r] = "saving_activated" => copy[r].verified
      /\ pc[r] = "issuing" => \E b \in Addresses : Proved(u, b)
      /\ pc[r] = "issuing" /\ u = r => Proved(r, a)
      /\ pc[r] = "done" /\ u = r => r \in mailed \/ Proved(r, a)

\* The invariant that AddressProved and SignUpAnswered follow from.
IInv ==
  /\ TypeOK
  /\ \A u \in Ids : UserFits(u)
  /\ \A u \in tokens : TokenFits(u)
  /\ \A r \in Requests : ChallengeFits(r) /\ CallFits(r)

---------------------------------------------------------------------------
\* "max 5 attempts, 60-second resend rate limit": an account that a sign-up left
\* pending can be completed, by a code that was mailed or a call under way.
PendingHasAWayIn ==
  \A r \in Requests :
    /\ pc[r] \in {"done", "failed"} /\ about[r] = r
    /\ Exists(r) /\ users[r].status = "pending" /\ <<r, users[r].email>> \notin proved
    => \E c \in mailed : /\ challenges[c] # Gone /\ challenges[c].open
                         /\ challenges[c].user = r /\ challenges[c].type = "registration"
====
