--------------------------- MODULE AccountsProof ---------------------------
(***************************************************************************)
(* For every set of users, requests and processes and every bound: first     *)
(* what uploads and removals alone never do, from the inductive invariant at *)
(* the end of Avatars; then, for both modes, what deletions, profile         *)
(* updates, uploads and removals that overlap never do, from the one at the  *)
(* end of Accounts; last, for every body and any limits, how AvatarInput      *)
(* answers it.                                                               *)
(***************************************************************************)
EXTENDS Accounts, AvatarInput, FiniteSetTheorems, SequenceTheorems, TLAPS

---------------------------------------------------------------------------
(* Uploads and removals alone                                               *)

\* The order of task ids is antisymmetric.
LEMMA SameNumber == ASSUME NEW a \in Nat, NEW b \in Nat, a <= b, b <= a PROVE a = b
  OBVIOUS

\* Before any upload the inductive invariant holds.
LEMMA AvatarsInitially == Init => IInv
  BY ConstantsDistinct, BoundsAreNaturals
     DEF Init, IInv, TypeOK, PhotosLinked, LinkingStored, VictimsRetired,
         VictimsDistinct, TasksRetired, TaskIds, CopiesRetryable, DeleteAfterRemove,
         NothingForgotten, Retired, InUse, Fresh, Cleaning, Ended, Paths, Task

\* No action of a request or of a sweep breaks the inductive invariant.
LEMMA AvatarsStepKeeps == IInv /\ [Next]_vars => IInv'
<1> SUFFICES ASSUME IInv, [Next]_vars PROVE IInv'
  OBVIOUS
<1> USE ConstantsDistinct, BoundsAreNaturals
    DEF IInv, TypeOK, PhotosLinked, LinkingStored, VictimsRetired, VictimsDistinct,
        TasksRetired, TaskIds, CopiesRetryable, DeleteAfterRemove, NothingForgotten,
        Held, Retired, InUse, Linked, Fresh, Cleaning, Ended, Paths, Task,
        Fault, Goto, dbVars, requestVars, sweepVars, At
<1>1. ASSUME NEW r \in Requests, UploadBegin(r) PROVE IInv'
  BY <1>1 DEF UploadBegin, FindAuthorizedUser
<1>2. ASSUME NEW r \in Requests, UploadRejected(r) PROVE IInv'
  BY <1>2 DEF UploadRejected
<1>3. ASSUME NEW r \in Requests, UploadStore(r) PROVE IInv'
  BY <1>3 DEF UploadStore
<1>4. ASSUME NEW r \in Requests, UploadStoreFails(r) PROVE IInv'
  BY <1>4 DEF UploadStoreFails
<1>5. ASSUME NEW r \in Requests, UploadLink(r) PROVE IInv'
  BY <1>5 DEF UploadLink, UpdateAvatar, CleanUpPrevious
<1>6. ASSUME NEW r \in Requests, UploadLinkFails(r) PROVE IInv'
  BY <1>6 DEF UploadLinkFails
<1>7. ASSUME NEW r \in Requests, RemoveBegin(r) PROVE IInv'
  BY <1>7 DEF RemoveBegin, FindAuthorizedUser
<1>8. ASSUME NEW r \in Requests, RemoveUnlink(r) PROVE IInv'
  BY <1>8 DEF RemoveUnlink, UpdateAvatar, CleanUpPrevious
<1>9. ASSUME NEW r \in Requests, RemoveUnlinkFails(r) PROVE IInv'
  BY <1>9 DEF RemoveUnlinkFails
<1>10. ASSUME NEW r \in Requests, RemoveObject(r) PROVE IInv'
  BY <1>10 DEF RemoveObject, RemoveObjectAt, StorageRemove, Answer
<1>11. ASSUME NEW r \in Requests, RecordTask(r) PROVE IInv'
  <2> USE <1>11 DEF RecordTask, RecordTaskAt, Answer
  <2> DEFINE new == [id |-> nextId, path |-> victim[r], attempts |-> 0]
  <2>1. new \in Task /\ new.path = victim[r] /\ new.id = nextId
    OBVIOUS
  <2>2. TypeOK' 
    BY <2>1
  <2>3. PhotosLinked' /\ LinkingStored' /\ VictimsRetired' /\ VictimsDistinct'
    OBVIOUS
  <2>4. TasksRetired' 
    OBVIOUS
  <2>5. TaskIds'
    OBVIOUS
  <2>6. CopiesRetryable' /\ DeleteAfterRemove'
    OBVIOUS
  <2>7. NothingForgotten'
    <3>1. new \in tasks' /\ tasks \subseteq tasks' /\ new.path = victim[r]
      OBVIOUS
    <3>2. \A q \in Requests : q # r => Held(q)' = Held(q)
      OBVIOUS
    <3>3. Held(r) = {victim[r]}
      OBVIOUS
    <3> HIDE <1>11 DEF new
    <3> QED
      BY <1>11, <3>1, <3>2, <3>3
  <2> QED BY <2>2, <2>3, <2>4, <2>5, <2>6, <2>7
<1>12. ASSUME NEW r \in Requests, RecordTaskFails(r) PROVE IInv'
  BY <1>12 DEF RecordTaskFails, RecordTaskFailsAt, Answer
<1>13. ASSUME NEW i \in Instances, SweepStart(i) PROVE IInv'
  <2> USE <1>13 DEF SweepStart
  <2>1. \A t \in FindRetryable : t \in tasks /\ t.attempts < MaxAttempts
    BY DEF FindRetryable, Retryable
  <2>2. TypeOK' 
    BY <2>1
  <2>3. PhotosLinked' /\ LinkingStored' /\ VictimsRetired' /\ VictimsDistinct'
    OBVIOUS
  <2>4. TasksRetired' 
    BY <2>1
  <2>5. TaskIds'
    BY <2>1
  <2>6. CopiesRetryable' /\ DeleteAfterRemove'
    BY <2>1
  <2>7. NothingForgotten'
    OBVIOUS
  <2> QED BY <2>2, <2>3, <2>4, <2>5, <2>6, <2>7
<1>14. ASSUME NEW i \in Instances, NEW t \in batch[i], SweepRemove(i, t) PROVE IInv'
  <2> USE <1>14 DEF SweepRemove, StorageRemove
  <2>2. TypeOK' 
    OBVIOUS
  <2>3. PhotosLinked' /\ LinkingStored' /\ VictimsRetired' /\ VictimsDistinct'
    OBVIOUS
  <2>4. TasksRetired' 
    OBVIOUS
  <2>5. TaskIds'
    OBVIOUS
  <2>6. CopiesRetryable'
    OBVIOUS
  <2>6b. DeleteAfterRemove'
    <3> SUFFICES ASSUME NEW j \in Instances, NEW s \in batch[j], At(j, "delete", s)'
                 PROVE  s.path \notin stored'
      OBVIOUS
    <3>1. CASE j # i
      BY <3>1
    <3>2. CASE j = i
      <4>0. s \in Task /\ t \in Task /\ batch' = batch
        BY <3>2
      <4>1a. s.id <= t.id /\ t.id <= s.id
        BY <3>2, <4>0
      <4>1b. s.id \in Nat /\ t.id \in Nat
        BY <4>0
      <4>1. s.id = t.id
        BY <4>1a, <4>1b, SameNumber
      <4>2. s.path = t.path
        BY <4>1, <3>2
      <4> QED BY <4>2, <3>2
    <3> QED BY <3>1, <3>2
  <2>7. NothingForgotten'
    OBVIOUS
  <2> QED BY <2>2, <2>3, <2>4, <2>5, <2>6, <2>6b, <2>7
<1>15. ASSUME NEW i \in Instances, NEW t \in batch[i], SweepDelete(i, t) PROVE IInv'
  BY <1>15 DEF SweepDelete, Others, Advance
<1>16. ASSUME NEW i \in Instances, SweepDeleteFails(i) PROVE IInv'
  BY <1>16 DEF SweepDeleteFails
<1>17. ASSUME NEW i \in Instances, NEW t \in batch[i], SweepSave(i, t) PROVE IInv'
  <2> USE <1>17 DEF SweepSave, Others, Advance
  <2> DEFINE saved == [t EXCEPT !.attempts = @ + 1]
  <2>1. saved \in Task /\ saved.path = t.path /\ saved.id = t.id
    OBVIOUS
  <2>2. TypeOK' 
    BY <2>1
  <2>3. PhotosLinked' /\ LinkingStored' /\ VictimsRetired' /\ VictimsDistinct'
    OBVIOUS
  <2>4. TasksRetired' 
    BY <2>1
  <2>5. TaskIds'
    BY <2>1
  <2>6. CopiesRetryable'
    OBVIOUS
  <2>6b. DeleteAfterRemove'
    OBVIOUS
  <2>7. NothingForgotten'
    BY <2>1
  <2> QED BY <2>2, <2>3, <2>4, <2>5, <2>6, <2>6b, <2>7
<1>18. ASSUME NEW i \in Instances, SweepSaveFails(i) PROVE IInv'
  BY <1>18 DEF SweepSaveFails
<1>19. ASSUME NEW i \in Instances, Crash(i) PROVE IInv'
  BY <1>19 DEF Crash, InFlight
<1>20. CASE UNCHANGED vars
  BY <1>20 DEF vars
<1>21. QED
   BY <1>1, <1>2, <1>3, <1>4, <1>5, <1>6, <1>7, <1>8, <1>9, <1>10, <1>11, <1>12, <1>13,
      <1>14, <1>15, <1>16, <1>17, <1>18, <1>19, <1>20
     DEF Next, Upload, Remove, Cleanup, Sweep

\* The invariant behind the theorems below holds in every reachable state: uploads,
\* removals, sweeps and crashes keep used objects and those up for deletion apart.
THEOREM AvatarsInductive == Spec => []IInv
  BY AvatarsInitially, AvatarsStepKeeps, PTL DEF Spec

\* TypeOK: every variable, and every attempt count, stays in its range.
THEOREM AvatarTypesCorrect == Spec => []TypeOK
<1>1. IInv => TypeOK
  BY DEF IInv
<1>2. QED
  BY <1>1, AvatarsInductive, PTL

\* PhotoStored: users.photo never names an object that was deleted.
THEOREM PhotoAlwaysStored == Spec => []PhotoStored
<1>1. IInv => PhotoStored
  BY DEF IInv, PhotosLinked, PhotoStored
<1>2. QED
  BY <1>1, AvatarsInductive, PTL

\* NothingForgotten: each object is in use, held, recorded, or was given up in the log.
THEOREM NoObjectForgotten == Spec => []NothingForgotten
<1>1. IInv => NothingForgotten
  BY DEF IInv
<1>2. QED
  BY <1>1, AvatarsInductive, PTL

\* OneCallerPerObject: updateAvatar's lock hands a replaced object to one request.
THEOREM OneCaller == Spec => []OneCallerPerObject
<1>1. IInv => OneCallerPerObject
  <2> SUFFICES ASSUME IInv, NEW r1 \in Requests, NEW r2 \in Requests, r1 # r2
               PROVE  Held(r1) \cap Held(r2) = {}
    BY DEF OneCallerPerObject
  <2> QED
    BY DEF IInv, VictimsRetired, VictimsDistinct, Retired, Fresh, Held
<1>2. QED
  BY <1>1, AvatarsInductive, PTL

\* FailedUploadNotShown: an upload that answered an error is in no row.
THEOREM FailedUploadsStayOut == Spec => []FailedUploadNotShown
<1>1. IInv => FailedUploadNotShown
  BY DEF IInv, PhotosLinked, Linked, FailedUploadNotShown, Paths
<1>2. QED
  BY <1>1, AvatarsInductive, PTL

---------------------------------------------------------------------------
(* Avatars implements AvatarSlot.                                           *)

\* Only updateAvatar writes the photo column; elsewhere uploads can only stop
\* being fresh.
LEMMA PhotoUnchanged ==
  ASSUME IInv, [Next]_vars,
         \A r \in Requests : ~UploadLink(r) /\ ~RemoveUnlink(r)
  PROVE  photo' = photo /\ PendingUploads' \subseteq PendingUploads
<1> USE DEF IInv, TypeOK, PendingUploads, Fresh, Goto, dbVars, requestVars
<1>1. ASSUME NEW r \in Requests, Upload(r)
      PROVE  photo' = photo /\ PendingUploads' \subseteq PendingUploads
  BY <1>1 DEF Upload, UploadBegin, FindAuthorizedUser, UploadRejected, UploadStore,
              UploadStoreFails, UploadLinkFails
<1>2. ASSUME NEW r \in Requests, Remove(r)
      PROVE  photo' = photo /\ PendingUploads' \subseteq PendingUploads
  BY <1>2 DEF Remove, RemoveBegin, FindAuthorizedUser, RemoveUnlinkFails
<1>3. ASSUME NEW r \in Requests, Cleanup(r)
      PROVE  photo' = photo /\ PendingUploads' \subseteq PendingUploads
  BY <1>3 DEF Cleanup, RemoveObject, RemoveObjectAt, RecordTask, RecordTaskAt,
              RecordTaskFails, RecordTaskFailsAt, Answer
<1>4. ASSUME NEW i \in Instances, Sweep(i)
      PROVE  photo' = photo /\ PendingUploads' \subseteq PendingUploads
  BY <1>4 DEF Sweep, SweepStart, SweepRemove, SweepDelete, SweepDeleteFails,
              SweepSave, SweepSaveFails
<1>5. ASSUME NEW i \in Instances, Crash(i)
      PROVE  photo' = photo /\ PendingUploads' \subseteq PendingUploads
  BY <1>5 DEF Crash, InFlight, Ended
<1>6. CASE UNCHANGED vars
  BY <1>6 DEF vars
<1>7. QED
  BY <1>1, <1>2, <1>3, <1>4, <1>5, <1>6 DEF Next

\* SlotSpec: what profiles show changes only to a fresh upload or to nothing.
THEOREM ImplementsSlot == Spec => SlotSpec
<1>1. Init => Slot!Init
  BY ConstantsDistinct DEF Init, Slot!Init, ShownPhoto, PendingUploads, Fresh, Paths
<1>2. IInv /\ IInv' /\ [Next]_vars => [Slot!Next]_<<ShownPhoto, PendingUploads>>
  <2> SUFFICES ASSUME IInv, IInv', [Next]_vars
               PROVE  Slot!Next \/ UNCHANGED <<ShownPhoto, PendingUploads>>
    OBVIOUS
  \* With every path stored, what a reader is shown is the photo column itself.
  <2>1. ShownPhoto = photo /\ ShownPhoto' = photo'
    BY DEF IInv, TypeOK, PhotosLinked, ShownPhoto
  <2>2. ASSUME NEW r \in Requests, UploadLink(r) PROVE Slot!Show(user[r], r) /\ r \in PendingUploads
    BY <2>1, <2>2 DEF UploadLink, UpdateAvatar, CleanUpPrevious, Goto, Slot!Show,
                      PendingUploads, Fresh, IInv, TypeOK
  <2>3. ASSUME NEW r \in Requests, RemoveUnlink(r) PROVE Slot!Clear(user[r])
    BY <2>1, <2>3 DEF RemoveUnlink, UpdateAvatar, CleanUpPrevious, Goto, Slot!Clear,
                      PendingUploads, Fresh, IInv, TypeOK
  <2>4. CASE \A r \in Requests : ~UploadLink(r) /\ ~RemoveUnlink(r)
    BY <2>1, <2>4, PhotoUnchanged DEF Slot!Next, Slot!Drop
  <2>5. \A r \in Requests : user[r] \in Users
    BY DEF IInv, TypeOK
  <2>6. QED
    BY <2>2, <2>3, <2>4, <2>5 DEF Slot!Next
<1>3. QED
  BY <1>1, <1>2, AvatarsInductive, PTL DEF Spec, SlotSpec, Slot!Spec

---------------------------------------------------------------------------
(* Jobs and their deletions                                                 *)

\* What is saved and opened is a job.
LEMMA JobFields ==
  /\ \A j \in Job, s \in Active \cup {"done", "failed"} :
       /\ [j EXCEPT !.status = s] \in Job
       /\ [j EXCEPT !.status = s].status = s
       /\ [j EXCEPT !.status = s].user = j.user
       /\ [j EXCEPT !.status = s].mode = j.mode
  /\ \A j \in Job : j.user \in Users /\ j.mode \in Modes
  BY DEF Job

\* Saving a job changes its status and no other job.
LEMMA JobSaved ==
  ASSUME AccountsTypeOK, NEW r \in Requests, NEW s \in Active \cup {"done", "failed"},
         job[r] \in JobsOf(user[r]), SaveJob(r, s)
  PROVE  /\ jobs' \in Seq(Job)
         /\ Len(jobs') = Len(jobs)
         /\ \A j \in 1..Len(jobs) :
              /\ jobs'[j].user = jobs[j].user
              /\ jobs'[j].mode = jobs[j].mode
              /\ jobs'[j].status = IF j = job[r] THEN s ELSE jobs[j].status
<1> DEFINE k == job[r]
           e == [jobs[k] EXCEPT !.status = s]
<1>1. jobs \in Seq(Job) /\ k \in 1..Len(jobs)
  BY DEF AccountsTypeOK, JobsOf
<1>2. jobs[k] \in Job
  BY <1>1, ElementOfSeq
<1>3. e \in Job /\ e.user = jobs[k].user /\ e.mode = jobs[k].mode /\ e.status = s
  BY <1>2, JobFields
<1>4. jobs' = [jobs EXCEPT ![k] = e]
  BY DEF SaveJob
<1> HIDE DEF e, k
<1>5. QED
  BY <1>1, <1>3, <1>4, ExceptSeq DEF k

\* Opening a job leaves those before it alone.
LEMMA JobOpened ==
  ASSUME AccountsTypeOK, NEW r \in Requests, NEW m \in Modes,
         NEW s \in Active,
         jobs' = Append(jobs, [user |-> user[r], mode |-> m, status |-> s])
  PROVE  /\ jobs' \in Seq(Job)
         /\ Len(jobs) \in Nat
         /\ Len(jobs') = Len(jobs) + 1
         /\ \A j \in 1..Len(jobs) : jobs'[j] = jobs[j]
         /\ jobs'[Len(jobs')].user = user[r]
         /\ jobs'[Len(jobs')].mode = m
         /\ jobs'[Len(jobs')].status = s
<1> DEFINE e == [user |-> user[r], mode |-> m, status |-> s]
<1>1. jobs \in Seq(Job) /\ e \in Job
  BY DEF AccountsTypeOK, Job
<1>2. jobs' = Append(jobs, e) /\ e.user = user[r] /\ e.mode = m /\ e.status = s
  OBVIOUS
<1>3. Len(jobs) \in Nat
  BY <1>1, LenProperties
<1> HIDE DEF e
<1>4. QED
  BY <1>1, <1>2, <1>3, AppendProperties

---------------------------------------------------------------------------
(* Types                                                                    *)

\* Before any request the invariant holds.
LEMMA InductiveInit == AccountsInit => AccountsInv
  BY ConstantsDistinct, BoundsAreNaturals, EmptySeq
     DEF AccountsInit, Init, AccountsInv, JobsAccounted, AccountsTypeOK, DoneMeansErased,
         AvatarsInv, JobsInv, KeysLinked, LinkingStored, RemovalsUnlinked, TaskIds,
         CopiesRetryable, DeleteAfterRemove, PhotoStoredOrStale, PurgesFollowErasure,
         JobsOpened, ErasedByAnother, OwnJobs, JobsOf, Deleting, NoJob, CarryingOut,
         Cleaning, Ended, Paths

\* Requests of Avatars keep the types.
LEMMA AvatarTypes ==
  ASSUME AccountsTypeOK, RemovalsUnlinked, NEW r \in Requests, AvatarRequest(r)
  PROVE  AccountsTypeOK'
<1> USE ConstantsDistinct, BoundsAreNaturals
    DEF AccountsTypeOK, Ended, Paths, Task, Fault, Goto, dbVars, sweepVars, accountVars
<1>1. UNCHANGED accountVars
  BY DEF AvatarRequest
<1>2. CASE UploadBegin(r) \/ RemoveBegin(r)
  BY <1>1, <1>2 DEF UploadBegin, RemoveBegin, FindAuthorizedUser
<1>3. CASE UploadRejected(r) \/ UploadStore(r) \/ UploadStoreFails(r)
  BY <1>1, <1>3 DEF UploadRejected, UploadStore, UploadStoreFails
<1>4. CASE UploadLink(r)
  BY <1>1, <1>4 DEF UploadLink, UpdateAvatar, CleanUpPrevious
<1>5. CASE UploadLinkFails(r)
  BY <1>1, <1>5 DEF UploadLinkFails
<1>6. CASE RemoveUnlink(r)
  BY <1>1, <1>6 DEF RemoveUnlink, UpdateAvatar, CleanUpPrevious
<1>7. CASE RemoveUnlinkFails(r)
  BY <1>1, <1>7 DEF RemoveUnlinkFails
<1>8. CASE RemoveObject(r)
  BY <1>1, <1>8 DEF RemoveObject, RemoveObjectAt, StorageRemove, Answer
<1>9. CASE RecordTask(r)
  BY <1>1, <1>9 DEF RecordTask, RecordTaskAt, Answer, RemovalsUnlinked, Cleaning
<1>10. CASE RecordTaskFails(r)
  BY <1>1, <1>10 DEF RecordTaskFails, RecordTaskFailsAt, Answer, RemovalsUnlinked, Cleaning
<1>11. QED
  BY <1>2, <1>3, <1>4, <1>5, <1>6, <1>7, <1>8, <1>9, <1>10
     DEF AvatarRequest, Upload, Remove, Cleanup

\* A task that has attempts left is one with one more of them.
LEMMA Retried ==
  ASSUME NEW t \in Task, t.attempts < MaxAttempts
  PROVE  /\ [t EXCEPT !.attempts = @ + 1] \in Task
         /\ [t EXCEPT !.attempts = @ + 1].id = t.id
         /\ [t EXCEPT !.attempts = @ + 1].path = t.path
  BY BoundsAreNaturals DEF Task

\* The sweep and a crash keep the types.
LEMMA BackgroundTypes ==
  ASSUME AccountsTypeOK, AvatarsInv, NEW i \in Instances, Background(i)
  PROVE  AccountsTypeOK'
<1> USE ConstantsDistinct, BoundsAreNaturals
    DEF AccountsTypeOK, Ended, Paths, Task, Fault, Goto, dbVars, requestVars, accountVars
<1>1. UNCHANGED accountVars
  BY DEF Background
<1>2. CASE SweepStart(i)
  BY <1>1, <1>2 DEF SweepStart, FindRetryable, Retryable
<1>3. ASSUME NEW t \in batch[i], SweepRemove(i, t) PROVE AccountsTypeOK'
  BY <1>1, <1>3 DEF SweepRemove, StorageRemove
<1>4. ASSUME NEW t \in batch[i], SweepDelete(i, t) PROVE AccountsTypeOK'
  BY <1>1, <1>4 DEF SweepDelete, Others, Advance
<1>5. ASSUME NEW t \in batch[i], SweepSave(i, t) PROVE AccountsTypeOK'
  <2> DEFINE saved == [t EXCEPT !.attempts = @ + 1]
  <2>1. t \in Task /\ t.attempts < MaxAttempts
    BY DEF AvatarsInv, CopiesRetryable
  <2>2. saved \in Task
    BY <2>1, Retried
  <2> HIDE DEF saved
  <2>3. tasks' \subseteq tasks \cup {saved}
    BY <1>5 DEF SweepSave, Others, saved
  <2>4. QED
    BY <1>1, <1>5, <2>2, <2>3 DEF SweepSave, Advance
<1>6. CASE SweepDeleteFails(i)
  BY <1>1, <1>6 DEF SweepDeleteFails
<1>7. CASE SweepSaveFails(i)
  BY <1>1, <1>7 DEF SweepSaveFails
<1>8. CASE Crash(i)
  BY <1>1, <1>8 DEF Crash, InFlight, Held, AvatarsInv, RemovalsUnlinked, Cleaning
<1>9. QED
  BY <1>2, <1>3, <1>4, <1>5, <1>6, <1>7, <1>8 DEF Background, Sweep

\* The latest job of an account that has jobs is one of them, and the newest.
LEMMA LatestIsOne ==
  ASSUME JobsOpened, NEW u \in Users, JobsOf(u) # {}
  PROVE  LatestJob(u) \in JobsOf(u) /\ \A k \in JobsOf(u) : k <= LatestJob(u)
<1>1. PICK j \in JobsOf(u) : \A k \in JobsOf(u) : k <= j
  BY DEF JobsOpened
<1>2. LatestJob(u) = CHOOSE i \in JobsOf(u) : \A k \in JobsOf(u) : k <= i
  BY DEF LatestJob
<1> HIDE DEF JobsOf
<1>3. QED
  BY <1>1, <1>2

\* Deletions and profile updates keep the types.
LEMMA DeletionTypes ==
  ASSUME AccountsTypeOK, RemovalsUnlinked, JobsOpened, NEW r \in Requests,
         Delete(r) \/ Update(r)
  PROVE  AccountsTypeOK'
<1> USE ConstantsDistinct, BoundsAreNaturals
    DEF AccountsTypeOK, Ended, CarryingOut, Paths, Task, Fault, Goto, KeepAvatars, sweepVars,
        accountVars, dbVars, Photo
<1>1. CASE DeleteBegin(r)
  BY <1>1 DEF DeleteBegin
<1>2. CASE DeleteCheck(r) \/ DeleteAuthorize(r)
  <2>1. \E next \in {"authorizing", "enqueuing", "done", "failed"} :
          pc' = [pc EXCEPT ![r] = next]
    BY <1>2 DEF DeleteCheck, DeleteAuthorize
  <2>2. QED
    BY <1>2, <2>1 DEF DeleteCheck, DeleteAuthorize
<1>3. CASE DeleteEnqueue(r)
  <2>1. /\ jobs' \in Seq(Job)
        /\ Len(jobs) \in Nat
        /\ Len(jobs') = Len(jobs) + 1
    BY <1>3, JobOpened DEF DeleteEnqueue, Active
  <2>2. job' \in [Requests -> 0..Len(jobs')]
    BY <1>3, <2>1 DEF DeleteEnqueue
  <2>3. QED
    BY <1>3, <2>1, <2>2 DEF DeleteEnqueue
<1>4. CASE HandleFindJob(r)
  <2>1. LatestJob(user[r]) \in 0..Len(jobs)
    <3>1. user[r] \in Users /\ JobsOf(user[r]) # {}
      BY <1>4 DEF HandleFindJob, JobsOpened
    <3>2. LatestJob(user[r]) \in JobsOf(user[r])
      BY <3>1, LatestIsOne
    <3>3. QED
      BY <3>2 DEF JobsOf
  <2>2. QED
    BY <1>4, <2>1 DEF HandleFindJob
<1>5. CASE HandleFindUser(r)
  BY <1>5 DEF HandleFindUser
<1>6. CASE DeleteStart(r) \/ DeleteClose(r)
  <2>1. job[r] \in JobsOf(user[r])
    BY <1>6 DEF DeleteStart, DeleteClose, JobsOpened
  <2>2. jobs' \in Seq(Job) /\ Len(jobs') = Len(jobs)
    BY <1>6, <2>1, JobSaved DEF DeleteStart, DeleteClose, Active
  <2>3. QED
    BY <1>6, <2>2 DEF DeleteStart, DeleteClose
<1>7. CASE DeleteErase(r)
  BY <1>7 DEF DeleteErase
<1>8. CASE DeleteThrows(r)
  BY <1>8 DEF DeleteThrows
<1>9. CASE DeletePurge(r)
  <2>1. victim[r] \in Paths
    BY <1>9 DEF DeletePurge, RemoveObjectAt, RecordTaskAt, RecordTaskFailsAt, RemovalsUnlinked,
                Cleaning
  <2>2. CASE RemoveObjectAt(r, "purging", "purge_recording", "closing")
    BY <1>9, <2>1, <2>2 DEF DeletePurge, RemoveObjectAt, StorageRemove
  <2>3. CASE RecordTaskAt(r, "purge_recording", "closing")
    BY <1>9, <2>1, <2>3 DEF DeletePurge, RecordTaskAt
  <2>4. CASE RecordTaskFailsAt(r, "purge_recording", "aborting")
    BY <1>9, <2>1, <2>4 DEF DeletePurge, RecordTaskFailsAt
  <2>5. QED
    BY <1>9, <2>2, <2>3, <2>4 DEF DeletePurge
<1>10. CASE UpdateBegin(r) \/ UpdateRejected(r)
  BY <1>10 DEF UpdateBegin, UpdateRejected
<1>11. CASE UpdateSave(r)
  BY <1>11 DEF UpdateSave
<1>12. CASE DeleteEnqueueFails(r)
  BY <1>12 DEF DeleteEnqueueFails
<1>13. CASE HandleFails(r)
  BY <1>13 DEF HandleFails
<1>14. CASE DeleteCloseFails(r)
  BY <1>14 DEF DeleteCloseFails
<1>15. QED
  BY <1>1, <1>2, <1>3, <1>4, <1>5, <1>6, <1>7, <1>8, <1>9, <1>10, <1>11, <1>12, <1>13,
     <1>14 DEF Delete, Update

---------------------------------------------------------------------------
(* Keys and objects                                                         *)

\* Uploads and removals, and what they clean up, keep to keys that are unlinked.
LEMMA AvatarStep ==
  ASSUME AccountsTypeOK, AccountsTypeOK', AvatarsInv, NEW r \in Requests, AvatarRequest(r)
  PROVE  AvatarsInv'
<1> USE ConstantsDistinct
    DEF AccountsTypeOK, AvatarsInv, KeysLinked, LinkingStored, RemovalsUnlinked, TaskIds,
        CopiesRetryable, DeleteAfterRemove, PhotoStoredOrStale, PurgesFollowErasure,
        LinkedTo, Unlinked, Fresh, Cleaning, Ended, CarryingOut, Paths, Task, At, Goto, dbVars,
        sweepVars, accountVars
<1>1. UNCHANGED accountVars
  BY DEF AvatarRequest
<1>2. CASE UploadBegin(r)
  BY <1>1, <1>2 DEF UploadBegin, FindAuthorizedUser
<1>3. CASE RemoveBegin(r)
  BY <1>1, <1>3 DEF RemoveBegin, FindAuthorizedUser
<1>4. CASE UploadRejected(r)
  BY <1>1, <1>4 DEF UploadRejected
<1>5. CASE UploadStore(r)
  BY <1>1, <1>5 DEF UploadStore
<1>6. CASE UploadStoreFails(r)
  <2> USE <1>1, <1>6 DEF UploadStoreFails
  <2>1. KeysLinked' /\ LinkingStored'
    OBVIOUS
  <2>2. RemovalsUnlinked' /\ PurgesFollowErasure'
    OBVIOUS
  <2>3. TaskIds' /\ CopiesRetryable' /\ DeleteAfterRemove'
    OBVIOUS
  <2>4. PhotoStoredOrStale'
    OBVIOUS
  <2>5. QED
    BY <2>1, <2>2, <2>3, <2>4
<1>7. CASE UploadLink(r)
  <2> USE <1>1, <1>7 DEF UploadLink, UpdateAvatar, CleanUpPrevious
  <2>1. KeysLinked'
    OBVIOUS
  <2>2. LinkingStored'
    OBVIOUS
  <2>3. RemovalsUnlinked'
    <3>1. \A p \in Paths : pc[p] \notin Fresh => p # r /\ (Unlinked(p) => Unlinked(p)')
      OBVIOUS
    <3>2. ASSUME NEW p \in Paths, p = photo[user[r]] PROVE Unlinked(p)'
      <4>1. user[p] = user[r] /\ p # r
        BY <3>2
      <4>2. photo'[user[r]] = r /\ user' = user
        OBVIOUS
      <4>3. QED
        BY <4>1, <4>2
    <3>3. ASSUME NEW q \in Requests, pc'[q] \in Cleaning
          PROVE  victim'[q] \in Paths /\ Unlinked(victim[q])'
      <4>1. CASE q = r
        <5>1. photo[user[r]] \in Paths /\ victim'[r] = photo[user[r]]
          BY <3>3, <4>1
        <5>2. QED
          BY <4>1, <5>1, <3>2
      <4>2. CASE q # r
        BY <3>1, <3>3, <4>2
      <4>3. QED
        BY <4>1, <4>2
    <3>4. \A t \in tasks' : Unlinked(t.path)'
      BY <3>1
    <3>5. \A i \in Instances : \A t \in batch'[i] : Unlinked(t.path)'
      BY <3>1
    <3>6. QED
      BY <3>3, <3>4, <3>5
  <2>4. TaskIds' /\ CopiesRetryable' /\ DeleteAfterRemove'
    OBVIOUS
  <2>5. PhotoStoredOrStale' /\ PurgesFollowErasure'
    OBVIOUS
  <2>6. QED
    BY <2>1, <2>2, <2>3, <2>4, <2>5
<1>8. CASE UploadLinkFails(r)
  BY <1>1, <1>8 DEF UploadLinkFails
<1>9. CASE RemoveUnlink(r)
  BY <1>1, <1>9 DEF RemoveUnlink, UpdateAvatar, CleanUpPrevious
<1>10. CASE RemoveUnlinkFails(r)
  BY <1>1, <1>10 DEF RemoveUnlinkFails
<1>11. CASE RemoveObject(r)
  BY <1>1, <1>11 DEF RemoveObject, RemoveObjectAt, StorageRemove, Answer
<1>12. CASE RecordTask(r)
  BY <1>1, <1>12 DEF RecordTask, RecordTaskAt, Answer
<1>13. CASE RecordTaskFails(r)
  BY <1>1, <1>13 DEF RecordTaskFails, RecordTaskFailsAt, Answer
<1>14. QED
  BY <1>2, <1>3, <1>4, <1>5, <1>6, <1>7, <1>8, <1>9, <1>10, <1>11, <1>12, <1>13
     DEF AvatarRequest, Upload, Remove, Cleanup

\* Sweeps delete unlinked keys only; what a crash leaves behind stays unlinked.
LEMMA BackgroundStep ==
  ASSUME AccountsTypeOK, AccountsTypeOK', AvatarsInv, NEW i \in Instances, Background(i)
  PROVE  AvatarsInv'
<1> USE ConstantsDistinct
    DEF AccountsTypeOK, AvatarsInv, KeysLinked, LinkingStored, RemovalsUnlinked, TaskIds,
        CopiesRetryable, DeleteAfterRemove, PhotoStoredOrStale, PurgesFollowErasure,
        LinkedTo, Unlinked, Fresh, Cleaning, Ended, CarryingOut, Paths, Task, At, dbVars,
        requestVars, accountVars
<1>1. UNCHANGED accountVars
  BY DEF Background
<1>2. CASE SweepStart(i)
  <2>1. \A t \in FindRetryable : t \in tasks /\ t.attempts < MaxAttempts
    BY DEF FindRetryable, Retryable
  <2>2. QED
    BY <1>1, <1>2, <2>1 DEF SweepStart
<1>3. ASSUME NEW t \in batch[i], SweepRemove(i, t) PROVE AvatarsInv'
  <2> USE <1>1, <1>3 DEF SweepRemove, StorageRemove
  <2>1. KeysLinked' /\ LinkingStored' /\ RemovalsUnlinked'
    OBVIOUS
  <2>2. TaskIds' /\ CopiesRetryable'
    OBVIOUS
  <2>3. DeleteAfterRemove'
    <3> SUFFICES ASSUME NEW j \in Instances, NEW s \in batch[j], At(j, "delete", s)'
                 PROVE  s.path \notin stored'
      OBVIOUS
    <3>1. CASE j # i
      BY <3>1
    <3>2. CASE j = i
      <4>1. s \in Task /\ t \in Task
        BY <3>2
      <4>2. s.id <= t.id /\ t.id <= s.id /\ s.id \in Nat /\ t.id \in Nat
        BY <3>2, <4>1
      <4>3. s.id = t.id
        BY <4>2
      <4>4. s.path = t.path
        BY <4>3, <3>2
      <4>5. QED
        BY <4>4, <3>2
    <3>3. QED
      BY <3>1, <3>2
  <2>4. PhotoStoredOrStale' /\ PurgesFollowErasure'
    OBVIOUS
  <2>5. QED
    BY <2>1, <2>2, <2>3, <2>4
<1>4. ASSUME NEW t \in batch[i], SweepDelete(i, t) PROVE AvatarsInv'
  BY <1>1, <1>4 DEF SweepDelete, Others, Advance
<1>5. ASSUME NEW t \in batch[i], SweepSave(i, t) PROVE AvatarsInv'
  <2> DEFINE saved == [t EXCEPT !.attempts = @ + 1]
  <2>1. t \in Task /\ saved.id = t.id /\ saved.path = t.path
    OBVIOUS
  <2> HIDE DEF saved
  <2> USE <1>1, <2>1
  <2>2. tasks' = Others(t.id) \cup {saved}
    BY <1>5 DEF SweepSave, saved
  <2> USE <1>5, <2>2 DEF SweepSave, Others, Advance
  <2>3. KeysLinked' /\ LinkingStored'
    OBVIOUS
  <2>4. RemovalsUnlinked'
    OBVIOUS
  <2>5. TaskIds'
    OBVIOUS
  <2>6. CopiesRetryable' /\ DeleteAfterRemove'
    OBVIOUS
  <2>7. PhotoStoredOrStale' /\ PurgesFollowErasure'
    OBVIOUS
  <2>8. QED
    BY <2>3, <2>4, <2>5, <2>6, <2>7
<1>6. CASE SweepDeleteFails(i)
  BY <1>1, <1>6 DEF SweepDeleteFails
<1>7. CASE SweepSaveFails(i)
  BY <1>1, <1>7 DEF SweepSaveFails
<1>8. CASE Crash(i)
  BY <1>1, <1>8 DEF Crash, InFlight
<1>9. QED
  BY <1>2, <1>3, <1>4, <1>5, <1>6, <1>7, <1>8 DEF Background, Sweep

\* Deletions erase the row before they purge the avatar they read, and profile
\* updates link a key again only by setting a profile back.
LEMMA DeletionStep ==
  ASSUME AccountsTypeOK, AccountsTypeOK', AvatarsInv, NEW r \in Requests,
         Delete(r) \/ Update(r)
  PROVE  AvatarsInv'
<1> USE ConstantsDistinct
    DEF AccountsTypeOK, AvatarsInv, KeysLinked, LinkingStored, RemovalsUnlinked, TaskIds,
        CopiesRetryable, DeleteAfterRemove, PhotoStoredOrStale, PurgesFollowErasure,
        LinkedTo, Unlinked, Fresh, Cleaning, Ended, CarryingOut, Paths, Task, At, Goto, dbVars,
        sweepVars, accountVars, KeepAvatars, Photo
<1>1. CASE DeleteBegin(r)
  <2> USE <1>1 DEF DeleteBegin
  <2>1. KeysLinked'
    OBVIOUS
  <2>2. LinkingStored' /\ RemovalsUnlinked'
    OBVIOUS
  <2>3. TaskIds' /\ CopiesRetryable' /\ DeleteAfterRemove'
    OBVIOUS
  <2>4. PhotoStoredOrStale' /\ PurgesFollowErasure'
    OBVIOUS
  <2>5. QED
    BY <2>1, <2>2, <2>3, <2>4
<1>2. CASE DeleteCheck(r) \/ DeleteAuthorize(r)
  <2>1. \E next \in {"authorizing", "enqueuing", "done", "failed"} :
          pc' = [pc EXCEPT ![r] = next]
    BY <1>2 DEF DeleteCheck, DeleteAuthorize
  <2>2. QED
    BY <1>2, <2>1 DEF DeleteCheck, DeleteAuthorize
<1>3. CASE DeleteEnqueue(r)
  BY <1>3 DEF DeleteEnqueue
<1>4. CASE HandleFindJob(r)
  BY <1>4 DEF HandleFindJob
<1>5. CASE HandleFindUser(r)
  BY <1>5 DEF HandleFindUser
<1>6. CASE DeleteStart(r) \/ DeleteClose(r)
  BY <1>6 DEF DeleteStart, DeleteClose
<1>7. CASE DeleteErase(r)
  BY <1>7 DEF DeleteErase
<1>8. CASE DeleteThrows(r)
  BY <1>8 DEF DeleteThrows
<1>9. CASE DeletePurge(r)
  <2>1. CASE RemoveObjectAt(r, "purging", "purge_recording", "closing")
    BY <1>9, <2>1 DEF DeletePurge, RemoveObjectAt, StorageRemove
  <2>2. CASE RecordTaskAt(r, "purge_recording", "closing")
    BY <1>9, <2>2 DEF DeletePurge, RecordTaskAt
  <2>3. CASE RecordTaskFailsAt(r, "purge_recording", "aborting")
    BY <1>9, <2>3 DEF DeletePurge, RecordTaskFailsAt
  <2>4. QED
    BY <1>9, <2>1, <2>2, <2>3 DEF DeletePurge
<1>10. CASE UpdateBegin(r)
  <2> USE <1>10 DEF UpdateBegin
  <2>1. KeysLinked'
    OBVIOUS
  <2>2. LinkingStored' /\ RemovalsUnlinked'
    OBVIOUS
  <2>3. TaskIds' /\ CopiesRetryable' /\ DeleteAfterRemove'
    OBVIOUS
  <2>4. PhotoStoredOrStale' /\ PurgesFollowErasure'
    OBVIOUS
  <2>5. QED
    BY <2>1, <2>2, <2>3, <2>4
<1>11. CASE UpdateRejected(r)
  BY <1>11 DEF UpdateRejected
<1>12. CASE UpdateSave(r)
  BY <1>12 DEF UpdateSave
<1>13. CASE DeleteEnqueueFails(r)
  BY <1>13 DEF DeleteEnqueueFails
<1>14. CASE HandleFails(r)
  BY <1>14 DEF HandleFails
<1>15. CASE DeleteCloseFails(r)
  BY <1>15 DEF DeleteCloseFails
<1>16. QED
  BY <1>1, <1>2, <1>3, <1>4, <1>5, <1>6, <1>7, <1>8, <1>9, <1>10, <1>11, <1>12, <1>13,
     <1>14, <1>15 DEF Delete, Update

---------------------------------------------------------------------------
(* Jobs                                                                     *)

\* A deletion before its job is saved.
Asking == {"checking", "authorizing", "enqueuing"}

\* The steps of a request that open, change and take no job.
Aside(q) ==
  \/ pc'[q] = pc[q]
  \/ pc[q] \notin CarryingOut \cup Ended /\ pc'[q] \notin CarryingOut \cup Asking
  \/ pc[q] \in Asking /\ pc'[q] \in Asking
  \/ pc[q] = "idle" /\ pc'[q] \in Asking /\ photo[user[q]] # Gone
  \/ pc[q] \in CarryingOut /\ pc'[q] \in CarryingOut \ {"handling", "handling_user"}
  \/ pc'[q] \in {"failed", "crashed"} /\ faults' > 0

\* Such steps leave every job accounted for.
LEMMA JobsAside ==
  ASSUME JobsAccounted, JobsInv, AccountsTypeOK', UNCHANGED <<jobs, job, user>>,
         faults' >= faults, \A u \in Users : photo'[u] = Gone => photo[u] = Gone,
         \A q \in Requests : Aside(q)
  PROVE  JobsAccounted' /\ JobsInv'
<1> USE DEF Aside, Asking, CarryingOut, Ended
<1>1. /\ \A u : JobsOf(u)' = JobsOf(u) /\ TwoJobs(u)' = TwoJobs(u)
      /\ AllSync' = AllSync
  BY DEF JobsOf, TwoJobs, AllSync
<1>2. \A r \in Requests : pc'[r] \in CarryingOut => pc[r] \in CarryingOut
  OBVIOUS
<1>3. \A r \in Requests : pc'[r] \in {"handling", "handling_user"} => pc'[r] = pc[r]
  OBVIOUS
<1>4. \A r \in Requests : user[r] \in Users
  BY DEF JobsAccounted, AccountsTypeOK
<1>5. JobsOpened'
  BY <1>1, <1>2 DEF JobsInv, JobsOpened
<1>6. ErasedByAnother'
  <2> SUFFICES ASSUME NEW r \in Requests, photo'[user[r]] = Gone
               PROVE  /\ pc'[r] \in Asking => JobsOf(user[r]) # {}
                      /\ pc'[r] \in {"handling", "handling_user"} => TwoJobs(user[r])
    BY <1>1 DEF ErasedByAnother
  <2>1. photo[user[r]] = Gone
    BY <1>4
  <2>2. QED
    BY <1>3, <2>1 DEF JobsInv, ErasedByAnother
<1>7. OwnJobs'
  BY <1>1, <1>2, <1>3 DEF JobsInv, OwnJobs
<1>8. JobsAccounted'
  <2> SUFFICES ASSUME NEW j \in 1..Len(jobs), jobs[j].status \in Active
               PROVE  \/ \E r \in Requests : CarriesOut(r, j)'
                      \/ /\ faults' > 0
                         /\ \E r \in Requests : job[r] = j /\ pc'[r] \in {"failed", "crashed"}
                      \/ ~AllSync /\ \E k \in 1..Len(jobs) : k # j /\ jobs[k].user = jobs[j].user
    BY <1>1 DEF JobsAccounted
  <2>1. CASE \E r \in Requests : CarriesOut(r, j)
    BY <2>1 DEF CarriesOut
  <2>2. CASE faults > 0 /\ \E r \in Requests : job[r] = j /\ pc[r] \in {"failed", "crashed"}
    <3>1. faults' > 0
      BY <2>2, BoundsAreNaturals DEF JobsAccounted, AccountsTypeOK
    <3>2. PICK r \in Requests : job[r] = j /\ pc[r] \in {"failed", "crashed"}
      BY <2>2
    <3>3. pc'[r] \in {"failed", "crashed"}
      BY <3>2
    <3>4. QED
      BY <3>1, <3>2, <3>3
  <2>3. CASE ~AllSync /\ \E k \in 1..Len(jobs) : k # j /\ jobs[k].user = jobs[j].user
    BY <2>3
  <2>4. QED
    BY <2>1, <2>2, <2>3 DEF JobsAccounted
<1>9. QED
  BY <1>5, <1>6, <1>7, <1>8 DEF JobsInv

\* Requests of Avatars have no job.
LEMMA AvatarJobs ==
  ASSUME JobsAccounted, JobsInv, AccountsTypeOK', NEW r \in Requests, AvatarRequest(r)
  PROVE  JobsAccounted' /\ JobsInv'
<1> USE DEF JobsAccounted, AccountsTypeOK
<1>1. UNCHANGED <<jobs, job, user>> /\ faults' >= faults
  BY BoundsAreNaturals
     DEF AvatarRequest, Upload, Remove, Cleanup, UploadBegin, RemoveBegin, FindAuthorizedUser,
         UploadRejected, UploadStore, UploadStoreFails, UploadLink, UploadLinkFails,
         RemoveUnlink, RemoveUnlinkFails, RemoveObject, RemoveObjectAt, RecordTask,
         RecordTaskAt, RecordTaskFails, RecordTaskFailsAt, Fault, accountVars, CleanUpPrevious,
         UpdateAvatar
<1>2. \A u \in Users : photo'[u] = Gone => photo[u] = Gone
  BY ConstantsDistinct
     DEF AvatarRequest, Upload, Remove, Cleanup, UploadBegin, RemoveBegin, FindAuthorizedUser,
         UploadRejected, UploadStore, UploadStoreFails, UploadLink, UploadLinkFails,
         RemoveUnlink, RemoveUnlinkFails, RemoveObject, RemoveObjectAt, RecordTask,
         RecordTaskAt, RecordTaskFails, RecordTaskFailsAt, CleanUpPrevious,
         UpdateAvatar, dbVars
<1>3. \E next \in {"reading", "linking", "unlinking", "removing", "recording", "done",
                   "failed"} :
        /\ pc[r] \in {"idle", "reading", "linking", "unlinking", "removing", "recording"}
        /\ pc' = [pc EXCEPT ![r] = next]
  BY DEF AvatarRequest, Upload, Remove, Cleanup, UploadBegin, RemoveBegin, FindAuthorizedUser,
         UploadRejected, UploadStore, UploadStoreFails, UploadLink, UploadLinkFails,
         RemoveUnlink, RemoveUnlinkFails, RemoveObject, RemoveObjectAt, RecordTask,
         RecordTaskAt, RecordTaskFails, RecordTaskFailsAt, Answer, CleanUpPrevious, Goto
<1>4. \A q \in Requests : Aside(q)
  BY <1>3 DEF Aside, CarryingOut, Asking, Ended
<1> QED
  BY <1>1, <1>2, <1>4, JobsAside

\* Sweeps have none, and a crash stops whoever carries one out.
LEMMA BackgroundJobs ==
  ASSUME JobsAccounted, JobsInv, AccountsTypeOK', NEW i \in Instances, Background(i)
  PROVE  JobsAccounted' /\ JobsInv'
<1> USE DEF JobsAccounted, AccountsTypeOK
<1>1. UNCHANGED <<jobs, job, user, photo>>
  BY DEF Background, Sweep, SweepStart, SweepRemove, SweepDelete, SweepSave, SweepDeleteFails,
         SweepSaveFails, Crash, accountVars, dbVars, requestVars
<1>2. faults' >= faults
  BY BoundsAreNaturals
     DEF Background, Sweep, SweepStart, SweepRemove, SweepDelete, SweepSave, SweepDeleteFails,
         SweepSaveFails, Crash, Fault
<1>3. \A q \in Requests : Aside(q)
  <2>1. CASE Sweep(i)
    BY <2>1 DEF Sweep, SweepStart, SweepRemove, SweepDelete, SweepSave, SweepDeleteFails,
                SweepSaveFails, requestVars, Aside
  <2>2. CASE Crash(i)
    BY <2>2, BoundsAreNaturals DEF Crash, Fault, Aside
  <2>3. QED
    BY <2>1, <2>2 DEF Background
<1>4. QED
  BY <1>1, <1>2, <1>3, JobsAside

\* The statements of a deletion or an update that do not write a job or erase a row.
LEMMA OtherJobs ==
  ASSUME JobsAccounted, JobsInv, AccountsTypeOK', NEW r \in Requests,
         \/ DeleteBegin(r) \/ DeleteCheck(r) \/ DeleteAuthorize(r) \/ DeleteEnqueueFails(r)
         \/ HandleFindUser(r) /\ photo[user[r]] # Gone
         \/ HandleFails(r) \/ DeleteThrows(r) \/ DeletePurge(r) \/ DeleteCloseFails(r)
         \/ Update(r)
  PROVE  JobsAccounted' /\ JobsInv'
<1> USE DEF JobsAccounted, AccountsTypeOK
<1>1. UNCHANGED <<jobs, job, user>>
  BY DEF DeleteBegin, DeleteCheck, DeleteAuthorize, DeleteEnqueueFails, HandleFindUser,
         HandleFails, DeleteThrows, DeletePurge, RemoveObjectAt, RecordTaskAt,
         RecordTaskFailsAt, DeleteCloseFails, Update, UpdateBegin, UpdateRejected, UpdateSave,
         KeepAvatars, accountVars
<1>2. faults' >= faults
  BY BoundsAreNaturals
     DEF DeleteBegin, DeleteCheck, DeleteAuthorize, DeleteEnqueueFails, HandleFindUser,
         HandleFails, DeleteThrows, DeletePurge, RemoveObjectAt, RecordTaskAt,
         RecordTaskFailsAt, DeleteCloseFails, Update, UpdateBegin, UpdateRejected, UpdateSave,
         Fault
<1>3. \A u \in Users : photo'[u] = Gone => photo[u] = Gone
  <2>1. CASE UpdateSave(r)
    BY <2>1, ConstantsDistinct DEF UpdateSave, Paths
  <2>2. CASE ~UpdateSave(r)
    BY <2>2 DEF DeleteBegin, DeleteCheck, DeleteAuthorize, DeleteEnqueueFails, HandleFindUser,
         HandleFails, DeleteThrows, DeletePurge, RemoveObjectAt, RecordTaskAt,
         RecordTaskFailsAt, DeleteCloseFails, Update, UpdateBegin, UpdateRejected, dbVars
  <2>3. QED
    BY <2>1, <2>2
<1>4. \A q \in Requests : Aside(q)
  <2> USE DEF Goto, Aside, CarryingOut, Asking, Ended
  <2>1. CASE DeleteBegin(r)
    BY <2>1 DEF DeleteBegin, Photo
  <2>2. CASE DeleteCheck(r) \/ DeleteAuthorize(r)
    <3>1. /\ pc[r] \in {"checking", "authorizing"}
          /\ \E next \in {"failed", "authorizing", "enqueuing", "done"} :
               pc' = [pc EXCEPT ![r] = next]
      BY <2>2 DEF DeleteCheck, DeleteAuthorize
    <3>2. QED
      BY <3>1
  <2>3. CASE DeleteEnqueueFails(r) \/ HandleFails(r) \/ DeleteCloseFails(r)
    <3>1. faults' > 0
      BY <2>3, BoundsAreNaturals DEF DeleteEnqueueFails, HandleFails, DeleteCloseFails, Fault
    <3>2. QED
      BY <2>3, <3>1 DEF DeleteEnqueueFails, HandleFails, DeleteCloseFails
  <2>4. CASE HandleFindUser(r) /\ photo[user[r]] # Gone
    BY <2>4 DEF HandleFindUser, Photo
  <2>5. CASE DeleteThrows(r)
    BY <2>5 DEF DeleteThrows
  <2>6. CASE DeletePurge(r)
    BY <2>6 DEF DeletePurge, RemoveObjectAt, RecordTaskAt, RecordTaskFailsAt
  <2>7. CASE Update(r)
    BY <2>7 DEF Update, UpdateBegin, UpdateRejected, UpdateSave
  <2>8. QED
    BY <2>1, <2>2, <2>3, <2>4, <2>5, <2>6, <2>7
<1>5. QED
  BY <1>1, <1>2, <1>3, <1>4, JobsAside

\* Saving a job: it stays unfinished only in the hands of the one that saved it.
LEMMA SavedJobs ==
  ASSUME JobsAccounted, JobsInv, AccountsTypeOK', NEW r \in Requests,
         DeleteStart(r) \/ DeleteClose(r)
  PROVE  JobsAccounted' /\ JobsInv'
<1> DEFINE status == IF pc[r] = "starting" THEN "in_progress"
                     ELSE IF pc[r] = "closing" THEN "done" ELSE "failed"
<1>1. job[r] \in JobsOf(user[r]) /\ pc[r] \in CarryingOut
  BY DEF DeleteStart, DeleteClose, JobsInv, JobsOpened, CarryingOut
<1>2. /\ SaveJob(r, status)
      /\ UNCHANGED <<job, user, photo, faults>>
      /\ \/ pc[r] = "starting" /\ pc' = [pc EXCEPT ![r] = "erasing"]
         \/ /\ pc[r] \in {"closing", "aborting"}
            /\ \E next \in {"done", "failed"} : pc' = [pc EXCEPT ![r] = next]
  BY DEF DeleteStart, DeleteClose, KeepAvatars, Goto
<1> HIDE DEF status
<1>3. status \in Active \cup {"done", "failed"} /\ (status \in Active <=> pc[r] = "starting")
  BY <1>2 DEF status, Active
<1>4. /\ Len(jobs') = Len(jobs)
      /\ \A j \in 1..Len(jobs) :
           /\ jobs'[j].user = jobs[j].user
           /\ jobs'[j].mode = jobs[j].mode
           /\ jobs'[j].status = IF j = job[r] THEN status ELSE jobs[j].status
  BY <1>1, <1>2, <1>3, JobSaved DEF JobsAccounted
<1>5. /\ \A u : JobsOf(u)' = JobsOf(u) /\ TwoJobs(u)' = TwoJobs(u)
      /\ AllSync' = AllSync
  BY <1>4 DEF JobsOf, TwoJobs, AllSync
<1>6. \A q \in Requests :
        /\ pc'[q] \in CarryingOut => pc[q] \in CarryingOut
        /\ pc'[q] \in Asking \cup {"handling", "handling_user"} => pc'[q] = pc[q]
        /\ q # r => pc'[q] = pc[q]
        /\ pc'[r] \in CarryingOut <=> pc[r] = "starting"
  BY <1>2 DEF CarryingOut, Asking, JobsAccounted, AccountsTypeOK
<1>7. JobsOpened'
  BY <1>2, <1>5, <1>6 DEF JobsInv, JobsOpened
<1>8. ErasedByAnother'
  BY <1>2, <1>5, <1>6 DEF JobsInv, ErasedByAnother, Asking
<1>9. OwnJobs'
  <2>1. \A q \in Requests : pc'[q] \in {"handling", "handling_user"} => ~AllSync
    BY <1>6 DEF JobsInv, OwnJobs
  <2>2. ASSUME AllSync, NEW p \in Requests, pc'[p] \in CarryingOut
        PROVE  jobs'[job[p]].status \in Active
    <3>1. pc[p] \in CarryingOut /\ job[p] \in 1..Len(jobs)
      BY <1>6, <2>2 DEF JobsInv, JobsOpened, JobsOf
    <3>2. CASE p = r
      BY <1>3, <1>4, <1>6, <2>2, <3>1, <3>2
    <3>3. CASE p # r
      <4>1. job[p] # job[r] /\ jobs[job[p]].status \in Active
        BY <1>1, <2>2, <3>1, <3>3 DEF JobsInv, OwnJobs
      <4>2. QED
        BY <1>4, <3>1, <4>1
    <3>4. QED
      BY <3>2, <3>3
  <2>3. ASSUME AllSync, NEW p \in Requests, NEW q \in Requests, p # q,
               pc'[p] \in CarryingOut, pc'[q] \in CarryingOut
        PROVE  job[p] # job[q]
    BY <1>6, <2>3 DEF JobsInv, OwnJobs
  <2>4. QED
    BY <1>2, <1>5, <2>1, <2>2, <2>3 DEF OwnJobs
<1>10. JobsAccounted'
  <2> SUFFICES ASSUME NEW j \in 1..Len(jobs), jobs'[j].status \in Active
               PROVE  \/ \E q \in Requests : CarriesOut(q, j)'
                      \/ /\ faults > 0
                         /\ \E q \in Requests : job[q] = j /\ pc'[q] \in {"failed", "crashed"}
                      \/ ~AllSync /\ \E k \in 1..Len(jobs) : k # j /\ jobs[k].user = jobs[j].user
    BY <1>2, <1>4, <1>5 DEF JobsAccounted
  <2>1. CASE j = job[r]
    BY <1>2, <1>3, <1>4, <1>6, <2>1 DEF CarriesOut
  <2>2. CASE j # job[r]
    <3>1. jobs[j].status \in Active
      BY <1>4, <2>2
    <3>2. \A q \in Requests : job[q] = j => pc'[q] = pc[q]
      BY <1>6, <2>2
    <3>3. QED
      BY <1>2, <3>1, <3>2 DEF JobsAccounted, CarriesOut
  <2>3. QED
    BY <2>1, <2>2
<1>11. QED
  BY <1>7, <1>8, <1>9, <1>10 DEF JobsInv

\* Erasing the row: another deletion of the account has its own job.
LEMMA ErasedJobs ==
  ASSUME JobsAccounted, JobsInv, AccountsTypeOK', NEW r \in Requests, DeleteErase(r)
  PROVE  JobsAccounted' /\ JobsInv'
<1>1. /\ UNCHANGED <<jobs, job, user, faults>>
      /\ pc[r] = "erasing"
      /\ photo' = [photo EXCEPT ![user[r]] = Gone]
      /\ \E next \in {"closing", "purging"} : pc' = [pc EXCEPT ![r] = next]
  BY DEF DeleteErase, KeepAvatars, accountVars, Goto
<1>2. /\ \A u : JobsOf(u)' = JobsOf(u) /\ TwoJobs(u)' = TwoJobs(u)
      /\ AllSync' = AllSync
  BY <1>1 DEF JobsOf, TwoJobs, AllSync
<1>3. \A q \in Requests :
        /\ pc'[q] \in CarryingOut <=> pc[q] \in CarryingOut
        /\ q # r => pc'[q] = pc[q]
        /\ pc'[r] \notin Asking \cup Ended \cup {"handling", "handling_user"}
        /\ pc[r] \notin Ended
  BY <1>1 DEF CarryingOut, Asking, Ended, JobsAccounted, AccountsTypeOK
<1>4. job[r] \in JobsOf(user[r])
  BY <1>1 DEF JobsInv, JobsOpened, CarryingOut
<1>5. JobsOpened'
  BY <1>1, <1>2, <1>3 DEF JobsInv, JobsOpened
<1>6. ErasedByAnother'
  <2> SUFFICES ASSUME NEW q \in Requests, photo'[user[q]] = Gone
               PROVE  /\ pc'[q] \in Asking => JobsOf(user[q]) # {}
                      /\ pc'[q] \in {"handling", "handling_user"} => TwoJobs(user[q])
    BY <1>1, <1>2 DEF ErasedByAnother, Asking
  <2>1. CASE q = r
    BY <1>3, <2>1
  <2>2. CASE q # r /\ user[q] = user[r]
    <3>1. pc'[q] \in {"handling", "handling_user"} => TwoJobs(user[q])
      BY <1>1, <1>3, <2>2 DEF JobsInv, JobsOpened, CarryingOut
    <3>2. QED
      BY <1>4, <2>2, <3>1
  <2>3. CASE q # r /\ user[q] # user[r]
    <3>1. photo[user[q]] = Gone /\ pc'[q] = pc[q]
      BY <1>1, <1>3, <2>3 DEF JobsAccounted, AccountsTypeOK
    <3>2. QED
      BY <3>1 DEF JobsInv, ErasedByAnother, Asking
  <2>4. QED
    BY <2>1, <2>2, <2>3
<1>7. OwnJobs'
  BY <1>1, <1>2, <1>3 DEF JobsInv, OwnJobs
<1>8. JobsAccounted'
  BY <1>1, <1>2, <1>3 DEF JobsAccounted, CarriesOut, Ended
<1>9. QED
  BY <1>5, <1>6, <1>7, <1>8 DEF JobsInv

\* A handler that finds no user leaves its job: another deletion has opened a job
\* for the account, and erased it.
LEMMA LeftJobs ==
  ASSUME JobsAccounted, JobsInv, AccountsTypeOK', NEW r \in Requests, HandleFindUser(r),
         photo[user[r]] = Gone
  PROVE  JobsAccounted' /\ JobsInv'
<1>1. /\ UNCHANGED <<jobs, job, user, faults, photo>>
      /\ pc[r] = "handling_user"
      /\ pc' = [pc EXCEPT ![r] = "done"]
  BY DEF HandleFindUser, Photo, KeepAvatars, Goto
<1>2. /\ \A u : JobsOf(u)' = JobsOf(u) /\ TwoJobs(u)' = TwoJobs(u)
      /\ AllSync' = AllSync
  BY <1>1 DEF JobsOf, TwoJobs, AllSync
<1>3. \A q \in Requests :
        /\ pc'[q] \in CarryingOut \cup Asking => pc'[q] = pc[q]
        /\ q # r => pc'[q] = pc[q]
  BY <1>1 DEF CarryingOut, Asking, JobsAccounted, AccountsTypeOK
<1>4. ~AllSync /\ TwoJobs(user[r]) /\ job[r] \in JobsOf(user[r])
  BY <1>1 DEF JobsInv, OwnJobs, ErasedByAnother, JobsOpened, CarryingOut
<1>5. JobsOpened'
  BY <1>1, <1>2, <1>3 DEF JobsInv, JobsOpened
<1>6. ErasedByAnother'
  BY <1>1, <1>2, <1>3 DEF JobsInv, ErasedByAnother, Asking, CarryingOut
<1>7. OwnJobs'
  BY <1>2, <1>4 DEF OwnJobs
<1>8. JobsAccounted'
  <2> SUFFICES ASSUME NEW j \in 1..Len(jobs), jobs[j].status \in Active
               PROVE  \/ \E q \in Requests : CarriesOut(q, j)'
                      \/ /\ faults > 0
                         /\ \E q \in Requests : job[q] = j /\ pc'[q] \in {"failed", "crashed"}
                      \/ ~AllSync /\ \E k \in 1..Len(jobs) : k # j /\ jobs[k].user = jobs[j].user
    BY <1>1, <1>2 DEF JobsAccounted
  <2>1. CASE j = job[r]
    <3>1. PICK k \in JobsOf(user[r]) : k # j
      BY <1>4, <2>1 DEF TwoJobs
    <3>2. jobs[k].user = jobs[j].user /\ k \in 1..Len(jobs)
      BY <1>4, <2>1 DEF JobsOf
    <3>3. QED
      BY <1>4, <3>1, <3>2
  <2>2. CASE j # job[r]
    BY <1>1, <1>3, <2>2 DEF JobsAccounted, CarriesOut
  <2>3. QED
    BY <2>1, <2>2
<1>9. QED
  BY <1>5, <1>6, <1>7, <1>8 DEF JobsInv

\* A handler takes the newest job of its account: if that is not the one it opened,
\* there are two, and deletions that are not synchronous.
LEMMA TakenJobs ==
  ASSUME JobsAccounted, JobsInv, AccountsTypeOK', NEW r \in Requests, HandleFindJob(r)
  PROVE  JobsAccounted' /\ JobsInv'
<1> DEFINE latest == LatestJob(user[r])
<1>1. /\ UNCHANGED <<jobs, user, faults, photo>>
      /\ pc[r] = "handling"
      /\ pc' = [pc EXCEPT ![r] = "handling_user"]
      /\ job' = [job EXCEPT ![r] = latest]
  BY DEF HandleFindJob, KeepAvatars, Goto
<1>2. /\ \A u : JobsOf(u)' = JobsOf(u) /\ TwoJobs(u)' = TwoJobs(u)
      /\ AllSync' = AllSync
  BY <1>1 DEF JobsOf, TwoJobs, AllSync
<1>3. \A q \in Requests :
        /\ pc'[q] \in CarryingOut <=> pc[q] \in CarryingOut
        /\ q # r => pc'[q] = pc[q] /\ job'[q] = job[q]
        /\ pc'[r] = "handling_user" /\ job'[r] = latest
  BY <1>1 DEF CarryingOut, JobsAccounted, AccountsTypeOK
<1>4. ~AllSync /\ job[r] \in JobsOf(user[r]) /\ user[r] \in Users
  BY <1>1 DEF JobsInv, OwnJobs, JobsOpened, CarryingOut, JobsAccounted, AccountsTypeOK
<1>5. latest \in JobsOf(user[r])
  BY <1>4, LatestIsOne DEF JobsInv
<1> HIDE DEF latest
<1>6. JobsOpened'
  BY <1>1, <1>2, <1>3, <1>5 DEF JobsInv, JobsOpened
<1>7. ErasedByAnother'
  BY <1>1, <1>2, <1>3 DEF JobsInv, ErasedByAnother
<1>8. OwnJobs'
  BY <1>2, <1>4 DEF OwnJobs
<1>9. JobsAccounted'
  <2> SUFFICES ASSUME NEW j \in 1..Len(jobs), jobs[j].status \in Active
               PROVE  \/ \E q \in Requests : CarriesOut(q, j)'
                      \/ /\ faults > 0
                         /\ \E q \in Requests : job'[q] = j /\ pc'[q] \in {"failed", "crashed"}
                      \/ ~AllSync /\ \E k \in 1..Len(jobs) : k # j /\ jobs[k].user = jobs[j].user
    BY <1>1, <1>2 DEF JobsAccounted
  <2>1. CASE j = job[r] /\ j # latest
    BY <1>4, <1>5, <2>1 DEF JobsOf
  <2>2. CASE j = latest
    BY <1>3, <2>2 DEF CarriesOut, CarryingOut
  <2>3. CASE j # job[r] /\ j # latest
    <3>1. \A q \in Requests : job[q] = j => job'[q] = j /\ pc'[q] = pc[q]
      BY <1>3, <2>3
    <3>2. QED
      BY <3>1 DEF JobsAccounted, CarriesOut
  <2>4. QED
    BY <2>1, <2>2, <2>3
<1>10. QED
  BY <1>6, <1>7, <1>8, <1>9 DEF JobsInv

\* A job that is opened is carried out by the deletion that opened it.
LEMMA OpenedJobs ==
  ASSUME JobsAccounted, JobsInv, AccountsTypeOK', NEW r \in Requests, DeleteEnqueue(r)
  PROVE  JobsAccounted' /\ JobsInv'
<1> DEFINE n == Len(jobs')
<1>1. PICK mode \in Modes :
        /\ jobs' = Append(jobs, [user |-> user[r], mode |-> mode,
                                 status |-> IF mode = "async" THEN "pending"
                                                              ELSE "in_progress"])
        /\ pc' = [pc EXCEPT ![r] = IF mode = "async" THEN "handling" ELSE "starting"]
  BY DEF DeleteEnqueue, Goto
<1>2. /\ UNCHANGED <<user, faults, photo>>
      /\ pc[r] = "enqueuing"
      /\ job' = [job EXCEPT ![r] = n]
  BY DEF DeleteEnqueue, KeepAvatars
<1>3. /\ Len(jobs) \in Nat
      /\ n = Len(jobs) + 1
      /\ \A j \in 1..Len(jobs) : jobs'[j] = jobs[j]
      /\ jobs'[n].user = user[r] /\ jobs'[n].mode = mode /\ jobs'[n].status \in Active
  BY <1>1, JobOpened DEF JobsAccounted, Active
<1> HIDE DEF n
<1>4. 1..n = 1..Len(jobs) \cup {n} /\ n \notin 1..Len(jobs) /\ \A j \in 1..Len(jobs) : j <= n
  BY <1>3
<1>5. user[r] \in Users
  BY DEF JobsAccounted, AccountsTypeOK
<1>6. \A u : JobsOf(u)' = IF u = user[r] THEN JobsOf(u) \cup {n} ELSE JobsOf(u)
  BY <1>3, <1>4 DEF JobsOf, n
<1>7. AllSync' <=> AllSync /\ mode = "sync"
  BY <1>3, <1>4 DEF AllSync, n
<1>8. \A q \in Requests :
        /\ q # r => pc'[q] = pc[q] /\ job'[q] = job[q]
        /\ job'[r] = n
        /\ pc'[r] = (IF mode = "async" THEN "handling" ELSE "starting")
        /\ pc'[r] \in CarryingOut /\ pc[r] \notin CarryingOut \cup Ended
  BY <1>1, <1>2 DEF CarryingOut, Ended, JobsAccounted, AccountsTypeOK
<1>9. \A u : /\ JobsOf(u) \subseteq JobsOf(u)' /\ n \notin JobsOf(u)
             /\ JobsOf(u) \subseteq 1..Len(jobs)
             /\ TwoJobs(u) => TwoJobs(u)'
             /\ u = user[r] /\ JobsOf(u) # {} => TwoJobs(u)'
  <2>1. \A u : JobsOf(u) \subseteq 1..Len(jobs)
    BY DEF JobsOf
  <2>2. QED
    BY <1>4, <1>6, <2>1 DEF TwoJobs
<1>10. JobsOpened'
  <2>1. \A q \in Requests : pc'[q] \in CarryingOut => job'[q] \in JobsOf(user[q])'
    BY <1>2, <1>6, <1>8 DEF JobsInv, JobsOpened
  <2>2. ASSUME NEW u \in Users, JobsOf(u)' # {}
        PROVE  \E j \in JobsOf(u)' : \A k \in JobsOf(u)' : k <= j
    <3>1. CASE u = user[r]
      BY <1>3, <1>4, <1>6, <1>9, <3>1
    <3>2. CASE u # user[r]
      BY <1>6, <2>2, <3>2 DEF JobsInv, JobsOpened
    <3>3. QED
      BY <3>1, <3>2
  <2>3. ASSUME NEW p \in Requests, NEW q \in Requests, p # q, user[p] = user[q],
               pc'[p] \in CarryingOut, pc'[q] \in CarryingOut
        PROVE  TwoJobs(user[p])'
    <3>1. CASE p # r /\ q # r
      BY <1>2, <1>8, <1>9, <2>3, <3>1 DEF JobsInv, JobsOpened
    <3>2. CASE p = r \/ q = r
      <4>1. PICK o \in {p, q} : o # r
        BY <2>3, <3>2
      <4>2. job[o] \in JobsOf(user[r])
        BY <1>8, <2>3, <3>2, <4>1 DEF JobsInv, JobsOpened
      <4>3. QED
        BY <1>2, <1>9, <2>3, <3>2, <4>2
    <3>3. QED
      BY <3>1, <3>2
  <2>4. QED
    BY <1>2, <2>1, <2>2, <2>3 DEF JobsOpened
<1>11. ErasedByAnother'
  <2> SUFFICES ASSUME NEW q \in Requests, photo[user[q]] = Gone
               PROVE  /\ pc'[q] \in {"checking", "authorizing", "enqueuing"} =>
                           JobsOf(user[q])' # {}
                      /\ pc'[q] \in {"handling", "handling_user"} => TwoJobs(user[q])'
    BY <1>2 DEF ErasedByAnother
  <2>1. CASE q = r
    <3>1. JobsOf(user[r]) # {}
      BY <1>2, <2>1 DEF JobsInv, ErasedByAnother
    <3>2. QED
      BY <1>2, <1>6, <1>9, <2>1, <3>1
  <2>2. CASE q # r
    BY <1>2, <1>8, <1>9, <2>2 DEF JobsInv, ErasedByAnother
  <2>3. QED
    BY <2>1, <2>2
<1>12. OwnJobs'
  <2>1. ASSUME NEW q \in Requests, pc'[q] \in {"handling", "handling_user"}
        PROVE  ~AllSync'
    BY <1>7, <1>8, <2>1 DEF JobsInv, OwnJobs
  <2>2. ASSUME AllSync', NEW p \in Requests, NEW q \in Requests, pc'[p] \in CarryingOut
        PROVE  /\ jobs'[job'[p]].status \in Active
               /\ p # q /\ pc'[q] \in CarryingOut => job'[p] # job'[q]
    <3>1. \A o \in Requests : o # r /\ pc'[o] \in CarryingOut =>
            job'[o] = job[o] /\ job[o] \in 1..Len(jobs)
      BY <1>8 DEF JobsInv, JobsOpened, JobsOf
    <3>2. CASE p = r
      BY <1>3, <1>4, <1>8, <3>1, <3>2
    <3>3. CASE p # r
      <4>1. jobs[job[p]].status \in Active
        BY <1>7, <1>8, <2>2, <3>3 DEF JobsInv, OwnJobs
      <4>2. jobs'[job'[p]].status \in Active
        BY <1>3, <2>2, <3>1, <3>3, <4>1
      <4>3. CASE q = r
        BY <1>4, <1>8, <2>2, <3>1, <3>3, <4>2, <4>3
      <4>4. CASE q # r
        BY <1>7, <1>8, <2>2, <3>3, <4>2, <4>4 DEF JobsInv, OwnJobs
      <4>5. QED
        BY <4>3, <4>4
    <3>4. QED
      BY <3>2, <3>3
  <2>3. QED
    BY <2>1, <2>2 DEF OwnJobs
<1>13. JobsAccounted'
  <2> SUFFICES ASSUME NEW j \in 1..n, jobs'[j].status \in Active
               PROVE  \/ \E q \in Requests : CarriesOut(q, j)'
                      \/ /\ faults > 0
                         /\ \E q \in Requests : job'[q] = j /\ pc'[q] \in {"failed", "crashed"}
                      \/ /\ ~AllSync'
                         /\ \E k \in 1..n : k # j /\ jobs'[k].user = jobs'[j].user
    BY <1>2 DEF JobsAccounted, n
  <2>1. CASE j = n
    BY <1>8, <2>1 DEF CarriesOut
  <2>2. CASE j # n
    <3>1. j \in 1..Len(jobs) /\ jobs[j].status \in Active
      BY <1>3, <1>4, <2>2
    <3>2. CASE \E q \in Requests : CarriesOut(q, j)
      BY <1>8, <3>2 DEF CarriesOut
    <3>3. CASE faults > 0 /\ \E q \in Requests : job[q] = j /\ pc[q] \in {"failed", "crashed"}
      BY <1>8, <3>3 DEF Ended
    <3>4. CASE ~AllSync /\ \E k \in 1..Len(jobs) : k # j /\ jobs[k].user = jobs[j].user
      BY <1>3, <1>4, <1>7, <3>1, <3>4
    <3>5. QED
      BY <3>1, <3>2, <3>3, <3>4 DEF JobsAccounted
  <2>3. QED
    BY <2>1, <2>2
<1>14. QED
  BY <1>10, <1>11, <1>12, <1>13 DEF JobsInv

\* Only deletions write jobs, at three statements.
LEMMA JobsWritten ==
  ASSUME [AccountsNext]_allVars
  PROVE  \/ UNCHANGED jobs
         \/ \E r \in Requests : DeleteEnqueue(r) \/ DeleteStart(r) \/ DeleteClose(r)
<1>1. ASSUME NEW r \in Requests, Delete(r)
      PROVE  UNCHANGED jobs \/ DeleteEnqueue(r) \/ DeleteStart(r) \/ DeleteClose(r)
  BY <1>1 DEF Delete, DeleteBegin, DeleteCheck, DeleteAuthorize, DeleteEnqueueFails,
              HandleFindJob, HandleFindUser, HandleFails, DeleteErase, DeleteThrows,
              DeletePurge, DeleteCloseFails, accountVars
<1>2. ASSUME NEW r \in Requests, Update(r) PROVE UNCHANGED jobs
  BY <1>2 DEF Update, UpdateBegin, UpdateRejected, UpdateSave, accountVars
<1>3. QED
  BY <1>1, <1>2
     DEF AccountsNext, AccountRequest, AvatarRequest, Background, accountVars, allVars

\* No statement but that of a profile update makes a row where there is none.
LEMMA RowsReturn ==
  ASSUME AccountsTypeOK, [AccountsNext]_allVars, NEW u \in Users, photo[u] = Gone,
         photo'[u] # Gone
  PROVE  \E r \in Requests : user[r] = u /\ UpdateSave(r)
<1> USE DEF AccountsTypeOK, dbVars
<1>1. ASSUME NEW r \in Requests, AvatarRequest(r) PROVE FALSE
  BY <1>1 DEF AvatarRequest, Upload, Remove, Cleanup, UploadBegin, RemoveBegin,
     FindAuthorizedUser, UploadRejected, UploadStore, UploadStoreFails, UploadLink,
     UploadLinkFails, RemoveUnlink, RemoveUnlinkFails, RemoveObject, RemoveObjectAt,
     RecordTask, RecordTaskAt, RecordTaskFails, RecordTaskFailsAt, CleanUpPrevious,
     UpdateAvatar
<1>2. ASSUME NEW i \in Instances, Background(i) PROVE FALSE
  BY <1>2 DEF Background, Sweep, SweepStart, SweepRemove, SweepDelete, SweepSave,
     SweepDeleteFails, SweepSaveFails, Crash
<1>3. ASSUME NEW r \in Requests, Delete(r) PROVE FALSE
  BY <1>3 DEF Delete, DeleteBegin, DeleteCheck, DeleteAuthorize, DeleteEnqueue,
     DeleteEnqueueFails, HandleFindJob, HandleFindUser, HandleFails, DeleteStart, DeleteErase,
     DeleteThrows, DeletePurge, RemoveObjectAt, RecordTaskAt, RecordTaskFailsAt, DeleteClose,
     DeleteCloseFails
<1>4. ASSUME NEW r \in Requests, Update(r) PROVE user[r] = u /\ UpdateSave(r)
  BY <1>4 DEF Update, UpdateBegin, UpdateRejected, UpdateSave
<1>5. QED
  BY <1>1, <1>2, <1>3, <1>4 DEF AccountsNext, AccountRequest, allVars, vars

\* A user who is not set back by the step was not set back before, and stays erased.
LEMMA ErasedStays ==
  ASSUME AccountsTypeOK, [AccountsNext]_allVars, NEW u \in Users, u \notin stale'
  PROVE  u \notin stale /\ (photo[u] = Gone => photo'[u] = Gone)
<1>1. stale \subseteq stale'
  <2>1. ASSUME NEW r \in Requests, Delete(r) PROVE stale' = stale
    BY <2>1 DEF Delete, DeleteBegin, DeleteCheck, DeleteAuthorize, DeleteEnqueue,
       DeleteEnqueueFails, HandleFindJob, HandleFindUser, HandleFails, DeleteStart,
       DeleteErase, DeleteThrows, DeletePurge, DeleteClose, DeleteCloseFails, accountVars
  <2>2. ASSUME NEW r \in Requests, Update(r) PROVE stale \subseteq stale'
    BY <2>2 DEF Update, UpdateBegin, UpdateRejected, UpdateSave, accountVars
  <2>3. QED
    BY <2>1, <2>2
       DEF AccountsNext, AccountRequest, AvatarRequest, Background, accountVars, allVars
<1>2. ASSUME photo[u] = Gone, photo'[u] # Gone PROVE FALSE
  <2>1. PICK r \in Requests : user[r] = u /\ UpdateSave(r)
    BY <1>2, RowsReturn
  <2>2. photo[user[r]] # seen[r]
    BY <1>2, <2>1, ConstantsDistinct DEF AccountsTypeOK, Paths
  <2>3. QED
    BY <2>1, <2>2 DEF UpdateSave, Photo
<1>3. QED
  BY <1>1, <1>2

\* The first half of DoneMeansErased survives every step.
LEMMA DoneStep ==
  ASSUME AccountsTypeOK, AccountsTypeOK', AvatarsInv, JobsInv, DoneMeansErased,
         [AccountsNext]_allVars,
         NEW j \in 1..Len(jobs'), jobs'[j].status = "done", jobs'[j].user \notin stale'
  PROVE  photo'[jobs'[j].user] = Gone
<1>1. \A k \in 1..Len(jobs) : jobs[k].user \in Users
  BY ElementOfSeq, JobFields DEF AccountsTypeOK
<1>2. ASSUME j \in 1..Len(jobs), jobs'[j].user = jobs[j].user, jobs[j].status = "done"
      PROVE  photo'[jobs'[j].user] = Gone
  <2>1. jobs[j].user \in Users
    BY <1>1, <1>2
  <2>2. jobs[j].user \notin stale /\ (photo[jobs[j].user] = Gone => photo'[jobs[j].user] = Gone)
    BY <1>2, <2>1, ErasedStays
  <2>3. QED
    BY <1>2, <2>2 DEF DoneMeansErased
<1>3. CASE UNCHANGED jobs
  BY <1>2, <1>3
<1>4. ASSUME NEW r \in Requests, DeleteEnqueue(r) PROVE photo'[jobs'[j].user] = Gone
  <2>1. /\ Len(jobs) \in Nat /\ Len(jobs') = Len(jobs) + 1
        /\ \A k \in 1..Len(jobs) : jobs'[k] = jobs[k]
        /\ jobs'[Len(jobs')].status \in Active
    BY <1>4, JobOpened DEF DeleteEnqueue, Active
  <2>2. j # Len(jobs')
    BY <2>1 DEF Active
  <2>3. j \in 1..Len(jobs)
    BY <2>1, <2>2
  <2>4. QED
    BY <1>2, <2>1, <2>3
<1>5. ASSUME NEW r \in Requests, DeleteStart(r) \/ DeleteClose(r)
      PROVE  photo'[jobs'[j].user] = Gone
  <2>1. job[r] \in JobsOf(user[r])
    BY <1>5 DEF DeleteStart, DeleteClose, JobsInv, JobsOpened, CarryingOut
  <2>2. PICK s \in Active \cup {"done", "failed"} :
          SaveJob(r, s) /\ (s = "done" => pc[r] = "closing")
    BY <1>5 DEF DeleteStart, DeleteClose, Active
  <2>3. /\ Len(jobs') = Len(jobs)
        /\ \A k \in 1..Len(jobs) :
             /\ jobs'[k].user = jobs[k].user
             /\ jobs'[k].status = IF k = job[r] THEN s ELSE jobs[k].status
    BY <2>1, <2>2, JobSaved
  <2>4. CASE j = job[r]
    <3>1. jobs'[j].user = user[r] /\ pc[r] = "closing"
      BY <2>1, <2>2, <2>3, <2>4 DEF JobsOf
    <3>2. user[r] \notin stale /\ photo' = photo /\ user[r] \in Users
      BY <1>5, <3>1, ErasedStays DEF DeleteStart, DeleteClose, AccountsTypeOK
    <3>3. QED
      BY <3>1, <3>2 DEF AvatarsInv, PurgesFollowErasure
  <2>5. CASE j # job[r]
    BY <1>2, <2>3, <2>5
  <2>6. QED
    BY <2>4, <2>5
<1>6. QED
  BY <1>3, <1>4, <1>5, JobsWritten

\* The second half: what a deletion that is about to report has read is gone or has
\* a task. That lasts as long as nothing but a fresh key is stored and a task goes
\* only with its object.
SettledFor(r) == seen[r] \in stored => \E t \in tasks : t.path = seen[r]

LEMMA SettledStays ==
  ASSUME AccountsTypeOK, AccountsTypeOK', AvatarsInv,
         \A p \in stored' \ stored : pc[p] \in Fresh,
         \A t \in tasks : t.path \in stored' => \E s \in tasks' : s.path = t.path,
         NEW r \in Requests, seen'[r] = seen[r], SettledFor(r)
  PROVE  SettledFor(r)'
<1> SUFFICES ASSUME seen[r] \in stored' PROVE \E s \in tasks' : s.path = seen[r]
  BY DEF SettledFor
<1>1. seen[r] \in Paths
  BY ConstantsDistinct DEF AccountsTypeOK, Paths
<1>2. seen[r] \in stored
  BY <1>1 DEF AvatarsInv, KeysLinked, LinkedTo
<1>3. PICK t \in tasks : t.path = seen[r]
  BY <1>2 DEF SettledFor
<1>4. QED
  BY <1>3

\* Whatever else runs, objects that are unlinked come back never, and tasks stay
\* until their object is gone.
LEMMA TasksStay ==
  ASSUME AccountsTypeOK, AccountsTypeOK', AvatarsInv, [AccountsNext]_allVars
  PROVE  /\ \A p \in stored' \ stored : pc[p] \in Fresh
         /\ \A t \in tasks : t.path \in stored' => \E s \in tasks' : s.path = t.path
<1> DEFINE Goal == /\ \A p \in stored' \ stored : pc[p] \in Fresh
                   /\ \A t \in tasks : t.path \in stored' => \E s \in tasks' : s.path = t.path
<1>1. ASSUME NEW r \in Requests, AvatarRequest(r) PROVE Goal
  BY <1>1 DEF AvatarRequest, Upload, Remove, Cleanup, UploadBegin, RemoveBegin,
     FindAuthorizedUser, UploadRejected, UploadStore, UploadStoreFails, UploadLink,
     UploadLinkFails, RemoveUnlink, RemoveUnlinkFails, RemoveObject, RemoveObjectAt,
     RecordTask, RecordTaskAt, RecordTaskFails, RecordTaskFailsAt, StorageRemove, dbVars, Fresh
<1>2. ASSUME NEW r \in Requests, Delete(r) PROVE Goal
  BY <1>2 DEF Delete, DeleteBegin, DeleteCheck, DeleteAuthorize, DeleteEnqueue,
     DeleteEnqueueFails, HandleFindJob, HandleFindUser, HandleFails, DeleteStart, DeleteErase,
     DeleteThrows, DeletePurge, RemoveObjectAt, RecordTaskAt, RecordTaskFailsAt, DeleteClose,
     DeleteCloseFails, StorageRemove, dbVars, KeepAvatars
<1>3. ASSUME NEW r \in Requests, Update(r) PROVE Goal
  BY <1>3 DEF Update, UpdateBegin, UpdateRejected, UpdateSave, KeepAvatars
<1>4. ASSUME NEW i \in Instances, Sweep(i) PROVE Goal
  <2>1. CASE SweepStart(i) \/ SweepDeleteFails(i) \/ SweepSaveFails(i)
    BY <2>1 DEF SweepStart, SweepDeleteFails, SweepSaveFails, dbVars
  <2>2. ASSUME NEW t \in batch[i], SweepRemove(i, t) PROVE Goal
    BY <2>2 DEF SweepRemove, StorageRemove, dbVars
  <2>3. ASSUME NEW t \in batch[i], SweepDelete(i, t) PROVE Goal
    <3>1. t.path \notin stored /\ \A s \in tasks : s.id = t.id => s.path = t.path
      BY <2>3 DEF SweepDelete, AvatarsInv, DeleteAfterRemove, TaskIds
    <3>2. QED
      BY <2>3, <3>1 DEF SweepDelete, Others
  <2>4. ASSUME NEW t \in batch[i], SweepSave(i, t) PROVE Goal
    <3>1. t \in Task /\ t.attempts < MaxAttempts
      BY DEF AvatarsInv, CopiesRetryable, AccountsTypeOK
    <3>2. PICK saved : saved.path = t.path /\ tasks' = Others(t.id) \cup {saved}
      BY <2>4, <3>1, Retried DEF SweepSave
    <3>3. \A s \in tasks : s.id = t.id => s.path = t.path
      BY DEF AvatarsInv, TaskIds
    <3>4. stored' = stored
      BY <2>4 DEF SweepSave
    <3>5. QED
      BY <3>2, <3>3, <3>4 DEF Others
  <2>5. QED
    BY <1>4, <2>1, <2>2, <2>3, <2>4 DEF Sweep
<1>5. ASSUME NEW i \in Instances, Crash(i) PROVE Goal
  BY <1>5 DEF Crash, dbVars
<1>6. CASE UNCHANGED allVars
  BY <1>6 DEF allVars, vars
<1>7. QED
  BY <1>1, <1>2, <1>3, <1>4, <1>5, <1>6 DEF AccountsNext, AccountRequest, Background

\* A deletion comes to its last statement with the avatar it read dealt with.
LEMMA ClosingStep ==
  ASSUME AccountsTypeOK, AccountsTypeOK', AvatarsInv, [AccountsNext]_allVars,
         NEW r \in Requests, pc'[r] = "closing", pc[r] = "closing" => SettledFor(r)
  PROVE  SettledFor(r)'
<1>1. CASE pc[r] = "closing"
  <2>1. seen'[r] = seen[r]
    <3>1. ASSUME NEW q \in Requests, Delete(q) PROVE seen'[r] = seen[r]
      BY <1>1, <3>1 DEF Delete, DeleteBegin, DeleteCheck, DeleteAuthorize, DeleteEnqueue,
         DeleteEnqueueFails, HandleFindJob, HandleFindUser, HandleFails, DeleteStart,
         DeleteErase, DeleteThrows, DeletePurge, DeleteClose, DeleteCloseFails, accountVars,
         AccountsTypeOK
    <3>2. ASSUME NEW q \in Requests, Update(q) PROVE seen'[r] = seen[r]
      BY <1>1, <3>2 DEF Update, UpdateBegin, UpdateRejected, UpdateSave, accountVars,
         AccountsTypeOK
    <3>3. QED
      BY <3>1, <3>2
         DEF AccountsNext, AccountRequest, AvatarRequest, Background, accountVars, allVars
  <2>2. QED
    BY <1>1, <2>1, SettledStays, TasksStay
<1>2. CASE pc[r] # "closing"
  <2>1. (DeleteErase(r) /\ seen[r] = None) \/ DeletePurge(r)
    <3>1. ASSUME NEW q \in Requests, AvatarRequest(q) PROVE FALSE
      BY <1>2, <3>1 DEF AvatarRequest, Upload, Remove, Cleanup, UploadBegin, RemoveBegin,
         FindAuthorizedUser, UploadRejected, UploadStore, UploadStoreFails, UploadLink,
         UploadLinkFails, RemoveUnlink, RemoveUnlinkFails, RemoveObject, RemoveObjectAt,
         RecordTask, RecordTaskAt, RecordTaskFails, RecordTaskFailsAt, CleanUpPrevious, Answer,
         Goto, AccountsTypeOK
    <3>2. ASSUME NEW q \in Requests, Delete(q)
          PROVE  (DeleteErase(r) /\ seen[r] = None) \/ DeletePurge(r)
      <4>1. q = r /\ pc'[q] = "closing"
        BY <1>2, <3>2 DEF Delete, DeleteBegin, DeleteCheck, DeleteAuthorize, DeleteEnqueue,
           DeleteEnqueueFails, HandleFindJob, HandleFindUser, HandleFails, DeleteStart,
           DeleteErase, DeleteThrows, DeletePurge, RemoveObjectAt, RecordTaskAt,
           RecordTaskFailsAt, DeleteClose, DeleteCloseFails, Goto, AccountsTypeOK
      <4>2. QED
        BY <3>2, <4>1 DEF Delete, DeleteBegin, DeleteCheck, DeleteAuthorize, DeleteEnqueue,
           DeleteEnqueueFails, HandleFindJob, HandleFindUser, HandleFails, DeleteStart,
           DeleteErase, DeleteThrows, DeleteClose, DeleteCloseFails, Goto, AccountsTypeOK
    <3>3. ASSUME NEW q \in Requests, Update(q) PROVE FALSE
      BY <1>2, <3>3 DEF Update, UpdateBegin, UpdateRejected, UpdateSave, Goto, AccountsTypeOK
    <3>4. ASSUME NEW i \in Instances, Background(i) PROVE FALSE
      BY <1>2, <3>4 DEF Background, Sweep, SweepStart, SweepRemove, SweepDelete, SweepSave,
         SweepDeleteFails, SweepSaveFails, Crash, requestVars, AccountsTypeOK
    <3>5. QED
      BY <1>2, <3>1, <3>2, <3>3, <3>4 DEF AccountsNext, AccountRequest, allVars, vars
  <2>2. CASE DeleteErase(r) /\ seen[r] = None
    BY <2>2, ConstantsDistinct
       DEF DeleteErase, SettledFor, accountVars, AccountsTypeOK, Paths
  <2>3. CASE DeletePurge(r)
    <3>1. victim[r] = seen[r] /\ seen' = seen
      BY <2>3 DEF DeletePurge, RemoveObjectAt, RecordTaskAt, RecordTaskFailsAt, accountVars,
                  AvatarsInv, PurgesFollowErasure
    <3>2. seen[r] \notin stored' \/ \E t \in tasks' : t.path = seen[r]
      <4>1. CASE RemoveObjectAt(r, "purging", "purge_recording", "closing")
        BY <1>2, <3>1, <4>1 DEF RemoveObjectAt, StorageRemove, Goto, AccountsTypeOK
      <4>2. CASE RecordTaskAt(r, "purge_recording", "closing")
        <5> DEFINE new == [id |-> nextId, path |-> victim[r], attempts |-> 0]
        <5>1. new \in tasks' /\ new.path = seen[r]
          BY <3>1, <4>2 DEF RecordTaskAt
        <5>2. QED
          BY <5>1
      <4>3. CASE RecordTaskFailsAt(r, "purge_recording", "aborting")
        BY <4>3 DEF RecordTaskFailsAt, Goto, AccountsTypeOK
      <4>4. QED
        BY <2>3, <4>1, <4>2, <4>3 DEF DeletePurge
    <3>3. QED
      BY <3>1, <3>2 DEF SettledFor
  <2>4. QED
    BY <2>1, <2>2, <2>3
<1>3. QED
  BY <1>1, <1>2

---------------------------------------------------------------------------
(* Theorems                                                                 *)

\* Every step keeps the types.
LEMMA TypeStep ==
  ASSUME AccountsInv, [AccountsNext]_allVars
  PROVE  AccountsTypeOK'
<1>1. AccountsTypeOK /\ AvatarsInv /\ RemovalsUnlinked /\ JobsOpened
  BY DEF AccountsInv, JobsAccounted, AvatarsInv, JobsInv
<1>2. CASE UNCHANGED allVars
  BY <1>1, <1>2 DEF AccountsTypeOK, allVars, vars, accountVars
<1>3. QED
  BY <1>1, <1>2, AvatarTypes, DeletionTypes, BackgroundTypes
     DEF AccountsNext, AccountRequest

\* Every step keeps what is known of keys and objects.
LEMMA ObjectStep ==
  ASSUME AccountsInv, [AccountsNext]_allVars
  PROVE  AvatarsInv'
<1>1. AccountsTypeOK /\ AvatarsInv /\ AccountsTypeOK'
  BY TypeStep DEF AccountsInv, JobsAccounted
<1>2. CASE UNCHANGED allVars
  BY <1>1, <1>2
     DEF AvatarsInv, KeysLinked, LinkingStored, RemovalsUnlinked, TaskIds, CopiesRetryable,
         DeleteAfterRemove, PhotoStoredOrStale, PurgesFollowErasure, LinkedTo, Unlinked, At,
         allVars, vars, accountVars
<1>3. QED
  BY <1>1, <1>2, AvatarStep, DeletionStep, BackgroundStep DEF AccountsNext, AccountRequest

\* Every step keeps what is known of jobs.
LEMMA JobStep ==
  ASSUME AccountsInv, [AccountsNext]_allVars
  PROVE  JobsAccounted' /\ JobsInv'
<1>1. JobsAccounted /\ JobsInv /\ AccountsTypeOK'
  BY TypeStep DEF AccountsInv
<1>2. CASE UNCHANGED allVars
  <2>1. UNCHANGED <<jobs, job, user, pc, photo>> /\ faults' = faults /\ faults' >= faults
    BY <1>1, <1>2, BoundsAreNaturals DEF allVars, vars, accountVars, JobsAccounted, AccountsTypeOK
  <2>2. QED
    BY <1>1, <2>1, JobsAside DEF Aside
<1>3. ASSUME NEW r \in Requests, Delete(r) PROVE JobsAccounted' /\ JobsInv'
  <2>1. CASE HandleFindUser(r)
    BY <1>1, <2>1, OtherJobs, LeftJobs
  <2>2. CASE ~HandleFindUser(r)
    BY <1>1, <1>3, <2>2, OtherJobs, SavedJobs, ErasedJobs, TakenJobs, OpenedJobs DEF Delete
  <2>3. QED
    BY <2>1, <2>2
<1>4. QED
  BY <1>1, <1>2, <1>3, AvatarJobs, BackgroundJobs, OtherJobs DEF AccountsNext, AccountRequest

\* Every step keeps the promise of a job that is done.
LEMMA DoneMeansErasedStep ==
  ASSUME AccountsInv, [AccountsNext]_allVars
  PROVE  DoneMeansErased'
<1>1. AccountsTypeOK /\ AvatarsInv /\ JobsInv /\ DoneMeansErased /\ AccountsTypeOK'
  BY TypeStep DEF AccountsInv, JobsAccounted
<1>2. \A j \in 1..Len(jobs') :
        jobs'[j].status = "done" /\ jobs'[j].user \notin stale' => photo'[jobs'[j].user] = Gone
  BY <1>1, DoneStep
<1>3. ASSUME NEW r \in Requests, pc'[r] = "closing" PROVE SettledFor(r)'
  <2>1. pc[r] = "closing" => Deleting(r)
    BY <1>1 DEF JobsInv, JobsOpened, JobsOf, CarryingOut, Deleting, NoJob
  <2>2. pc[r] = "closing" => SettledFor(r)
    BY <1>1, <2>1 DEF DoneMeansErased, SettledFor
  <2>3. QED
    BY <1>1, <1>3, <2>2, ClosingStep
<1>4. QED
  BY <1>2, <1>3 DEF DoneMeansErased, SettledFor

\* The invariant holds however deletions of both modes, profile updates, uploads,
\* removals, sweeps, errors and crashes overlap (UsersService, UserDeletionListener).
THEOREM Inductive == AccountsSpec => []AccountsInv
<1>1. AccountsInv /\ [AccountsNext]_allVars => AccountsInv'
  BY ObjectStep, JobStep, DoneMeansErasedStep DEF AccountsInv
<1>2. QED
  BY <1>1, InductiveInit, PTL DEF AccountsSpec

\* An avatar in use loses its object only after a profile update set its row back.
THEOREM PhotosStayStored == AccountsSpec => []PhotoStoredOrStale
<1>1. AccountsInv => PhotoStoredOrStale
  BY DEF AccountsInv, AvatarsInv
<1>2. QED
  BY <1>1, Inductive, PTL

\* A deletion job that is done has erased its account and dealt with the avatar.
THEOREM DoneJobsErased == AccountsSpec => []DoneMeansErased
<1>1. AccountsInv => DoneMeansErased
  BY DEF AccountsInv
<1>2. QED
  BY <1>1, Inductive, PTL

\* An unfinished job is in the hands of a deletion, or there was an error or a crash,
\* or an event met another deletion.
THEOREM JobsAreAccounted == AccountsSpec => []JobsAccounted
<1>1. AccountsInv => JobsAccounted
  BY DEF AccountsInv
<1>2. QED
  BY <1>1, Inductive, PTL

\* Erased accounts come back by profile updates only.
THEOREM ErasureLasts == AccountsSpec => ErasedForGood
<1>1. AccountsInv /\ [AccountsNext]_allVars =>
        [\A u \in Users : photo[u] = Gone /\ photo'[u] # Gone =>
           \E r \in Requests : user[r] = u /\ UpdateSave(r)]_photo
  BY RowsReturn DEF AccountsInv, JobsAccounted
<1>2. QED
  BY <1>1, Inductive, PTL DEF AccountsSpec, ErasedForGood

\* With synchronous deletions only, a job that is over keeps its outcome.
THEOREM OutcomesAreFinal == AccountsSpec => JobOutcomeFinal
<1>1. AccountsInv /\ [AccountsNext]_allVars =>
        [\A j \in 1..Len(jobs) :
           AllSync /\ jobs[j].status \notin Active => jobs'[j].status = jobs[j].status]_jobs
  <2> SUFFICES ASSUME AccountsInv, [AccountsNext]_allVars, NEW j \in 1..Len(jobs),
                      AllSync, jobs[j].status \notin Active
               PROVE  jobs'[j].status = jobs[j].status
    OBVIOUS
  <2>1. AccountsTypeOK /\ JobsInv
    BY DEF AccountsInv, JobsAccounted
  <2>2. ASSUME NEW r \in Requests, DeleteEnqueue(r) PROVE jobs'[j] = jobs[j]
    BY <2>1, <2>2, JobOpened DEF DeleteEnqueue, Active
  <2>3. ASSUME NEW r \in Requests, DeleteStart(r) \/ DeleteClose(r)
        PROVE  jobs'[j].status = jobs[j].status
    <3>1. job[r] \in JobsOf(user[r]) /\ jobs[job[r]].status \in Active
      BY <2>1, <2>3 DEF DeleteStart, DeleteClose, JobsInv, JobsOpened, OwnJobs, CarryingOut
    <3>2. PICK s \in Active \cup {"done", "failed"} : SaveJob(r, s)
      BY <2>3 DEF DeleteStart, DeleteClose, Active
    <3>3. QED
      BY <2>1, <3>1, <3>2, JobSaved
  <2>4. QED
    BY <2>2, <2>3, JobsWritten
<1>2. QED
  BY <1>1, Inductive, PTL DEF AccountsSpec, JobOutcomeFinal

---------------------------------------------------------------------------
(* What an upload is made of: AvatarInput                                   *)

\* A part is a file or a field; what follows a broken part is not read.
LEMMA PartKinds ==
  /\ \A f \in Files : f \in File /\ f.type = "file" /\ f # Field
  /\ Field.type = "field" /\ BrokenPart.type = "broken" /\ OtherBody.type = "other"
  /\ Files \subseteq Parts /\ {Field, BrokenPart, OtherBody} \subseteq Parts
  BY AvatarInputAssumption DEF File, Field, BrokenPart, OtherBody, Parts

\* One part more is one file, one field, or neither more.
LEMMA CountsMore ==
  ASSUME NEW parts \in Seq(Parts),
         NEW part \in Parts
  PROVE  LET more == Append(parts, part)
         IN  /\ more \in Seq(Parts) /\ Len(more) = Len(parts) + 1
             /\ Len(parts) \in Nat
             /\ FileCount(parts) \in Nat /\ FieldCount(parts) \in Nat
             /\ FileCount(more) = IF part.type = "file" THEN FileCount(parts) + 1
                                                        ELSE FileCount(parts)
             /\ FieldCount(more) = IF part.type = "field" THEN FieldCount(parts) + 1
                                                          ELSE FieldCount(parts)
             /\ {more[i] : i \in {j \in 1..Len(more) : more[j].type = "file"}} =
                  {parts[i] : i \in {j \in 1..Len(parts) : parts[j].type = "file"}}
                    \cup IF part.type = "file" THEN {part} ELSE {}
             /\ part # OtherBody => more # <<OtherBody>>
<1> DEFINE more == Append(parts, part)
           n == Len(parts)
           Of(type) == {i \in 1..n : parts[i].type = type}
           MoreOf(type) == {i \in 1..(n + 1) : more[i].type = type}
<1>1. /\ more \in Seq(Parts) /\ Len(more) = n + 1 /\ n \in Nat
      /\ \A i \in 1..n : more[i] = parts[i]
      /\ more[n + 1] = part
  BY AppendProperties, LenProperties
<1> HIDE DEF more, n
<1>2. 1..(n + 1) = 1..n \cup {n + 1} /\ n + 1 \notin 1..n
  BY <1>1
<1>3. \A type : MoreOf(type) = IF part.type = type THEN Of(type) \cup {n + 1} ELSE Of(type)
  BY <1>1, <1>2
<1>4. ASSUME NEW type
      PROVE  /\ Cardinality(Of(type)) \in Nat
             /\ Cardinality(MoreOf(type)) =
                  IF part.type = type THEN Cardinality(Of(type)) + 1 ELSE Cardinality(Of(type))
  <2>1. IsFiniteSet(1..n)
    BY <1>1, FS_Interval
  <2>2. IsFiniteSet(Of(type))
    BY <2>1, FS_Subset
  <2>3. Cardinality(Of(type)) \in Nat
    BY <2>2, FS_CardinalityType
  <2>4. n + 1 \notin Of(type)
    BY <1>2
  <2>5. Cardinality(Of(type) \cup {n + 1}) = Cardinality(Of(type)) + 1
    BY <2>2, <2>4, FS_AddElement
  <2> HIDE DEF Of, MoreOf
  <2>6. QED
    BY <1>3, <2>3, <2>5
<1>5. /\ FileCount(parts) = Cardinality(Of("file"))
      /\ FieldCount(parts) = Cardinality(Of("field"))
      /\ FileCount(more) = Cardinality(MoreOf("file"))
      /\ FieldCount(more) = Cardinality(MoreOf("field"))
  BY <1>1 DEF FileCount, FieldCount, n
<1>6. {more[i] : i \in MoreOf("file")} =
        {parts[i] : i \in Of("file")} \cup IF part.type = "file" THEN {part} ELSE {}
  <2>1. \A i \in Of("file") : more[i] = parts[i]
    BY <1>1
  <2>2. MoreOf("file") = IF part.type = "file" THEN Of("file") \cup {n + 1} ELSE Of("file")
    BY <1>3
  <2> HIDE DEF Of, MoreOf
  <2>3. QED
    BY <1>1, <2>1, <2>2
<1>7. /\ FileCount(parts) \in Nat /\ FieldCount(parts) \in Nat
      /\ FileCount(more) = IF part.type = "file" THEN FileCount(parts) + 1
                                                       ELSE FileCount(parts)
      /\ FieldCount(more) = IF part.type = "field" THEN FieldCount(parts) + 1
                                                         ELSE FieldCount(parts)
  <2> HIDE DEF Of, MoreOf
  <2>1. QED
    BY <1>4, <1>5
<1>8. /\ MoreOf("file") = {j \in 1..Len(more) : more[j].type = "file"}
      /\ Of("file") = {j \in 1..Len(parts) : parts[j].type = "file"}
  BY <1>1 DEF n
<1> HIDE DEF Of, MoreOf
<1>9. {more[i] : i \in {j \in 1..Len(more) : more[j].type = "file"}} =
        {parts[i] : i \in {j \in 1..Len(parts) : parts[j].type = "file"}}
          \cup IF part.type = "file" THEN {part} ELSE {}
  BY <1>6, <1>8
<1>10. part # OtherBody => more # <<OtherBody>>
  <2>1. more = <<OtherBody>> => n + 1 = 1 /\ more[1] = OtherBody
    BY <1>1
  <2>2. QED
    BY <1>1, <2>1
<1>11. QED
  BY <1>1, <1>7, <1>9, <1>10 DEF n, more

LEMMA InputInitially == InputInit => InputInv
<1> SUFFICES ASSUME InputInit PROVE InputInv
  OBVIOUS
<1>1. Len(<<>>) = 0 /\ body = <<>> /\ body \in Seq(Parts)
      /\ upload \in Seq(Files) /\ Len(upload) = 0
  BY DEF InputInit
<1>2. /\ {i \in 1..Len(body) : body[i].type = "file"} = {}
      /\ {i \in 1..Len(body) : body[i].type = "field"} = {}
  BY <1>1
<1>3. FileCount(body) = 0 /\ FieldCount(body) = 0 /\ Sent = {}
  BY <1>2, FS_EmptySet DEF FileCount, FieldCount, Sent
<1>4. StillGood
  BY <1>1, <1>3, AvatarInputAssumption DEF InputInit, StillGood, OverLimit
<1>5. AnswerFits
  BY <1>3 DEF InputInit, AnswerFits, AcceptsImages, RefusalFits
<1>6. QED
  BY <1>1, <1>4, <1>5, AvatarInputAssumption DEF InputInit, InputInv, InputTypeOK

\* A refusal of a body that is no photo, and no file that is too large alone.
LEMMA Refused400 ==
  ASSUME answer' = 400, stage' = "done", ~OnePhoto', body' # <<OtherBody>>,
         ~(/\ FileCount(body') = 1 /\ FieldCount(body') <= MaxFields
           /\ \A f \in Sent' : f.field = "file" /\ f.size > MaxFileSize)
  PROVE  AnswerFits'
  BY DEF AnswerFits, AcceptsImages, RefusalFits, Acceptable, OnePhoto, Image, Accepted

LEMMA ReadPartKeeps ==
  ASSUME InputInv, ReadPart PROVE InputInv'
<1>1. /\ stage = "reading" /\ Len(body) < MaxParts
      /\ InputTypeOK /\ answer = 0 /\ StillGood
  BY DEF ReadPart, InputInv
<1>2. PICK part \in Files \cup {Field} :
        /\ body' = Append(body, part)
        /\ IF OverLimit(body') THEN Refuse(400) /\ UNCHANGED upload
           ELSE IF part = Field THEN UNCHANGED <<stage, upload, answer>>
           ELSE IF part.field # "file" THEN Refuse(400) /\ UNCHANGED upload
           ELSE IF IsTooLarge(part) THEN Refuse(413) /\ UNCHANGED upload
           ELSE upload' = <<part>> /\ UNCHANGED <<stage, answer>>
  BY DEF ReadPart
<1>3. /\ \A f \in Files : f \in File /\ f.type = "file" /\ f # Field
      /\ Field.type = "field"
  BY PartKinds
<1>4. /\ body' \in Seq(Parts) /\ Len(body') = Len(body) + 1
      /\ Len(body) \in Nat /\ FileCount(body) \in Nat /\ FieldCount(body) \in Nat
      /\ FileCount(body') = IF part.type = "file" THEN FileCount(body) + 1
                                                        ELSE FileCount(body)
      /\ FieldCount(body') = IF part.type = "field" THEN FieldCount(body) + 1
                                                          ELSE FieldCount(body)
      /\ Sent' = Sent \cup IF part.type = "file" THEN {part} ELSE {}
      /\ body' # <<OtherBody>>
  <2>1. /\ body \in Seq(Parts)
        /\ part \in Parts
    BY <1>1, PartKinds DEF InputTypeOK
  <2>2. part # OtherBody
    BY <1>2, PartKinds
  <2>3. QED
    BY <1>2, <2>1, <2>2, CountsMore DEF Sent
<1>5. Len(body') = FileCount(body') + FieldCount(body')
  BY <1>1, <1>2, <1>3, <1>4 DEF StillGood
<1>6. /\ Len(body') <= MaxParts /\ Len(body') <= MaxParts + 1
      /\ FileCount(body') \in Nat /\ FieldCount(body') \in Nat
  BY <1>1, <1>4, AvatarInputAssumption
<1>7. ASSUME UNCHANGED upload, answer' \in {400, 413}, stage' = "done", AnswerFits'
      PROVE  InputInv'
  <2>1. InputTypeOK'
    BY <1>1, <1>4, <1>6, <1>7 DEF InputTypeOK
  <2>2. QED
    BY <1>7, <2>1 DEF InputInv
<1>8. ASSUME UNCHANGED <<stage, answer>>, StillGood', upload' \in Seq(Files), Len(upload') <= 1,
             \A i \in 1..Len(upload') : upload'[i].size <= MaxFileSize
      PROVE  InputInv'
  <2>1. InputTypeOK'
    BY <1>1, <1>4, <1>6, <1>8 DEF InputTypeOK
  <2>2. AnswerFits'
    BY <1>1, <1>8 DEF AnswerFits, AcceptsImages, RefusalFits
  <2>3. QED
    BY <1>1, <1>6, <1>8, <2>1, <2>2 DEF InputInv
<1>9. CASE OverLimit(body')
  <2>1. ~OnePhoto' /\ ~(FileCount(body') = 1 /\ FieldCount(body') <= MaxFields)
    BY <1>5, <1>6, <1>9, AvatarInputAssumption DEF OnePhoto, OverLimit
  <2>2. answer' = 400 /\ stage' = "done" /\ UNCHANGED upload
    BY <1>2, <1>9 DEF Refuse
  <2>3. AnswerFits'
    BY <1>4, <2>1, <2>2, Refused400
  <2>4. QED
    BY <1>7, <2>2, <2>3
<1>10. CASE ~OverLimit(body') /\ part = Field
  <2>1. UNCHANGED <<stage, upload, answer>>
    BY <1>2, <1>10
  <2>2. FileCount(body') = FileCount(body) /\ Sent' = Sent
    BY <1>3, <1>4, <1>10
  <2>3. StillGood'
    BY <1>1, <1>5, <1>10, <2>1, <2>2 DEF StillGood
  <2>4. QED
    BY <1>1, <1>8, <2>1, <2>3 DEF InputTypeOK
<1>11. CASE ~OverLimit(body') /\ part # Field
  <2>1. part \in Files /\ part \in File /\ FileCount(body') = FileCount(body) + 1
    BY <1>2, <1>3, <1>4, <1>11
  <2>2. FileCount(body) = 0 /\ FileCount(body') = 1 /\ FieldCount(body') <= MaxFields
    BY <1>4, <1>6, <1>11, <2>1, AvatarInputAssumption DEF OverLimit
  <2>3. upload = <<>> /\ Sent' = {part}
    <3>1. Sent = {}
      <4>1. {i \in 1..Len(body) : body[i].type = "file"} = {}
        <5>1. IsFiniteSet(1..Len(body))
          BY <1>4, FS_Interval
        <5>2. IsFiniteSet({i \in 1..Len(body) : body[i].type = "file"})
          BY <5>1, FS_Subset
        <5>3. QED
          BY <2>2, <5>2, FS_EmptySet DEF FileCount
      <4>2. QED
        BY <4>1 DEF Sent
    <3>2. upload = <<>>
      BY <1>1, <2>2 DEF StillGood
    <3>3. QED
      BY <1>3, <1>4, <2>1, <3>1, <3>2
  <2>4. part.size \in Nat
    BY <2>1 DEF File
  <2>5. CASE part.field # "file"
    <3>1. answer' = 400 /\ stage' = "done" /\ UNCHANGED upload
      BY <1>2, <1>11, <2>5 DEF Refuse
    <3>2. ~OnePhoto' /\ ~(\A f \in Sent' : f.field = "file" /\ f.size > MaxFileSize)
      BY <2>3, <2>5 DEF OnePhoto
    <3>3. AnswerFits'
      BY <1>4, <3>1, <3>2, Refused400
    <3>4. QED
      BY <1>7, <3>1, <3>3
  <2>6. CASE part.field = "file" /\ IsTooLarge(part)
    <3>1. answer' = 413 /\ stage' = "done" /\ UNCHANGED upload
      BY <1>2, <1>11, <2>6 DEF Refuse
    <3>2. part.size > MaxFileSize /\ part.size \notin 1..MaxFileSize
      BY <2>4, <2>6, AvatarInputAssumption DEF IsTooLarge
    <3>3. ~OnePhoto' /\ ~Acceptable'
      BY <2>3, <3>2 DEF OnePhoto, Acceptable, Image
    <3>4. \A f \in Sent' : f.field = "file" /\ f.size > MaxFileSize
      BY <2>3, <2>6, <3>2
    <3>5. AnswerFits'
      BY <1>4, <2>2, <3>1, <3>3, <3>4 DEF AnswerFits, AcceptsImages, RefusalFits, Accepted
    <3>6. QED
      BY <1>7, <3>1, <3>5
  <2>7. CASE part.field = "file" /\ ~IsTooLarge(part)
    <3>1. upload' = <<part>> /\ UNCHANGED <<stage, answer>>
      BY <1>2, <1>11, <2>7
    <3>2. upload' \in Seq(Files) /\ Len(upload') = 1 /\ upload'[1] = part
      BY <2>1, <3>1
    <3>3. part.size <= MaxFileSize
      BY <2>4, <2>7, AvatarInputAssumption DEF IsTooLarge
    <3>4. StillGood'
      BY <1>5, <1>11, <2>1, <2>2, <2>3, <2>7, <3>1 DEF StillGood
    <3>5. QED
      BY <1>8, <3>1, <3>2, <3>3, <3>4
  <2>8. QED
    BY <2>5, <2>6, <2>7
<1>12. QED
  BY <1>9, <1>10, <1>11

LEMMA BreakOffKeeps ==
  ASSUME InputInv, BreakOff PROVE InputInv'
<1>1. /\ stage = "reading" /\ InputTypeOK /\ answer = 0 /\ StillGood
      /\ body' = Append(body, BrokenPart) /\ answer' = 400 /\ stage' = "done" /\ upload' = upload
  BY DEF BreakOff, Refuse, InputInv
<1>2. BrokenPart.type = "broken"
  BY PartKinds
<1>3. /\ body' \in Seq(Parts) /\ Len(body') = Len(body) + 1
      /\ Len(body) \in Nat /\ FileCount(body) \in Nat /\ FieldCount(body) \in Nat
      /\ FileCount(body') = FileCount(body)
      /\ FieldCount(body') = FieldCount(body)
      /\ Sent' = Sent /\ body' # <<OtherBody>>
  <2>1. /\ body \in Seq(Parts)
        /\ BrokenPart \in Parts /\ BrokenPart # OtherBody
    BY <1>1, PartKinds DEF InputTypeOK
  <2>2. QED
    BY <1>1, <1>2, <2>1, CountsMore DEF Sent
<1>4. Len(body') <= MaxParts + 1
  <2>1. Len(body) <= MaxParts
    BY <1>1 DEF InputInv
  <2>2. QED
    BY <1>3, <2>1, AvatarInputAssumption
<1>5. ~OnePhoto'
  BY <1>1, <1>3 DEF OnePhoto, StillGood
<1>6. ~(/\ FileCount(body') = 1 /\ FieldCount(body') <= MaxFields
        /\ \A f \in Sent' : f.field = "file" /\ f.size > MaxFileSize)
  BY <1>1, <1>3 DEF StillGood, IsTooLarge
<1>7. AnswerFits'
  BY <1>1, <1>3, <1>5, <1>6, Refused400
<1>8. QED
  BY <1>1, <1>3, <1>4, <1>7 DEF InputInv, InputTypeOK

\* A request of another media type is refused before a part is read.
LEMMA OtherBodyIsNotGood ==
  ASSUME StillGood PROVE body # <<OtherBody>>
<1> SUFFICES ASSUME body = <<OtherBody>> PROVE FALSE
  OBVIOUS
<1>1. Len(body) = 1 /\ \A i \in 1..1 : body[i].type = "other"
  BY PartKinds
<1>2. /\ {i \in 1..Len(body) : body[i].type = "file"} = {}
      /\ {i \in 1..Len(body) : body[i].type = "field"} = {}
  BY <1>1
<1>3. FileCount(body) = 0 /\ FieldCount(body) = 0
  BY <1>2, FS_EmptySet DEF FileCount, FieldCount
<1>4. QED
  BY <1>1, <1>3 DEF StillGood

\* The end of the body, and what sharp makes of the file.
LEMMA EndBodyKeeps ==
  ASSUME InputInv, EndBody PROVE InputInv'
<1>1. /\ stage = "reading" /\ InputTypeOK /\ answer = 0 /\ StillGood /\ Len(body) <= MaxParts
      /\ body' = body /\ upload' = upload
  BY DEF EndBody, InputInv
<1>2. /\ FileCount(body') = FileCount(body) /\ FieldCount(body') = FieldCount(body)
      /\ Sent' = Sent /\ (OnePhoto' <=> OnePhoto) /\ body' # <<OtherBody>>
  <2>1. body # <<OtherBody>>
    BY <1>1, OtherBodyIsNotGood
  <2>2. QED
    BY <1>1, <2>1 DEF FileCount, FieldCount, Sent, OnePhoto
<1>3. CASE upload = <<>>
  <2>1. answer' = 400 /\ stage' = "done"
    BY <1>3 DEF EndBody, Refuse
  <2>2. FileCount(body) = 0
    <3>1. \A f : <<f>> # <<>>
      OBVIOUS
    <3>2. QED
      BY <1>1, <1>3, <3>1 DEF StillGood
  <2>3. AnswerFits'
    BY <1>2, <2>1, <2>2, Refused400 DEF OnePhoto
  <2>4. QED
    BY <1>1, <2>1, <2>3 DEF InputInv, InputTypeOK
<1>4. CASE upload # <<>>
  <2>1. PICK f \in Files : /\ upload = <<f>> /\ Sent = {f} /\ FileCount(body) = 1
                          /\ f.field = "file" /\ ~IsTooLarge(f)
    BY <1>1, <1>4 DEF StillGood
  <2>2. (\E i \in 1..Len(upload) : upload[i].size = 0) <=> f.size = 0
    BY <2>1
  <2>3. CASE f.size = 0
    <3>1. answer' = 400 /\ stage' = "done"
      BY <2>2, <2>3 DEF EndBody, Refuse
    <3>2. ~OnePhoto
      BY <2>1, <2>3 DEF OnePhoto
    <3>3. AnswerFits'
      BY <1>2, <2>1, <3>1, <3>2, Refused400 DEF IsTooLarge
    <3>4. QED
      BY <1>1, <3>1, <3>3 DEF InputInv, InputTypeOK
  <2>4. CASE f.size # 0
    <3>1. stage' = "processing" /\ answer' = answer
      BY <1>4, <2>2, <2>4 DEF EndBody
    <3>2. StillGood'
      BY <1>1, <1>2 DEF StillGood, OverLimit
    <3>3. AnswerFits'
      BY <1>1, <3>1 DEF AnswerFits, AcceptsImages, RefusalFits
    <3>4. QED
      BY <1>1, <2>1, <2>4, <3>1, <3>2, <3>3 DEF InputInv, InputTypeOK
  <2>5. QED
    BY <2>3, <2>4
<1>5. QED
  BY <1>3, <1>4

LEMMA ProcessKeeps ==
  ASSUME InputInv, Process PROVE InputInv'
<1>1. /\ stage = "processing" /\ InputTypeOK /\ StillGood
      /\ answer' = Verdict(upload[1]) /\ stage' = "done" /\ body' = body /\ upload' = upload
  BY DEF Process, Refuse, InputInv
<1>2. PICK f \in Files : upload = <<f>> /\ f.size # 0
  BY <1>1 DEF InputInv
<1>3. Sent = {f} /\ FileCount(body) = 1 /\ f.field = "file" /\ ~IsTooLarge(f)
  <2>1. <<f>> # <<>> /\ \A g : <<f>> = <<g>> => g = f
    OBVIOUS
  <2>2. QED
    BY <1>1, <1>2, <2>1 DEF StillGood
<1>4. /\ FileCount(body') = 1 /\ FieldCount(body') = FieldCount(body)
      /\ Sent' = {f} /\ (Acceptable' <=> Acceptable) /\ (OnePhoto' <=> OnePhoto)
      /\ body' # <<OtherBody>>
  BY <1>1, <1>3, OtherBodyIsNotGood DEF FileCount, FieldCount, Sent, Acceptable, OnePhoto
<1>5. f \in File /\ f.size \in 1..MaxFileSize
  BY <1>2, <1>3, AvatarInputAssumption DEF File, IsTooLarge
<1>6. OnePhoto /\ (Acceptable <=> Image(f))
  <2>1. /\ body \in Seq(Parts)
        /\ BrokenPart \in Parts
    BY <1>1, PartKinds DEF InputTypeOK
  <2>2. FieldCount(body) \in Nat
    BY <2>1, CountsMore
  <2>3. FieldCount(body) <= MaxFields
    BY <1>1, <2>2, AvatarInputAssumption DEF StillGood, OverLimit
  <2>4. QED
    BY <1>1, <1>3, <1>5, <2>3 DEF Acceptable, OnePhoto, StillGood
<1>7. answer' = Verdict(f)
  BY <1>1, <1>2
<1>8. answer' \in {Accepted, 400, 415} /\ (answer' = Accepted <=> Image(f))
  BY <1>3, <1>5, <1>7 DEF Verdict, Image, Accepted, File
<1>9. answer' = 415 <=> Unsupported(f)
  BY <1>7 DEF Verdict, Unsupported, Accepted
<1>10. answer' # 413 /\ ~(f.size > MaxFileSize)
  BY <1>3, <1>8 DEF IsTooLarge, Accepted
<1>11. AnswerFits'
  BY <1>1, <1>4, <1>6, <1>8, <1>9, <1>10 DEF AnswerFits, AcceptsImages, RefusalFits
<1>12. QED
  BY <1>1, <1>8, <1>11 DEF InputInv, InputTypeOK

LEMMA InputStep == InputInv /\ [InputNext]_inputVars => InputInv'
<1> SUFFICES ASSUME InputInv, [InputNext]_inputVars PROVE InputInv'
  OBVIOUS
<1>1. CASE IsMultipart
  <2>1. /\ stage = "called" /\ body = <<>> /\ answer = 0 /\ Len(body) <= MaxParts
        /\ InputTypeOK /\ StillGood
        /\ upload' = upload
        /\ \/ stage' = "reading" /\ answer' = answer /\ body' = body
           \/ stage' = "done" /\ answer' = 415 /\ body' = <<OtherBody>>
    BY <1>1 DEF IsMultipart, Refuse, InputInv
  <2>2. CASE stage' = "reading" /\ answer' = answer /\ body' = body
    <3>1. StillGood'
      BY <2>1, <2>2 DEF StillGood, FileCount, FieldCount, OverLimit, Sent
    <3>2. AnswerFits'
      BY <2>1, <2>2 DEF AnswerFits, AcceptsImages, RefusalFits
    <3>3. QED
      BY <2>1, <2>2, <3>1, <3>2 DEF InputInv, InputTypeOK
  <2>3. CASE stage' = "done" /\ answer' = 415 /\ body' = <<OtherBody>>
    <3>1. /\ OtherBody \in Parts /\ OtherBody.type = "other" /\ Len(<<OtherBody>>) = 1
          /\ <<OtherBody>> \in Seq(Parts)
      BY PartKinds
    <3>2. {i \in 1..Len(body') : body'[i].type = "file"} = {}
      BY <2>3, <3>1
    <3>3. FileCount(body') = 0
      BY <3>2, FS_EmptySet DEF FileCount
    <3>4. AnswerFits'
      BY <2>3, <3>3 DEF AnswerFits, AcceptsImages, RefusalFits, Acceptable, Accepted
    <3>5. 1 <= MaxParts + 1
      BY AvatarInputAssumption
    <3>6. InputTypeOK'
      BY <2>1, <2>3, <3>1, <3>5 DEF InputTypeOK
    <3>7. QED
      BY <2>3, <3>4, <3>6 DEF InputInv
  <2>4. QED
    BY <2>1, <2>2, <2>3
<1>2. CASE UNCHANGED inputVars
  <2>1. body' = body /\ stage' = stage /\ upload' = upload /\ answer' = answer
    BY <1>2 DEF inputVars
  <2>2. /\ Sent' = Sent /\ FileCount(body)' = FileCount(body)
        /\ FieldCount(body)' = FieldCount(body)
        /\ OverLimit(body)' = OverLimit(body)
    BY <2>1 DEF Sent, FileCount, FieldCount, OverLimit
  <2>3. StillGood' = StillGood /\ AnswerFits' = AnswerFits
    BY <2>1, <2>2 DEF StillGood, AnswerFits, AcceptsImages, RefusalFits, Acceptable, OnePhoto
  <2>4. QED
    BY <2>1, <2>3 DEF InputInv, InputTypeOK
<1>3. QED
  BY <1>1, <1>2, ReadPartKeeps, BreakOffKeeps, EndBodyKeeps, ProcessKeeps DEF InputNext

\* The inductive invariant holds in every state the program reaches.
THEOREM InputInductive == InputSpec => []InputInv
<1>1. InputInit => InputInv
  BY InputInitially
<1>2. InputInv /\ [InputNext]_inputVars => InputInv'
  BY InputStep
<1>3. QED
  BY <1>1, <1>2, PTL DEF InputSpec

\* AnswerFits: an upload is accepted exactly when it is what spec 13 asks for, and a
\* refusal has the status that spec 13 gives its body, whatever the limits are and
\* whatever parts come in whatever order.
THEOREM UploadsAnswered == InputSpec => []AnswerFits
<1>1. InputInv => AnswerFits
  BY DEF InputInv
<1>2. QED
  BY <1>1, InputInductive, PTL
====
