---------------------------- MODULE Accounts ----------------------------
(***************************************************************************)
(* Avatars composed with the other writers of the users table:               *)
(* UsersService.deleteUser with its two ways of running, processUserDeletion *)
(* and UserDeletionListener, and the profile writers updateUser and          *)
(* confirmEmailChange, which save an entity they read some awaits earlier.   *)
(* Every one of them works on the user entity it read with findById.         *)
(***************************************************************************)
EXTENDS Avatars, Sequences

CONSTANTS
  Ops,    \* the operations of a run, among "upload", "remove", "delete", "update"
  Modes   \* DeletionExecutionMode: "sync" from the controller, "async" by isAsync

VARIABLES
  jobs,   \* user_deletion_jobs in the order of createdAt; a job's id is its index
          \* (and, as history, the mode of the deletion that opened it)
  job,    \* the job each deletion works on
  seen,   \* user.photo of the entity each request read
  stale   \* history: users whose row a profile save set back to an older state

accountVars == <<jobs, job, seen, stale>>
allVars == <<vars, accountVars>>

NoJob == 0
Active == {"pending", "in_progress"}

AccountsInit ==
  /\ Init
  /\ jobs = <<>>
  /\ job = [r \in Requests |-> NoJob]
  /\ seen = [r \in Requests |-> None]
  /\ stale = {}

\* What the requests of this module leave alone unless they say otherwise.
KeepAvatars == UNCHANGED <<stored, tasks, nextId, user, host, sweepVars, lost>>

Photo(r) == photo[user[r]]

---------------------------------------------------------------------------
(* deleteUser                                                               *)

DeleteBegin(r) ==
  /\ pc[r] = "idle"
  /\ IF Photo(r) = Gone
       THEN Goto(r, "failed") /\ UNCHANGED seen
       ELSE Goto(r, "checking") /\ seen' = [seen EXCEPT ![r] = Photo(r)]
  /\ KeepAvatars /\ UNCHANGED <<photo, victim, faults, jobs, job, stale>>

\* findLatestByUserId: the newest job of the user, NoJob without one.
JobsOf(u) == {j \in 1..Len(jobs) : jobs[j].user = u}
LatestJob(u) == IF JobsOf(u) = {} THEN NoJob
                ELSE CHOOSE j \in JobsOf(u) : \A k \in JobsOf(u) : k <= j

\* 409 while the latest job is pending or in progress.
DeleteCheck(r) ==
  /\ pc[r] = "checking"
  /\ LET latest == LatestJob(user[r])
     IN  Goto(r, IF latest # NoJob /\ jobs[latest].status \in Active
                   THEN "failed" ELSE "authorizing")
  /\ KeepAvatars /\ UNCHANGED <<photo, victim, faults, accountVars>>

\* An administrator goes on; a user who sends no code gets a challenge (200), and
\* one whose code verifyOtp refuses gets its error.
DeleteAuthorize(r) ==
  /\ pc[r] = "authorizing"
  /\ \E next \in {"enqueuing", "done", "failed"} : Goto(r, next)
  /\ KeepAvatars /\ UNCHANGED <<photo, victim, faults, accountVars>>

\* Save the new job. An async deletion is answered now; its event handler runs on.
DeleteEnqueue(r) ==
  /\ pc[r] = "enqueuing"
  /\ \E mode \in Modes :
       /\ jobs' = Append(jobs, [user |-> user[r], mode |-> mode,
                                status |-> IF mode = "async" THEN "pending"
                                                             ELSE "in_progress"])
       /\ Goto(r, IF mode = "async" THEN "handling" ELSE "starting")
  /\ job' = [job EXCEPT ![r] = Len(jobs')]
  /\ KeepAvatars /\ UNCHANGED <<photo, victim, faults, seen, stale>>

DeleteEnqueueFails(r) ==
  /\ pc[r] = "enqueuing"
  /\ Fault
  /\ Goto(r, "failed")
  /\ KeepAvatars /\ UNCHANGED <<photo, victim, accountVars>>

---------------------------------------------------------------------------
(* UserDeletionListener.handleUserSoftDeleted, up to where it meets          *)
(* processUserDeletion: it reads the user's latest job, then the user.       *)

HandleFindJob(r) ==
  /\ pc[r] = "handling"
  /\ job' = [job EXCEPT ![r] = LatestJob(user[r])]
  /\ Goto(r, "handling_user")
  /\ KeepAvatars /\ UNCHANGED <<photo, victim, faults, jobs, seen, stale>>

\* Without a user the handler logs and returns, whatever the job's status.
HandleFindUser(r) ==
  /\ pc[r] = "handling_user"
  /\ IF Photo(r) = Gone
       THEN Goto(r, "done") /\ UNCHANGED seen
       ELSE Goto(r, "starting") /\ seen' = [seen EXCEPT ![r] = Photo(r)]
  /\ KeepAvatars /\ UNCHANGED <<photo, victim, faults, jobs, job, stale>>

\* One of the two reads throws: nobody awaits the handler.
HandleFails(r) ==
  /\ pc[r] \in {"handling", "handling_user"}
  /\ Fault
  /\ Goto(r, "failed")
  /\ KeepAvatars /\ UNCHANGED <<photo, victim, accountVars>>

---------------------------------------------------------------------------
(* processUserDeletion, and the same steps of the listener                   *)

\* Faulty: the account's new state is taken for the job's.
SaveJobDeleted(r, status) ==
  jobs' = [jobs EXCEPT ![job[r]].status = IF status = "done" THEN "deleted" ELSE status]

\* Faulty: the user's latest job is saved, not this deletion's.
SaveLatestJob(r, status) == jobs' = [jobs EXCEPT ![LatestJob(user[r])].status = status]

SaveJob(r, status) == jobs' = [jobs EXCEPT ![job[r]].status = status]

DeleteStart(r) ==
  /\ pc[r] = "starting"
  /\ SaveJob(r, "in_progress")
  /\ Goto(r, "erasing")
  /\ KeepAvatars /\ UNCHANGED <<photo, victim, faults, job, seen, stale>>

\* Faulty: the row is kept.
DeleteEraseNothing(r) ==
  /\ pc[r] = "erasing"
  /\ victim' = [victim EXCEPT ![r] = seen[r]]
  /\ Goto(r, IF seen[r] = None THEN "closing" ELSE "purging")
  /\ KeepAvatars /\ UNCHANGED <<photo, faults, accountVars>>

\* usersRepository.remove: a row already gone is no error. The avatar to clean up
\* is the one of the entity read at the beginning.
DeleteErase(r) ==
  /\ pc[r] = "erasing"
  /\ photo' = [photo EXCEPT ![user[r]] = Gone]
  /\ victim' = [victim EXCEPT ![r] = seen[r]]
  /\ Goto(r, IF seen[r] = None THEN "closing" ELSE "purging")
  /\ KeepAvatars /\ UNCHANGED <<faults, accountVars>>

\* Saving the job or removing the row throws.
DeleteThrows(r) ==
  /\ pc[r] \in {"starting", "erasing"}
  /\ Fault
  /\ Goto(r, "aborting")
  /\ KeepAvatars /\ UNCHANGED <<photo, victim, accountVars>>

\* Faulty: the outcome is ignored, as uploadAvatar and removeAvatar do.
DeletePurgeUnchecked(r) ==
  /\ \/ RemoveObjectAt(r, "purging", "purge_recording", "closing")
     \/ RecordTaskAt(r, "purge_recording", "closing")
     \/ RecordTaskFailsAt(r, "purge_recording", "closing")
  /\ UNCHANGED accountVars

\* removeUserAvatar: removed or recorded is good, 'failed' throws.
DeletePurge(r) ==
  /\ \/ RemoveObjectAt(r, "purging", "purge_recording", "closing")
     \/ RecordTaskAt(r, "purge_recording", "closing")
     \/ RecordTaskFailsAt(r, "purge_recording", "aborting")
  /\ UNCHANGED accountVars

\* Faulty: the job is saved in the catch clause only.
DeleteCloseUnsaved(r) ==
  /\ pc[r] \in {"closing", "aborting"}
  /\ IF pc[r] = "closing" THEN UNCHANGED jobs ELSE SaveJob(r, "failed")
  /\ Goto(r, IF pc[r] = "closing" THEN "done" ELSE "failed")
  /\ KeepAvatars /\ UNCHANGED <<photo, victim, faults, job, seen, stale>>

\* The finally clause: save the job as done, or as failed after a throw.
DeleteClose(r) ==
  /\ pc[r] \in {"closing", "aborting"}
  /\ SaveJob(r, IF pc[r] = "closing" THEN "done" ELSE "failed")
  /\ Goto(r, IF pc[r] = "closing" THEN "done" ELSE "failed")
  /\ KeepAvatars /\ UNCHANGED <<photo, victim, faults, job, seen, stale>>

DeleteCloseFails(r) ==
  /\ pc[r] \in {"closing", "aborting"}
  /\ Fault
  /\ Goto(r, "failed")
  /\ KeepAvatars /\ UNCHANGED <<photo, victim, accountVars>>

---------------------------------------------------------------------------
(* updateUser and confirmEmailChange                                         *)

UpdateBegin(r) ==
  /\ pc[r] = "idle"
  /\ IF Photo(r) = Gone
       THEN Goto(r, "failed") /\ UNCHANGED seen
       ELSE Goto(r, "saving") /\ seen' = [seen EXCEPT ![r] = Photo(r)]
  /\ KeepAvatars /\ UNCHANGED <<photo, victim, faults, jobs, job, stale>>

\* Forbidden, a conflicting address, or save throws: nothing is written.
UpdateRejected(r) ==
  /\ pc[r] = "saving"
  /\ Goto(r, "failed")
  /\ KeepAvatars /\ UNCHANGED <<photo, victim, faults, accountVars>>

\* repository.save(entity) updates every column whose value in the entity differs
\* from the row, and inserts the entity when the row is gone.
UpdateSave(r) ==
  /\ pc[r] = "saving"
  /\ photo' = [photo EXCEPT ![user[r]] = seen[r]]
  /\ stale' = IF Photo(r) = seen[r] THEN stale ELSE stale \cup {user[r]}
  /\ Goto(r, "done")
  /\ KeepAvatars /\ UNCHANGED <<victim, faults, jobs, job, seen>>

---------------------------------------------------------------------------
Delete(r) ==
  \/ DeleteBegin(r)
  \/ DeleteCheck(r)
  \/ DeleteAuthorize(r)
  \/ DeleteEnqueue(r)
  \/ DeleteEnqueueFails(r)
  \/ HandleFindJob(r)
  \/ HandleFindUser(r)
  \/ HandleFails(r)
  \/ DeleteStart(r)
  \/ DeleteErase(r)
  \/ DeleteThrows(r)
  \/ DeletePurge(r)
  \/ DeleteClose(r)
  \/ DeleteCloseFails(r)

Update(r) ==
  \/ UpdateBegin(r)
  \/ UpdateRejected(r)
  \/ UpdateSave(r)

AvatarRequest(r) ==
  /\ \/ "upload" \in Ops /\ Upload(r)
     \/ "remove" \in Ops /\ Remove(r)
     \/ Cleanup(r)
  /\ UNCHANGED accountVars

AccountRequest(r) ==
  \/ AvatarRequest(r)
  \/ "delete" \in Ops /\ Delete(r)
  \/ "update" \in Ops /\ Update(r)

Background(i) == (Sweep(i) \/ Crash(i)) /\ UNCHANGED accountVars

AccountsNext ==
  \/ \E r \in Requests : AccountRequest(r)
  \/ \E i \in Instances : Background(i)

AccountsSpec == AccountsInit /\ [][AccountsNext]_allVars

\* A request that was accepted is carried through.
AccountsFairSpec ==
  /\ AccountsSpec
  /\ \A r \in Requests : WF_allVars(pc[r] # "idle" /\ AccountRequest(r))

---------------------------------------------------------------------------
(* Properties                                                               *)

Job == [user : Users, mode : Modes, status : Active \cup {"done", "failed"}]

\* A deletion from saving its job to the end of the finally clause.
CarryingOut == {"handling", "handling_user", "starting", "erasing", "purging",
                "purge_recording", "closing", "aborting"}

\* Every variable keeps its type.
AccountsTypeOK ==
  /\ photo \in [Users -> Paths \cup {None, Gone}]
  /\ stored \subseteq Paths
  /\ tasks \subseteq Task
  /\ nextId \in Nat
  /\ pc \in [Requests -> {"idle", "reading", "linking", "unlinking", "removing",
                          "recording", "checking", "authorizing", "enqueuing", "saving"}
                           \cup CarryingOut \cup Ended]
  /\ user \in [Requests -> Users]
  /\ victim \in [Requests -> Paths \cup {None}]
  /\ host \in [Requests -> Instances]
  /\ step \in [Instances -> {"off", "remove", "delete", "save"}]
  /\ batch \in [Instances -> SUBSET Task]
  /\ faults \in 0..MaxFaults
  /\ lost \subseteq Paths
  /\ jobs \in Seq(Job)
  /\ job \in [Requests -> 0..Len(jobs)]
  /\ seen \in [Requests -> Paths \cup {None}]
  /\ stale \subseteq Users

Deleting(r) == job[r] # NoJob

\* The saves of profile updates are the only way an avatar in use loses its
\* object: deletions, uploads and removals that overlap never do that.
PhotoStoredOrStale ==
  \A u \in Users \ stale : photo[u] \in Paths => photo[u] \in stored

\* A deletion job reported as done means the account is erased and stays so; only
\* a profile update that read the user before can bring it back. And "the deletion
\* job is not reported as done while the object may silently remain": the avatar a
\* deletion read is deleted or has a cleanup task when it reports.
DoneMeansErased ==
  /\ \A j \in 1..Len(jobs) :
       jobs[j].status = "done" /\ jobs[j].user \notin stale => photo[jobs[j].user] = Gone
  /\ \A r \in Requests :
       Deleting(r) /\ pc[r] = "closing" /\ seen[r] \in stored =>
         \E t \in tasks : t.path = seen[r]

\* An erased account comes back through no request in flight but a profile update.
ErasedForGood ==
  [][\A u \in Users : photo[u] = Gone /\ photo'[u] # Gone =>
       \E r \in Requests : user[r] = u /\ UpdateSave(r)]_photo

AllSync == \A j \in 1..Len(jobs) : jobs[j].mode = "sync"

CarriesOut(r, j) == job[r] = j /\ pc[r] \in CarryingOut

\* An unfinished job, which refuses every later deletion of its account, is being
\* carried out. Otherwise its process crashed, the save of its outcome failed, or it
\* was started by the event and met another deletion of the account.
JobsAccounted ==
  /\ AccountsTypeOK
  /\ \A j \in 1..Len(jobs) : jobs[j].status \in Active =>
       \/ \E r \in Requests : CarriesOut(r, j)
       \/ faults > 0 /\ \E r \in Requests : job[r] = j /\ pc[r] \in {"failed", "crashed"}
       \/ ~AllSync /\ \E k \in 1..Len(jobs) : k # j /\ jobs[k].user = jobs[j].user

\* A finished job keeps its outcome: overlapping deletions never reopen or
\* overwrite it, as long as all of them run as the controller starts them.
JobOutcomeFinal ==
  [][\A j \in 1..Len(jobs) :
       AllSync /\ jobs[j].status \notin Active => jobs'[j].status = jobs[j].status]_jobs

\* Deletions as the controller starts them end their jobs, whatever profile
\* updates, uploads and other deletions overlap with them, unless there was an
\* error or a crash.
JobsResolve ==
  \A j \in 1..Cardinality(Requests) :
    (j <= Len(jobs)) ~>
      (\/ j <= Len(jobs) /\ jobs[j].status \notin Active
       \/ faults > 0 \/ ~AllSync)

\* "Profile updates never change the current avatar."
ProfileUpdateKeepsAvatar ==
  [][\A r \in Requests : UpdateSave(r) => photo' = photo]_photo

\* "409 Conflict: Target user account is already in a `deleting` or `deleted` state":
\* an account is under one deletion at a time.
OneActiveJob ==
  \A j, k \in 1..Len(jobs) :
    /\ jobs[j].user = jobs[k].user
    /\ jobs[j].status \in Active /\ jobs[k].status \in Active
    => j = k

\* ... and it is answered while the account is being deleted: some request carries
\* out the job that the refusal is about.
ConflictIsHonest ==
  [][\A r \in Requests :
       DeleteCheck(r) /\ pc'[r] = "failed" =>
         \E q \in Requests : CarriesOut(q, LatestJob(user[r]))]_pc

---------------------------------------------------------------------------
(* The inductive invariant.  An upload's key belongs to one profile, and a   *)
(* key that is up for removal is not in that profile's row, unless a profile *)
(* update put it back.  A deletion has a job of its account, and with        *)
(* synchronous deletions only a job has one deletion.                        *)

\* Whoever knows a key, it was linked by an upload to the same profile.
LinkedTo(p, u) == pc[p] \notin Fresh /\ user[p] = u
KeysLinked ==
  /\ \A u \in Users : photo[u] \in Paths => LinkedTo(photo[u], u)
  /\ \A r \in Requests : seen[r] \in Paths => LinkedTo(seen[r], user[r])
  /\ \A r \in Requests : victim[r] \in Paths => LinkedTo(victim[r], user[r])
  /\ \A t \in tasks : pc[t.path] \notin Fresh
  /\ \A i \in Instances : \A t \in batch[i] : pc[t.path] \notin Fresh

\* What is up for removal is in no row, but for the profiles that were set back.
Unlinked(p) == user[p] \in stale \/ photo[user[p]] # p
RemovalsUnlinked ==
  /\ \A r \in Requests : pc[r] \in Cleaning => victim[r] \in Paths /\ Unlinked(victim[r])
  /\ \A t \in tasks : Unlinked(t.path)
  /\ \A i \in Instances : \A t \in batch[i] : Unlinked(t.path)

\* Behind its erase step a deletion has erased the row, and removes the avatar of
\* the entity it read.
PurgesFollowErasure ==
  \A r \in Requests :
    /\ pc[r] \in {"purging", "purge_recording", "closing"} =>
         user[r] \in stale \/ photo[user[r]] = Gone
    /\ pc[r] \in {"purging", "purge_recording"} => victim[r] = seen[r]

AvatarsInv ==
  /\ KeysLinked
  /\ LinkingStored
  /\ RemovalsUnlinked
  /\ TaskIds
  /\ CopiesRetryable
  /\ DeleteAfterRemove
  /\ PhotoStoredOrStale
  /\ PurgesFollowErasure

\* A deletion works on a job of its account, the newest one exists, and two
\* deletions of an account have opened two jobs.
TwoJobs(u) == \E j, k \in JobsOf(u) : j # k
JobsOpened ==
  /\ \A r \in Requests : pc[r] \in CarryingOut => job[r] \in JobsOf(user[r])
  /\ \A u \in Users : JobsOf(u) # {} => \E j \in JobsOf(u) : \A k \in JobsOf(u) : k <= j
  /\ \A r, q \in Requests :
       r # q /\ user[r] = user[q] /\ pc[r] \in CarryingOut /\ pc[q] \in CarryingOut =>
         TwoJobs(user[r])

\* An account that goes away under a deletion is erased by another one.
ErasedByAnother ==
  \A r \in Requests : photo[user[r]] = Gone =>
    /\ pc[r] \in {"checking", "authorizing", "enqueuing"} => JobsOf(user[r]) # {}
    /\ pc[r] \in {"handling", "handling_user"} => TwoJobs(user[r])

\* Only the event handler changes a deletion's job; without it a deletion keeps
\* the job it opened, unfinished, for itself.
OwnJobs ==
  /\ \A r \in Requests : pc[r] \in {"handling", "handling_user"} => ~AllSync
  /\ AllSync => \A r, q \in Requests :
       pc[r] \in CarryingOut =>
         /\ jobs[job[r]].status \in Active
         /\ r # q /\ pc[q] \in CarryingOut => job[r] # job[q]

JobsInv == JobsOpened /\ ErasedByAnother /\ OwnJobs

AccountsInv == JobsAccounted /\ DoneMeansErased /\ AvatarsInv /\ JobsInv
====
