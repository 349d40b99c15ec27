---------------------------- MODULE Avatars ----------------------------
(***************************************************************************)
(* The life cycle of uploaded avatars: AvatarService.uploadAvatar and       *)
(* removeAvatar, AvatarCleanupService.removeObject and the retry sweep of    *)
(* retryPendingCleanups.  A request is a sequence of awaited calls, so one   *)
(* action is what runs between two awaits; every other request, and every    *)
(* instance's sweep, may run in between.                                     *)
(*                                                                         *)
(* The object key is `{userId}/{uuid}.webp' with a fresh uuid per upload, so *)
(* the key is named here by the request that generated it.                   *)
(***************************************************************************)
EXTENDS Naturals, FiniteSets

CONSTANTS
  Users,        \* user ids a request may name
  Requests,     \* the requests of a run; also the keys of the objects they upload
  Instances,    \* the server processes
  None,         \* users.photo is null
  Gone,         \* there is no users row
  MaxAttempts,  \* AVATAR_CLEANUP_MAX_ATTEMPTS
  BatchSize,    \* AVATAR_CLEANUP_BATCH_SIZE
  MaxFaults     \* bound: database errors and crashes in a run

ASSUME ConstantsDistinct ==
  /\ None \notin Requests
  /\ Gone \notin Requests
  /\ None # Gone

ASSUME BoundsAreNaturals ==
  /\ MaxAttempts \in Nat
  /\ BatchSize \in Nat \ {0}
  /\ MaxFaults \in Nat

VARIABLES
  photo,    \* the users table: photo column of each row, Gone without a row
  stored,   \* keys of the objects in the bucket
  tasks,    \* rows of avatar_cleanup_tasks
  nextId,   \* next task id; ids grow with createdAt
  pc,       \* where each request stands
  user,     \* the user each request targets
  victim,   \* the object a request asked removeObject to delete
  host,     \* the instance that serves each request
  step,     \* where each instance's sweep stands, "off" = ~retryInProgress
  batch,    \* the tasks a sweep read and has still to process (its own copies)
  faults,   \* database errors and crashes so far
  lost      \* history: objects the code knowingly gave up (logged, or crashed over)

dbVars      == <<photo, tasks, nextId>>
requestVars == <<pc, user, victim, host>>
sweepVars   == <<step, batch>>
vars == <<photo, stored, tasks, nextId, pc, user, victim, host,
          step, batch, faults, lost>>

Paths == Requests
Fresh == {"idle", "reading", "linking"}     \* an upload whose key no row has held
Cleaning == {"removing", "recording",
             "purging", "purge_recording"}  \* the last two: account deletion
Ended == {"done", "failed", "crashed"}

Task == [id : Nat, path : Paths, attempts : 0..MaxAttempts]

Init ==
  /\ photo \in [Users -> {None, Gone}]
  /\ stored = {}
  /\ tasks = {}
  /\ nextId = 1
  /\ pc = [r \in Requests |-> "idle"]
  /\ user \in [Requests -> Users]
  /\ victim = [r \in Requests |-> None]
  /\ host \in [Requests -> Instances]
  /\ step = [i \in Instances |-> "off"]
  /\ batch = [i \in Instances |-> {}]
  /\ faults = 0
  /\ lost = {}

Goto(r, label) == pc' = [pc EXCEPT ![r] = label]

\* One more database error or crash, while the bound lasts.
Fault == faults < MaxFaults /\ faults' = faults + 1

---------------------------------------------------------------------------
(* removeObject: storage.remove, then, if it reported an error, a task.      *)

\* The storage call. An error may mean the object is still there or that only
\* the answer was lost; both go to the catch branch.
StorageRemove(path, reported) ==
  /\ reported \in {"ok", "error"}
  /\ \/ stored' = stored \ {path}
     \/ reported = "error" /\ UNCHANGED stored

RemoveObjectAt(r, at, catch, return) ==
  /\ pc[r] = at
  /\ \E reported \in {"ok", "error"} :
       /\ StorageRemove(victim[r], reported)
       /\ Goto(r, IF reported = "ok" THEN return ELSE catch)
  /\ UNCHANGED <<dbVars, user, victim, host, sweepVars, faults, lost>>

\* cleanupTaskRepository.create: outcome 'pending'.
RecordTaskAt(r, at, return) ==
  /\ pc[r] = at
  /\ tasks' = tasks \cup {[id |-> nextId, path |-> victim[r], attempts |-> 0]}
  /\ nextId' = nextId + 1
  /\ Goto(r, return)
  /\ UNCHANGED <<photo, stored, user, victim, host, sweepVars, faults, lost>>

\* The task could not be inserted either: outcome 'failed', an error log line.
RecordTaskFailsAt(r, at, return) ==
  /\ pc[r] = at
  /\ Fault
  /\ lost' = lost \cup {victim[r]}
  /\ Goto(r, return)
  /\ UNCHANGED <<dbVars, stored, user, victim, host, sweepVars>>

\* uploadAvatar and removeAvatar ignore the outcome. A request that removes its
\* own object is rolling back and rethrows, or answers 404; the others answer 200.
Answer(r) == IF victim[r] = r THEN "failed" ELSE "done"

RemoveObject(r) == RemoveObjectAt(r, "removing", "recording", Answer(r))
RecordTask(r) == RecordTaskAt(r, "recording", Answer(r))
RecordTaskFails(r) == RecordTaskFailsAt(r, "recording", Answer(r))

---------------------------------------------------------------------------
(* uploadAvatar                                                             *)

\* findAuthorizedUser: 403 for another user's profile, 404 without a row.
FindAuthorizedUser(r, next) ==
  /\ pc[r] = "idle"
  /\ \E authorized \in BOOLEAN :
       Goto(r, IF authorized /\ photo[user[r]] # Gone THEN next ELSE "failed")
  /\ UNCHANGED <<dbVars, stored, user, victim, host, sweepVars, faults, lost>>

UploadBegin(r) == FindAuthorizedUser(r, "reading")

\* readFile or imageProcessor.process throws: nothing has been stored yet.
UploadRejected(r) ==
  /\ pc[r] = "reading"
  /\ Goto(r, "failed")
  /\ UNCHANGED <<dbVars, stored, user, victim, host, sweepVars, faults, lost>>

UploadStore(r) ==
  /\ pc[r] = "reading"
  /\ stored' = stored \cup {r}
  /\ Goto(r, "linking")
  /\ UNCHANGED <<dbVars, user, victim, host, sweepVars, faults, lost>>

\* Faulty: the error of storage.upload is not looked at.
UploadStoreUnchecked(r) ==
  /\ pc[r] = "reading"
  /\ Goto(r, "linking")
  /\ UNCHANGED <<dbVars, stored, user, victim, host, sweepVars, faults, lost>>

\* storage.upload reports an error and the request answers 500. When only the
\* answer was lost the object is there, and nothing will look for it.
UploadStoreFails(r) ==
  /\ pc[r] = "reading"
  /\ \/ UNCHANGED <<stored, lost>>
     \/ stored' = stored \cup {r} /\ lost' = lost \cup {r}
  /\ Goto(r, "failed")
  /\ UNCHANGED <<dbVars, user, victim, host, sweepVars, faults>>

\* The transaction of updateAvatar: lock the row, write the new value, report
\* the value read under the lock.
UpdateAvatar(r, value) == photo' = [photo EXCEPT ![user[r]] = value]

\* Ask removeObject for the value updateAvatar reported, unless it is null.
CleanUpPrevious(r, previous) ==
  /\ victim' = [victim EXCEPT ![r] = previous]
  /\ Goto(r, IF previous = None THEN "done" ELSE "removing")

\* Faulty: updateAvatar saves the entity, inserting the row when it is gone.
UploadLinkUpsert(r) ==
  /\ pc[r] = "linking"
  /\ UpdateAvatar(r, r)
  /\ CleanUpPrevious(r, IF photo[user[r]] = Gone THEN None ELSE photo[user[r]])
  /\ UNCHANGED <<stored, tasks, nextId, user, host, sweepVars, faults, lost>>

UploadLink(r) ==
  /\ pc[r] = "linking"
  /\ photo[user[r]] # Gone
  /\ UpdateAvatar(r, r)
  /\ CleanUpPrevious(r, IF photo[user[r]] = r THEN None ELSE photo[user[r]])
  /\ UNCHANGED <<stored, tasks, nextId, user, host, sweepVars, faults, lost>>

\* Faulty: updateAvatar is no transaction and throws after the row was written.
UploadLinkFailsLate(r) ==
  /\ pc[r] = "linking"
  /\ Fault
  /\ UpdateAvatar(r, r)
  /\ victim' = [victim EXCEPT ![r] = r]
  /\ Goto(r, "removing")
  /\ UNCHANGED <<tasks, nextId, stored, user, host, sweepVars, lost>>

\* updateAvatar found no row (the account went away), or threw: roll back.
UploadLinkFails(r) ==
  /\ pc[r] = "linking"
  /\ \/ photo[user[r]] = Gone /\ UNCHANGED faults
     \/ Fault
  /\ victim' = [victim EXCEPT ![r] = r]
  /\ Goto(r, "removing")
  /\ UNCHANGED <<dbVars, stored, user, host, sweepVars, lost>>

---------------------------------------------------------------------------
(* removeAvatar                                                             *)

RemoveBegin(r) == FindAuthorizedUser(r, "unlinking")

\* Faulty: the object is given up for removal and the row keeps its path.
RemoveUnlinkNothing(r) ==
  /\ pc[r] = "unlinking"
  /\ photo[user[r]] # Gone
  /\ CleanUpPrevious(r, photo[user[r]])
  /\ UNCHANGED <<dbVars, stored, user, host, sweepVars, faults, lost>>

RemoveUnlink(r) ==
  /\ pc[r] = "unlinking"
  /\ photo[user[r]] # Gone
  /\ UpdateAvatar(r, None)
  /\ CleanUpPrevious(r, photo[user[r]])
  /\ UNCHANGED <<stored, tasks, nextId, user, host, sweepVars, faults, lost>>

RemoveUnlinkFails(r) ==
  /\ pc[r] = "unlinking"
  /\ \/ photo[user[r]] = Gone /\ UNCHANGED faults
     \/ Fault
  /\ Goto(r, "failed")
  /\ UNCHANGED <<dbVars, stored, user, victim, host, sweepVars, lost>>

---------------------------------------------------------------------------
(* retryPendingCleanups                                                     *)

\* findRetryable: at most BatchSize tasks with attempts left, oldest first.
Retryable == {t \in tasks : t.attempts < MaxAttempts}
FindRetryable ==
  {t \in Retryable : Cardinality({o \in Retryable : o.id < t.id}) < BatchSize}

SweepStart(i) ==
  /\ step[i] = "off"
  /\ batch' = [batch EXCEPT ![i] = FindRetryable]
  /\ step' = [step EXCEPT ![i] = IF FindRetryable = {} THEN "off" ELSE "remove"]
  /\ UNCHANGED <<dbVars, stored, requestVars, faults, lost>>

\* The for loop is at task t of its batch.
At(i, label, t) == step[i] = label /\ \A o \in batch[i] : t.id <= o.id

\* On to the next task of the batch; `finally' clears the flag after the last.
Advance(i, t) ==
  /\ batch' = [batch EXCEPT ![i] = @ \ {t}]
  /\ step' = [step EXCEPT ![i] = IF batch[i] = {t} THEN "off" ELSE "remove"]

\* Faulty: the error of storage.remove is not looked at.
SweepRemoveUnchecked(i, t) ==
  /\ At(i, "remove", t)
  /\ \E reported \in {"ok", "error"} : StorageRemove(t.path, reported)
  /\ step' = [step EXCEPT ![i] = "delete"]
  /\ UNCHANGED <<dbVars, requestVars, batch, faults, lost>>

SweepRemove(i, t) ==
  /\ At(i, "remove", t)
  /\ \E reported \in {"ok", "error"} :
       /\ StorageRemove(t.path, reported)
       /\ step' = [step EXCEPT ![i] = IF reported = "ok" THEN "delete" ELSE "save"]
  /\ UNCHANGED <<dbVars, requestVars, batch, faults, lost>>

Others(id) == {t \in tasks : t.id # id}

SweepDelete(i, t) ==
  /\ At(i, "delete", t)
  /\ tasks' = Others(t.id)
  /\ Advance(i, t)
  /\ UNCHANGED <<photo, nextId, stored, requestVars, faults, lost>>

\* The catch branch also takes a failed delete for a failed removal.
SweepDeleteFails(i) ==
  /\ step[i] = "delete"
  /\ Fault
  /\ step' = [step EXCEPT ![i] = "save"]
  /\ UNCHANGED <<dbVars, stored, requestVars, batch, lost>>

\* Faulty: a task that has used up its attempts starts over.
SweepSaveStartOver(i, t) ==
  /\ At(i, "save", t)
  /\ tasks' = Others(t.id) \cup {[t EXCEPT !.attempts = (@ + 1) % MaxAttempts]}
  /\ Advance(i, t)
  /\ UNCHANGED <<photo, nextId, stored, requestVars, faults, lost>>

\* repository.save writes the sweep's own copy, inserting it again when another
\* instance has deleted the row meanwhile.
SweepSave(i, t) ==
  /\ At(i, "save", t)
  /\ tasks' = Others(t.id) \cup {[t EXCEPT !.attempts = @ + 1]}
  /\ Advance(i, t)
  /\ UNCHANGED <<photo, nextId, stored, requestVars, faults, lost>>

\* Faulty: without a finally clause the flag stays set.
SweepSaveFailsBusy(i) ==
  /\ step[i] = "save"
  /\ Fault
  /\ batch' = [batch EXCEPT ![i] = {}]
  /\ UNCHANGED <<step, dbVars, stored, requestVars, lost>>

\* save throws: the outer catch logs and the rest of the batch waits.
SweepSaveFails(i) ==
  /\ step[i] = "save"
  /\ Fault
  /\ batch' = [batch EXCEPT ![i] = {}]
  /\ step' = [step EXCEPT ![i] = "off"]
  /\ UNCHANGED <<dbVars, stored, requestVars, lost>>

---------------------------------------------------------------------------
\* The object a request in flight is the only one to know of.
Held(r) ==
  IF pc[r] = "linking" THEN {r}
  ELSE IF pc[r] \in Cleaning THEN {victim[r]}
  ELSE {}

InFlight(i) == {r \in Requests : host[r] = i /\ pc[r] \notin Ended \cup {"idle"}}

\* An instance dies and restarts: its requests and its sweep are forgotten.
Crash(i) ==
  /\ Fault
  /\ InFlight(i) # {} \/ step[i] # "off"
  /\ pc' = [r \in Requests |-> IF r \in InFlight(i) THEN "crashed" ELSE pc[r]]
  /\ lost' = lost \cup UNION {Held(r) : r \in InFlight(i)}
  /\ batch' = [batch EXCEPT ![i] = {}]
  /\ step' = [step EXCEPT ![i] = "off"]
  /\ UNCHANGED <<dbVars, stored, user, victim, host>>

Upload(r) ==
  \/ UploadBegin(r)
  \/ UploadRejected(r)
  \/ UploadStore(r)
  \/ UploadStoreFails(r)
  \/ UploadLink(r)
  \/ UploadLinkFails(r)

Remove(r) ==
  \/ RemoveBegin(r)
  \/ RemoveUnlink(r)
  \/ RemoveUnlinkFails(r)

Cleanup(r) ==
  \/ RemoveObject(r)
  \/ RecordTask(r)
  \/ RecordTaskFails(r)

Sweep(i) ==
  \/ SweepStart(i)
  \/ \E t \in batch[i] : SweepRemove(i, t) \/ SweepDelete(i, t) \/ SweepSave(i, t)
  \/ SweepDeleteFails(i)
  \/ SweepSaveFails(i)

Next ==
  \/ \E r \in Requests : Upload(r) \/ Remove(r) \/ Cleanup(r)
  \/ \E i \in Instances : Sweep(i) \/ Crash(i)

Spec == Init /\ [][Next]_vars

\* Calls in flight are answered and the cron fires; nobody has to send a request.
Fairness ==
  /\ \A r \in Requests : WF_vars(pc[r] # "idle" /\ (Upload(r) \/ Remove(r) \/ Cleanup(r)))
  /\ \A i \in Instances : WF_vars(Sweep(i))

FairSpec == Spec /\ Fairness

---------------------------------------------------------------------------
(* Properties                                                               *)

\* Every variable keeps its type; a task is read, retried and saved with an
\* attempt count between 0 and AVATAR_CLEANUP_MAX_ATTEMPTS.
TypeOK ==
  /\ photo \in [Users -> Paths \cup {None, Gone}]
  /\ stored \subseteq Paths
  /\ tasks \subseteq Task
  /\ nextId \in Nat
  /\ pc \in [Requests -> {"idle", "reading", "linking", "unlinking",
                          "removing", "recording"} \cup Ended]
  /\ user \in [Requests -> Users]
  /\ victim \in [Requests -> Paths \cup {None}]
  /\ host \in [Requests -> Instances]
  /\ step \in [Instances -> {"off", "remove", "delete", "save"}]
  /\ batch \in [Instances -> SUBSET Task]
  /\ faults \in 0..MaxFaults
  /\ lost \subseteq Paths

\* The path in users.photo always names an object of the bucket: no interleaving
\* of replacements, removals, rollbacks and retries deletes an avatar in use.
PhotoStored == \A u \in Users : photo[u] \in Paths => photo[u] \in stored

\* No object in the bucket is forgotten: it is some row's avatar, in the hands of
\* a request, the subject of a cleanup task, or was given up in the log.
NothingForgotten ==
  \A p \in stored :
    \/ \E u \in Users : photo[u] = p
    \/ \E r \in Requests : p \in Held(r)
    \/ \E t \in tasks : t.path = p
    \/ p \in lost

\* "Each replaced object is reported to exactly one caller for cleanup": the row
\* lock of updateAvatar keeps two requests from holding one object.
OneCallerPerObject ==
  \A r1, r2 \in Requests : r1 # r2 => Held(r1) \cap Held(r2) = {}

\* An upload that answered an error is nobody's avatar, and never becomes it.
FailedUploadNotShown ==
  \A r \in Requests : pc[r] = "failed" => \A u \in Users : photo[u] # r

\* Ten failures end a task's retries, although every process sweeps the same tasks
\* and saves its own copy of them: a slower sweep may set a count back or insert a
\* task again that was done, but not for ever.
Retrying(n) == \E t \in tasks : t.id = n /\ t.attempts < MaxAttempts
RetriesEnd == \A n \in 1..Cardinality(Requests) : <>[]~Retrying(n)

\* "Retried every 10 minutes, up to 10 attempts. Rows that stay behind with attempts
\* >= 10 need manual follow-up": the sweeps leave such a row as it is.
ExhaustedStays == [][\A t \in tasks : t.attempts = MaxAttempts => t \in tasks']_tasks

\* An object nobody uses is eventually deleted, or its task runs out of attempts,
\* or it was given up in the log: requests and sweeps together leave nothing
\* waiting for ever.
Unused(p) == p \in stored /\ \A u \in Users : photo[u] # p
Settled(p) ==
  \/ ~Unused(p)
  \/ p \in lost
  \/ \E t \in tasks : t.path = p /\ t.attempts = MaxAttempts
UnusedObjectsSettle == \A p \in Paths : Unused(p) ~> Settled(p)

\* What a reader sees: a path without its object is a broken image.
Broken == "broken image"
ShownPhoto == [u \in Users |->
                 IF photo[u] \in Paths /\ photo[u] \notin stored THEN Broken ELSE photo[u]]
PendingUploads == {r \in Requests : pc[r] \in Fresh}

Slot == INSTANCE AvatarSlot WITH
          Uploads <- Requests, Empty <- {None, Gone},
          shown <- ShownPhoto, pending <- PendingUploads

\* The requests, sweeps and crashes above implement the slot a reader is promised:
\* what a profile shows changes only to a fresh upload or to nothing.
SlotSpec == Slot!Spec

---------------------------------------------------------------------------
\* The inductive invariant.  An upload's key goes one way: Fresh while no row has
\* held it, then in use by one row, then unused for ever.  Only unused keys are
\* handed to storage.remove, and the keys of tasks and batches are unused.

Linked == {"removing", "recording", "done", "crashed"}

InUse(p) == \E u \in Users : photo[u] = p
Retired(p) == p \in Paths /\ pc[p] \notin Fresh /\ ~InUse(p)

\* A path in a row has its object, comes from an upload past its linking step
\* that has not failed, and is in one row only.
PhotosLinked ==
  \A u \in Users : photo[u] \in Paths =>
    /\ photo[u] \in stored
    /\ pc[photo[u]] \in Linked
    /\ \A w \in Users : photo[w] = photo[u] => w = u

\* Between the upload and the row's update the object is in the bucket.
LinkingStored == \A r \in Requests : pc[r] = "linking" => r \in stored

\* What removeObject works on is retired.
VictimsRetired == \A r \in Requests : pc[r] \in Cleaning => Retired(victim[r])

\* No two requests clean up one object.
VictimsDistinct ==
  \A r1, r2 \in Requests :
    pc[r1] \in Cleaning /\ pc[r2] \in Cleaning /\ victim[r1] = victim[r2] => r1 = r2

\* Tasks, and the sweeps' copies of them, name retired objects only.
TasksRetired ==
  /\ \A t \in tasks : Retired(t.path)
  /\ \A i \in Instances : \A t \in batch[i] : Retired(t.path)

\* Task ids are handed out in order, and a task and its copies agree on the path.
TaskIds ==
  /\ \A t \in tasks : t.id < nextId
  /\ \A i \in Instances : \A t \in batch[i] : t.id < nextId
  /\ \A t, s \in tasks : t.id = s.id => t.path = s.path
  /\ \A i \in Instances : \A t \in batch[i], s \in tasks : t.id = s.id => t.path = s.path
  /\ \A i, j \in Instances : \A t \in batch[i], s \in batch[j] :
       t.id = s.id => t.path = s.path

\* Copies were read as retryable: another attempt stays within MaxAttempts.
CopiesRetryable ==
  \A i \in Instances : \A t \in batch[i] : t.attempts < MaxAttempts

\* When a sweep is about to delete a task, the task's object is gone.
DeleteAfterRemove ==
  \A i \in Instances : \A t \in batch[i] : At(i, "delete", t) => t.path \notin stored

IInv ==
  /\ TypeOK
  /\ PhotosLinked
  /\ LinkingStored
  /\ VictimsRetired
  /\ VictimsDistinct
  /\ TasksRetired
  /\ TaskIds
  /\ CopiesRetryable
  /\ DeleteAfterRemove
  /\ NothingForgotten
====
