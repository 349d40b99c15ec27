# Verification of backend-training

TLA+ models of the NestJS back end in this repository (users, avatars, sign-up,
verification codes, access control, settings, file conversion), TLC runs that
check them on small instances, and TLAPS proofs about all of them. Paths below are
relative to the repository; `src/modules/` is left off where the file name is clear.

## How to run

    tlc -workers 2 -config Avatars.cfg MCAvatars     # any run: <cfg> <module>
    tlapm ConversionProof.tla                        # any *Proof module

`PROJECT.json` lists the runs, what each property guards against (`hazards`), which
lines each definition translates (`map`), and for each property of a passing run a
plausible bug that TLC finds with it (`mutants`: operators commented `Faulty:`
in the modules, which `Next` never uses). A cfg whose name has a suffix
(`Pages_sort.cfg`) belongs to the MC module of its prefix; see "Findings".

## The system

One Fastify/NestJS application, meant to run as several processes, over one
PostgreSQL database (TypeORM), a Supabase bucket, a local directory `uploads/`, a
mail server and a pool of conversion workers. There are no transactions except in
`updateAvatar`, no locks except its row lock (and those of the transaction in which
TypeORM saves several entities at once), and no queue: a request is a chain of
awaited calls, and between two awaits anything else may run. That is the unit of
the models: **one action is what the code does between two awaits.**

| Component | State | Operations | What is hard | What makes it correct |
|---|---|---|---|---|
| Avatars (`users/application/avatar*.service.ts`, storage, cleanup tasks, cron) | `users.photo`, bucket, `avatar_cleanup_tasks`, one sweep flag per process | upload, remove, `removeObject`, `retryPendingCleanups` | three stores without a transaction, lost answers, crashes, several sweeps | no avatar in use is deleted; no object is forgotten; unused objects are deleted or given up in the end |
| Avatar input (`avatar-upload.reader.ts`, `sharp-avatar-image.processor.ts`) | the parts of one body | `readAvatarUpload`, `process` | parts in any order, four limits, two formats of one file | exactly the bodies with one good image are accepted, the others get the listed status |
| Accounts (`users.service.ts`, deletion jobs, deletion listener) | `users`, `user_deletion_jobs` | `deleteUser` (direct and by event), `processUserDeletion`, `updateUser`, `confirmEmailChange` | entities read some awaits before they are saved | a job reported as done erased the account and dealt with its avatar; jobs end |
| Verification codes (`verification/`) | `verification_tokens` | `createVerificationRecord`, `verifyOtp`, expiry | find, compare and save are separate | a code is accepted once, five wrong ones at most, one open challenge per user and purpose; overlapping calls break this by no more than their saves over newer rows |
| Sign-up, sign-in, addresses (`auth/`, `users.service.ts`) | `users.email/status/isVerified`, `verification_tokens`, cookies | `signUp`, `verifyRegistration`, `signIn`, `verifyLogin`, `createUser`, `updateUser`, the e-mail change | checks that another request makes stale, a setting that is switched meanwhile | one owner per address; verified addresses were proved; a sign-up leaves a way in |
| Settings (`settings/`) | `system_settings` | the two readers, PATCH | rows read outside the transaction that writes them, row locks, nulls | a PATCH is saved as a whole or not at all, its answer shows it, none waits for ever |
| Access-control cache (`rbac-cache.service.ts`) | one copy of the grants per process | boot, `rbac.changed`, `reloadCache`, `hasPermission` | overlapping and failing reloads, restarts | decides by the changes it served and what was committed before it booted |
| Roles, permissions, grants (`rbac/application/*.service.ts`) | `roles`, `permissions`, `grants` | create, update, remove of each | check, then write, without a transaction | no dangling or double grant, no action never offered; the cache agrees with the tables |
| Conversion requests (`conversion.service.ts`, `piscina-conversion.engine.ts`, `conversion.worker.ts`) | one request's input, pool, timer | `convertMultipartRequest`, `convert` | parts in any order, a timer that fires anywhere, a shared pool, a save that fails half way | every request is answered, by what its body said; the history tells what happened |
| Conversion history (`history-cleanup.service.ts`, `local-file.storage.ts`) | `uploads/`, `converted_file`, `file_conversion_history` | saving, download, nightly cleanup | a file and two rows written one by one; a cleanup in every process at midnight | results last until they expire, then everything goes |
| Cursor lists (`getUsers`, `getHistory`) | a client's cursor | the next page | rows come and go; filters and cursor share one WHERE | nothing shown twice, nothing left out |

Interactions: upload, removal, deletion and profile updates share `users`
(Accounts composes them with Avatars). Deletion, sign-up, login and e-mail change
all use the verification service. Sign-up and login ask the settings. Services
announce changes to the cache by an event inside the process. A conversion leaves
its file and rows to downloads and the cleanup. Deleting an account deletes its
challenges (foreign key).

Not modelled, and why:
- Controllers, DTOs, configuration, health checks and throttling: stateless
  routing and validation, or framework set-up. Their guards stand in the services'
  actions (`AuthGuard` in SignUp, `RbacGuard` in `HasPermission`).
- Database set-up and migrations: schema. Constraints stand where they matter
  (unique address, foreign keys of challenges, grants and `file_id`).
- What sharp and the parsers do with bytes: the models keep whether they accept a
  buffer. The workers' choices around them are in Conversion and AvatarInput.
- `refresh` and `logout` change nothing on the server: no token is stored or looked
  up, and a refreshed one copies the roles of the old one. So nothing revokes the
  sessions of a deleted account (`specs/07-user-deletion/spec.md:27` asks for it).
- The password-reset setting is stored and reported, and read by nothing.
- `PiscinaConversionEngine.onModuleDestroy`: `main.ts` enables no shutdown hooks.

## Modules

- **Avatars** - `photo`, `stored`, `tasks` are the three stores; `pc` is the await
  a request stands at, `victim` the argument of `removeObject`, `host` its process,
  `step` and `batch` the sweep of a process. An object key has a fresh uuid, so it
  is named by the request that made it. `StorageRemove` may report an error although
  the object is gone.
- **AvatarSlot** - the abstract specification: a profile shows an upload or nothing,
  a fresh upload replaces whatever was there, once. `Avatars!SlotSpec` is the
  refinement mapping; a path without its object maps to a `Broken` image.
- **AvatarInput** - the body an upload is read from: the loop over its parts, the
  limits given to the multipart parser, the declared and the actual format; a request
  of another media type has no body that is read (`OtherBody`).
- **Accounts** EXTENDS Avatars with deletions and profile updates; `seen` is the
  photo of the entity a request read, `stale` marks users whose row a save set back.
- **Verification** - both steps of creating a challenge, the three of `verifyOtp`,
  expiry; all calls may overlap. `attempts` is the column, `read` a call's copy of it.
  Two history variables record what overlap does: `overran`, the calls that saved over
  a row changed since they read it, and `crossed`, the challenges created between the
  two statements of another call. Digits and hash of a code are abstracted to whether
  it matches.
- **OneTimeCode** - what that service promises, each operation in one step;
  `Disturb` is what a save over a newer row may do to the one challenge it saves, and
  it voids the promise for that one only. `Verification!CodeSpec` maps onto it.
- **SignUp** - an account is named by the request that made it; `copy` is the entity
  or address a request goes on with. A challenge is created, and its code checked,
  in one step: Verification has the statements. `proved` is a history variable:
  pairs of account and address that a code confirmed, or that an administrator or
  the switched-off setting vouched for.
- **Settings** - `table` has the committed rows, `found` what a PATCH read before its
  transaction; `todo` and `locked` are the transaction, statement by statement.
- **RbacCache** - the configuration is a number, that of the changes committed; a
  reload has a query, a snapshot and an answer, and answers come in any order. Two
  history variables: `landed`, the reload whose answer came last, and `owed`, the
  newest change a process served or found committed when it booted.
- **RbacRegistry** has the real rows: each service reads, checks and writes;
  `BuildCache` is the map of `reloadCache` and `HasPermission` its reader. There a
  reload is one step in one process.
- **Conversion** - a request reads its parts one by one into `input`, waits for a
  thread of `pool`, and is answered by its worker, its timer or an error; then the
  save and the history item. `Outcome` maps it onto History.
- **History** - `disk`, `rowAt`, `itemAt`, `linked` are the stores, `step` the
  nightly cleanup of each process, `view` a download; `savedAt` is a history
  variable, when an item was recorded with its file.
- **Pages** - `Filter`, `Precedes`, `Take`, `EncodeCursor` are the query of a page
  and its cursor for both lists; ticks finer than a millisecond stand for the
  microseconds that `toISOString` drops.
- `MC*` instantiate them. `*Proof` hold the theorems; the inductive invariant they
  use stands at the end of the component's module. Components that belong together
  share a proof module and have names of their own in it: AccountsProof extends
  Accounts, with Avatars, and AvatarInput (`InputSpec`, `InputInv`), RbacRegistryProof
  extends RbacRegistry and RbacCache (`CacheSpec`, `CacheInv`).

Conventions of the translation: `repository.save(entity)` loads the row, writes the
columns that differ, and inserts the entity when the row is gone, in one step;
`remove` of a missing row is no error; a statement that throws changed nothing (a
commit whose answer is lost is not modelled, except for the bucket); a bcrypt
comparison belongs to the save after it. Audit logs and messages are left out.

## Runs

| Run | Instance | What it shows |
|---|---|---|
| `avatars` | 3 requests of one profile at one process, 2 processes that sweep, 2 attempts, batch 1, 2 errors or crashes | safety of uploads, removals and sweeps, the inductive invariant, the refinement of AvatarSlot, that retries end and unused objects settle |
| `accounts` | 3 requests among upload, remove, delete, update; both modes; 1 error or crash | what a finished deletion means; only a stale profile save undoes it; jobs of direct deletions end |
| `accounts_stale_update` (violation) | 3 requests, no errors | `updateUser` puts an old photo back over a new upload |
| `verification` | 5 calls, 2 subjects, overlapping as they like, 2 attempts, 1 error | confirmations and wrong codes stay within one plus the saves over newer rows, the inductive invariant, closed challenges stay closed, the refinement of OneTimeCode |
| `signup` | 3 calls, an account that was there before, 3 addresses, 1 mail not sent | one owner per address, proved addresses, answered sign-ups |
| `settings` | 2 PATCHes of 2 keys, every value (null and absent, too) over every content of the rows, 1 error | all or nothing, truthful answers, no deadlock |
| `rbac_cache` | 2 processes, 3 changes, 2 errors, 1 crash, answers in any order | a process whose newest reload was answered last knows its own changes and those before its boot; it comes to that for good |
| `rbac_registry` | 3 calls, 2 roles, 1 permission, 2 names, 2 actions, one grant that was there before | uniqueness and reference of grants; only offered actions; the cache agrees |
| `conversion` | 1 request, every body of up to 3 parts out of 25, 1 thread, limits 1 (bytes) and 2 (pixels, quality), 2 errors | the answer follows the body as far as code and specs agree, the pool is left clean, the history is truthful, the refinement of History, an answer comes |
| `history` | 1 conversion, 1 download, 2 processes, retention 1, clock to 3, 2 errors or crashes | results kept, downloads served, files tracked, the rest purged |
| `pages` | 4 ids, pages of 2, both lists with and without a filter | no repeats, completeness |
| `avatar_input` | every body of up to 5 parts, 2 ignored fields, size limit 2 | accepted exactly when it should be, and the right status otherwise |

Why the bounds are enough: the hazards are races of two writers with a third
operation that reveals them (a reader, a sweep, a later sign-up), so three requests
on one profile or pair hold them; separate profiles share nothing but the task
batch. Two attempts separate "first", "retried" and "given up"; a batch of one
leaves a second task waiting behind the first, and two processes sweep the same
task. Two errors allow the failure of a clean-up of a failure. `verification` needs
a challenge, its replacement and three guesses, two of which overlap: five calls
with two attempts. `rbac_cache` needs two reloads of one process that overtake each
other and another process with a change of its own. `signup` needs three addresses
for two accounts and one free address to change to. `settings` needs two PATCHes
with a common and another key for rows locked in two orders. Three parts make a body
that is complete (a file, its target, and one that overrides or breaks either); that
two requests share one thread is `Conversion_pool.cfg`: it checks `IInv` and
`Answered` with one error, passes, too, and takes about a minute. Retention 1 and a
clock to 3 let an item be young, at the limit, expired, and cleaned twice. Pages of
2 among 4 rows give full, partial and following pages. Five parts pass the limit of
two fields and of one file (and so the limit of parts). The bounds are in the guards
(`Fault`, `Tick`, `Insert`, `MaxParts`) and the cfgs.

In `avatars` one process serves all requests (`Server`), so that a crash ends those
in flight together, and both processes sweep. The safety properties are proved for
any number of processes and any `host`; that retries end and unused objects settle
is checked for one server.

Symmetry is used in `verification`, `rbac_registry` and `signup`, where no liveness
is checked. `signup` also has a VIEW that drops the entity of a call that is over.
CHECK_DEADLOCK is off where requests run out (`verification`, `rbac_*`, `signup`,
`settings`, `conversion`, `avatar_input`, `pages`); elsewhere sweeps and cleanups
run for ever and deadlock is checked.

**Fairness.** Avatars and Accounts: a request that was accepted goes on (an awaited
call returns or throws); Avatars also: the cron fires its sweep. Nobody has to send
a request; errors and crashes are never forced. RbacCache: a query is answered, a
process is started again, and a committed change is emitted, which is the next
statement of the service. History: the cron fires at midnight and a cleanup goes on
to its end. Conversion: the timer fires and the history insert returns; in `FairSpec`
the disk and the row of the file answer, too. No fairness for the client, the
worker or the start of a task: the code does not bound them, and `Answered` must
not need it. Settings: the statements of a PATCH go on, those that wait for a row
lock as soon as it is free. Pages: the client follows the cursor (needed by no
property of its runs). JobsResolve excepts runs with an error or a crash, and
deletions by event: nothing in the code reopens a job left in progress.

Assumptions worth knowing:
- `lost` holds the objects and files that the code gives up and only logs (a rollback
  or unlink that failed), and what a crash leaves behind. `NothingForgotten` and
  `FilesTracked` take them as accounted for: the properties say that nothing else is
  left behind, not that these are cleaned up.
- Overlapping calls about one challenge: `SingleUse` and "max 5 attempts" do not hold
  then (see Findings). `UsesBounded` says what is left: each save over a newer row gives
  away one confirmation, or `MAX_ATTEMPTS` wrong codes, at most.
- `OwnChangesKnown` and `Converges` say nothing of a process whose newest reload failed
  or was overtaken by an older answer, nor of changes that other processes served
  later: nothing in the code repairs either (see Findings).
- `RetriesEnd` says that the retries of a task come to an end although several sweeps
  save their own copies of it, not that its count never falls: it does.
- `AnswerFollowsBody` accepts either answer where the code and the specs differ: an
  unknown target (415 or 400), a source without a known type or extension (415 or what
  its content calls for), equal formats (200 or 400).
- `history` assumes that a conversion ends within a tick of the retention period.
- `pages` takes rows created in different milliseconds (`Apart`) and the default
  sort; the rest is in the cfgs below.
- `signup` takes a PATCH that marks an account as verified as vouching for its
  address, the user's own included: the code writes `isVerified` and `status` for
  everyone, where `specs/06-user-profile-update/spec.md:30,76` asks for a list of
  writable fields by role.

## Findings

The run `accounts_stale_update`: `updateUser` (`users.service.ts:309`) saves the
entity it read at 251: an avatar uploaded in between is undone, and its
predecessor, whose object is already deleted, is shown again. `README.md:84`:
"profile updates never change the current avatar".

Other disagreements, each with a cfg that TLC refutes (`tlc -config X.cfg MC...`;
add `-continue` where a cfg has several properties):

| cfg | Property | Code | What it disagrees with |
|---|---|---|---|
| `Accounts_orphaned_upload` | NothingForgotten | a deletion (`users.service.ts:563`) cleans up the photo it read at 435; one uploaded since stays in the bucket for ever | `specs/07-user-deletion/spec.md:31`: "Delete user-uploaded assets (including Supabase-hosted avatars) from storage." |
| `Accounts_jobs` | OneActiveJob | two deletions both find no active job (`users.service.ts:451`) | `specs/07-user-deletion/spec.md:47`: "409 Conflict: Target user account is already in a `deleting` or `deleted` state" |
| `Accounts_jobs` | ConflictIsHonest | after a crash the job stays in progress and nothing works on it; every deletion answers 409 (`users.service.ts:455`) | the same line |
| `Verification_double_use` | SingleUse | two `verifyOtp` calls both accept one code (`verification.service.ts:125`) | `specs/06-user-profile-update/spec.md:57`: "Invalidate the challenge token immediately." |
| `SignUp_pending` | PendingHasAWayIn | a sign-up whose mail fails (`auth.service.ts:109`) keeps its address; nothing resends a code | `specs/01-registration/spec.md:36`: "60-second resend rate limit" |
| `Avatars_two_sweeps` | ExhaustedStays | a sweep saves the copy it read (`avatar-cleanup.service.ts:165`): the slower of two sets a count back that has reached the limit, or the faster deletes a task the other gave up | `README.md:103`: "Rows that stay behind with `attempts >= 10` need manual follow-up" |
| `RbacCache_overtaken` | ReachesAll | of two reloads of one process the older may be answered last, and replaces the newer copy (`rbac-cache.service.ts:58`) | `specs/02-rbac/spec.md:62`: "Dynamic reload of active access configuration across application instances." |
| `RbacCache_two` | ReachesAll | a change is announced inside its own process (`rbac-events.adapter.ts:9`) | the same line |
| `Pages_search` | NoRepeats | conditions with OR are joined without brackets (`typeorm-user.repository.ts:47`), so rows that match by address pass the cursor | `specs/08-admin-user-list/spec.md:17`: "Pagination cursor for deterministic page loading" |
| `Pages_sort` | Complete | sorted by another column, the cursor still compares `createdAt` (`typeorm-user.repository.ts:57,65`) | the same line |
| `Pages_millis` | Complete | the cursor is cut to the millisecond (`users.service.ts:404`): rows that share one are skipped or repeated | the same line |
| `Conversion_slow_disk` | Answered | the answer waits for the save (`conversion.service.ts:369`), which no timer bounds | `specs/12-transformation-storage/spec.md:24`: the storage operation must not block or delay the response |
| `Conversion_specs` | PairOffered | equal formats return the file as it is, with 200, whatever it holds (`conversion.service.ts:315`) | `specs/09-data-file-transformation/spec.md:33`: "The requested source → target conversion pair must be valid", and 34: "Source file must be syntactically valid UTF-8/BOM-handled structured data." |
| `Conversion_specs` | UnknownTargetIsInvalid | a target format that there is not is answered with 415 (`conversion.service.ts:296`; `conversion.service.spec.ts:709` expects it) | `specs/09-data-file-transformation/spec.md:72`: "`400 Bad Request`: Syntax error in source file, invalid parameters, or structural parsing failure." |
| `Conversion_specs` | ContentSniffed | the source format is told from the MIME type or the extension only (`conversion.service.ts:268`) | `specs/09-data-file-transformation/spec.md:30`: "Source format is auto-detected via MIME type, file extension, and content sniffing." |
| `Settings_specs` | ReportedIsEnforced | a missing row is "off" to `isFeatureEnabled` (`settings.service.ts:24`) and "on" to `getVerificationSettings` (44-47) | `settings.dto.ts:13`: "Whether email verification is required during registration" |
| `Settings_specs` | OneAfterTheOther | `save` compares with the rows it read before its transaction (`typeorm-settings.repository.ts:28`): two complete PATCHes may leave neither's settings | `settings.service.spec.ts:180`: "creates and saves all settings when complete DTO is provided" |

Seen while reading, without a run: results are kept for 30 days where the specs say
90; a failed unlink orphans the file (it is logged, and its row deleted); narrowing
a permission leaves its grants as they are.

## Proofs

Every theorem is for all values of the constants, under the named assumptions
of the module (`ConstantsDistinct`, `BoundsAreNaturals`, `RegistryIds`, ...), which
say that special values differ from ids and that bounds are numbers. The safety
properties are seldom inductive; each module ends with the invariant that is. Every
invariant and action property of a passing run, and every refinement, is a theorem.

**Avatars.** `PhotoStored` is not inductive: a removal in flight could hold the path
of a row. `IInv` says why it never does: a key is fresh until one row holds it, and
retired for ever once that row lets go of it; requests remove, and tasks name,
retired keys only (`VictimsRetired`, `TasksRetired`); no two requests hold one key
(`VictimsDistinct`); copies of a task agree on its path (`TaskIds`), so that deleting
the task follows removing its object (`DeleteAfterRemove`). From it: `AvatarTypesCorrect`,
`PhotoAlwaysStored`, `NoObjectForgotten`, `OneCaller`, `FailedUploadsStayOut`, and
`ImplementsSlot`, each step being a Show, a Clear, a Drop or a stutter of AvatarSlot.
They hold for any number of processes, errors and crashes.

**AvatarInput.** Until it is answered, a body is within the limits, its length is its
files and fields, and the file that was read is its only one (`StillGood`); each way
to be refused then breaks one condition of `Acceptable`, or shows a file that is too
large before anything else is wrong. From it: `UploadsAnswered`, for every body: which
ones are accepted, and which of the others are answered with 413 and which with 415,
exactly.

**Accounts.** Retired keys may come back here, by a profile save. `AccountsInv` says
that this is the only way: whoever knows a key, it was linked to the same profile
(`KeysLinked`), and what is up for removal is in no row unless the profile is
`stale` (`RemovalsUnlinked`); behind its erase step a deletion has erased the row
(`PurgesFollowErasure`). About the jobs: a direct deletion keeps the job it opened
to itself (`OwnJobs`), and the event handler leaves a deletion without a job only
when the account has two (`ErasedByAnother`, `JobsOpened`). From it: `PhotosStayStored`,
`DoneJobsErased`, `JobsAreAccounted`, `ErasureLasts`, `OutcomesAreFinal`.

**Verification.** No theorem assumes anything about overlap. `IInv` is an account of the
answers: the calls that confirmed a challenge are at most one if its row is consumed,
plus its saves over newer rows (`AcceptedAccounted`), and its wrong codes at most what
the column counts, plus `MAX_ATTEMPTS` for each such save (`MissesAccounted`), because a
save that is not over a newer row adds one to the column or sets the consumed flag, and
any other is in `overran`. Between the statements of a creation no older
challenge is open that no race has touched (`RetiredBeforeCreate`), and a row is there
once its call has created it and not before (`RowsAreCreated`). From it:
`RacesAreBounded`, `Superseded` (of the open challenges of one subject at most one
has met no race), `ClosedChallengesStayClosed` (a closed challenge that no call holds a
copy of never opens again), and `ImplementsOneTimeCode`: each step is one of OneTimeCode,
its Disturb only for a save over a newer row, or a stutter.

**SignUp.** What a call is about to save has an address with a foundation: proved if
the copy says verified, else its own of the sign-up (`CallFits`, `UserFits`); the code
of a registration went to the address its account signed up with (`ChallengeFits`).
From it: `AddressesAreProved` and `SignUpsAreAnswered`; that an address has one owner
is part of `IInv`.

**Settings.** The rows a transaction has still to write are the ones it found
different (`Outstanding`), and what it wrote stands until another PATCH writes it
(`Settled`). From it: `AnswersShowValues` and `SavedAsAWhole`.

**RbacCache.** For any number of processes and answers in any order: reloads are
numbered (`Numbered`); with every change of a process emitted, what its newest reload
reads includes them (`NewestIsFresh`), and until a process has booted that reload is
unanswered (`BootUnanswered`). So when the newest reload is the last to be answered, the
copy it leaves has all the process owes: `OwnChangesAreKnown`.

**RbacRegistry.** `GrantsSound` and `CacheAgrees` follow from: a call's copy of a grant
names only actions its permission has offered (`CopiesFit`, `OfferedNow`), and while
nothing is announced or loaded the cache is `BuildCache` of the tables
(`CacheCurrent`). That `hasPermission` then answers what the grants say rests on
names being unique (`OneGrantPerName`).

**History.** Files a cleanup is about to delete belong to calls that are over and to
no young item (`CleanupFits`), because a cleanup's cutoff is a retention behind the
clock and a conversion is over within a tick (`RequestFits`). From it:
`ResultsAreKept`, `DownloadsAreServed`, `FilesAreTracked`.

**Conversion.** `FormFits` ties what the code collects part by part to what a reader of
the whole body would say: the last target, options and file, and whether any part was
refused. `StageFits` ties where a request stands to what is on disk, in the tables
and in the answer; the pool part says that a request waits or runs exactly while it
is converting. From them: `AnswersFollowBodies` and `HistoryIsTruthful`, for any number
of requests that share the pool, and `ImplementsHistory`, where each step is that of a
request of History or a stutter. Proving it showed that `AnswerFollowsBody` had to say
more: that a text endpoint refuses a picture, so that a 400 needs a content that is
not whole for that endpoint and a 200 one that it can read. TLC now has such a part
(`AllParts`), too.

**Pages.** The cursor separates: nothing that was shown is after it (`Shown`), and every
row that was there all the time and is still owed is (`Outstanding`). The order has
first and last rows because the table is finite and its rows came one after another
(`Ordered`). From it: `ShownOnce` and `AllShown`, for any inserts and deletes between the
pages, where `CursorFits`: sorted by `createdAt`, ascending only if rows are no finer
than the cursor's milliseconds, no search by address, and rows of different
milliseconds. That is what `Pages_sort`, `Pages_search` and `Pages_millis` violate.

`AvatarTypesCorrect`, `CopyTypeCorrect`, the `TypeCorrect` of Pages and Verification,
`OneCaller`, `FailedUploadsStayOut` and `Superseded` state properties no run lists; TLC
checks them as part of an invariant or of a refinement. The inductive invariants of
Settings, History, Pages, Accounts and AvatarInput were checked by TLC on the instances
of their runs and are left out of them for time; that of Conversion is in
`Conversion_pool.cfg`.

Only model-checked: liveness (`RetriesEnd`, `UnusedObjectsSettle`, `JobsResolve`,
`Converges`, `ExpiredIsPurged`, `Answered`, `PatchAnswered`), which the prover does not
reach.

## What is left

- A refinement between RbacRegistry and the version number of RbacCache, so that
  the freshness of the number is that of the rows.
- Sign-up, erasure and avatars in one composition (Accounts has one profile row and
  no addresses, SignUp no avatars).
- Proofs: what the violation runs leave of their properties (one job per account
  when deletions do not overlap, a challenge per pending sign-up when no mail fails).
