---------------------------- MODULE History ----------------------------
(***************************************************************************)
(* Saved conversion results: what ConversionService.convertMultipartRequest  *)
(* leaves behind (a file on disk, a converted_file row, a history item), what *)
(* getFileForDownload reads, and what the nightly                            *)
(* HistoryCleanupService.cleanupExpiredHistory removes.  One action is what   *)
(* runs between two awaits; requests, downloads and cleanups of several       *)
(* processes interleave.                                                     *)
(*                                                                         *)
(* The file, its row and the history item of a request are all named by the   *)
(* request.  Time is counted in clock ticks shorter than the retention        *)
(* period, and a request is over before the second tick after it began: the   *)
(* conversion alone is cut off after 30 seconds, results are kept for days.   *)
(***************************************************************************)
EXTENDS Integers, FiniteSets

CONSTANTS
  Requests,   \* conversion requests; also the names of files and history items
  Readers,    \* download requests
  Instances,  \* the server processes
  None,       \* no row; a download that has not found its item
  Retention,  \* HISTORY_RETENTION_DAYS, in ticks
  MaxDay,     \* bound: the clock stops here
  MaxFaults   \* bound: errors and crashes in a run

ASSUME HistoryBounds ==
  /\ None \notin Requests
  /\ None \notin Nat
  /\ Retention \in Nat \ {0}
  /\ MaxDay \in Nat
  /\ MaxFaults \in Nat

VARIABLES
  day,      \* the clock
  disk,     \* files in uploads/
  rowAt,    \* createdAt of each converted_file row, None without a row
  itemAt,   \* createdAt of each history item, None without an item
  linked,   \* items whose file_id is not null
  pc,       \* where each conversion stands
  begun,    \* when it began
  host,     \* the process that serves it
  target,   \* the item a download has found
  view,     \* where each download stands
  step,     \* where each process's cleanup stands
  cutoff,   \* its cutoffDate
  expired,  \* its expiredItems
  old,      \* its oldFiles
  doomed,   \* its filesToDelete
  left,     \* those it has still to unlink (a Map, in the order of insertion)
  faults,   \* errors and crashes so far
  lost,     \* history: files whose removal or registration failed
  savedAt   \* history: when an item was recorded with its file

store    == <<disk, rowAt, itemAt, linked>>
requests == <<pc, begun, host>>
readers  == <<target, view>>
sweeps   == <<step, cutoff, expired, old, doomed, left>>
vars == <<day, disk, rowAt, itemAt, linked, pc, begun, host, target, view,
          step, cutoff, expired, old, doomed, left, faults, lost, savedAt>>

InFlight == {"converting", "writing", "registering",
             "recording", "recording_saved", "recording_error"}

Init ==
  /\ day = 0
  /\ disk = {}
  /\ rowAt = [r \in Requests |-> None]
  /\ itemAt = [r \in Requests |-> None]
  /\ linked = {}
  /\ pc = [r \in Requests |-> "idle"]
  /\ begun = [r \in Requests |-> 0]
  /\ host \in [Requests -> Instances]
  /\ target = [d \in Readers |-> None]
  /\ view = [d \in Readers |-> "idle"]
  /\ step = [i \in Instances |-> "off"]
  /\ cutoff = [i \in Instances |-> 0]
  /\ expired = [i \in Instances |-> {}]
  /\ old = [i \in Instances |-> {}]
  /\ doomed = [i \in Instances |-> {}]
  /\ left = [i \in Instances |-> {}]
  /\ faults = 0
  /\ lost = {}
  /\ savedAt = [r \in Requests |-> None]

Goto(r, label) == pc' = [pc EXCEPT ![r] = label]
Fault == faults < MaxFaults /\ faults' = faults + 1

Tick ==
  /\ day < MaxDay
  /\ \A r \in Requests : pc[r] \in InFlight => begun[r] = day
  /\ day' = day + 1
  /\ UNCHANGED <<store, requests, readers, sweeps, faults, lost, savedAt>>

---------------------------------------------------------------------------
(* convertMultipartRequest                                                   *)

\* What a converted file goes through: saved or only recorded.
Converted == {"writing", "recording"}

\* Read the parts and check them. Between equal formats nothing is converted; a
\* request that is refused is recorded as an error.
Parse(r) ==
  /\ pc[r] = "idle"
  /\ \E next \in Converted \cup {"converting", "recording_error"} : Goto(r, next)
  /\ begun' = [begun EXCEPT ![r] = day]
  /\ UNCHANGED <<day, store, host, readers, sweeps, faults, lost, savedAt>>

\* The worker answers, throws, or is aborted after 30 seconds.
Convert(r) ==
  /\ pc[r] = "converting"
  /\ \E next \in Converted \cup {"recording_error"} : Goto(r, next)
  /\ UNCHANGED <<day, store, begun, host, readers, sweeps, faults, lost, savedAt>>

\* fileStorage.save, its writeFile.
WriteFile(r) ==
  /\ pc[r] = "writing"
  /\ disk' = disk \cup {r}
  /\ Goto(r, "registering")
  /\ UNCHANGED <<day, rowAt, itemAt, linked, begun, host, readers, sweeps, faults,
                 lost, savedAt>>

\* A failed writeFile may leave a part of the file; the item will say error.
WriteFileFails(r) ==
  /\ pc[r] = "writing"
  /\ Fault
  /\ \/ UNCHANGED <<disk, lost>>
     \/ disk' = disk \cup {r} /\ lost' = lost \cup {r}
  /\ Goto(r, "recording_error")
  /\ UNCHANGED <<day, rowAt, itemAt, linked, begun, host, readers, sweeps, savedAt>>

\* fileStorage.save, its row.
Register(r) ==
  /\ pc[r] = "registering"
  /\ rowAt' = [rowAt EXCEPT ![r] = day]
  /\ Goto(r, "recording_saved")
  /\ UNCHANGED <<day, disk, itemAt, linked, begun, host, readers, sweeps, faults, lost,
                 savedAt>>

\* The file stays on disk without a row.
RegisterFails(r) ==
  /\ pc[r] = "registering"
  /\ Fault
  /\ lost' = lost \cup {r}
  /\ Goto(r, "recording_error")
  /\ UNCHANGED <<day, store, begun, host, readers, sweeps, savedAt>>

\* createHistoryEntry: the item refers to the file if one was saved.
Record(r) ==
  /\ pc[r] \in {"recording", "recording_saved", "recording_error"}
  /\ itemAt' = [itemAt EXCEPT ![r] = day]
  /\ IF pc[r] = "recording_saved"
       THEN linked' = linked \cup {r} /\ savedAt' = [savedAt EXCEPT ![r] = day]
       ELSE UNCHANGED <<linked, savedAt>>
  /\ Goto(r, "done")
  /\ UNCHANGED <<day, disk, rowAt, begun, host, readers, sweeps, faults, lost>>

\* It logs a failed insert and swallows the error.
RecordFails(r) ==
  /\ pc[r] \in {"recording", "recording_saved", "recording_error"}
  /\ Fault
  /\ Goto(r, "done")
  /\ UNCHANGED <<day, store, begun, host, readers, sweeps, lost, savedAt>>

---------------------------------------------------------------------------
(* getFileForDownload                                                        *)

\* The item's row joined with its file's: 404 without them.
FindFile(d) ==
  /\ view[d] = "idle"
  /\ \E r \in Requests :
       IF r \in linked
         THEN /\ target' = [target EXCEPT ![d] = r]
              /\ view' = [view EXCEPT ![d] = "checking"]
         ELSE /\ view' = [view EXCEPT ![d] = "not_found"]
              /\ UNCHANGED target
  /\ UNCHANGED <<day, store, requests, sweeps, faults, lost, savedAt>>

Exists(d) ==
  /\ view[d] = "checking"
  /\ view' = [view EXCEPT ![d] = IF target[d] \in disk THEN "opening" ELSE "missing"]
  /\ UNCHANGED <<day, store, requests, target, sweeps, faults, lost, savedAt>>

\* createReadStream opens the file after the answer has begun.
Open(d) ==
  /\ view[d] = "opening"
  /\ view' = [view EXCEPT ![d] = IF target[d] \in disk THEN "served" ELSE "broken"]
  /\ UNCHANGED <<day, store, requests, target, sweeps, faults, lost, savedAt>>

---------------------------------------------------------------------------
(* cleanupExpiredHistory                                                     *)

Continue(i, label) == step' = [step EXCEPT ![i] = label]

\* The method ends; its local variables are gone.
Stop(i) ==
  /\ Continue(i, "off")
  /\ cutoff' = [cutoff EXCEPT ![i] = 0]
  /\ expired' = [expired EXCEPT ![i] = {}]
  /\ doomed' = [doomed EXCEPT ![i] = {}]
  /\ old' = [old EXCEPT ![i] = {}]
  /\ left' = [left EXCEPT ![i] = {}]

ItemsBefore(c) == {r \in Requests : itemAt[r] # None /\ itemAt[r] < c}
RowsBefore(c) == {r \in Requests : rowAt[r] # None /\ rowAt[r] < c}

\* Faulty: the retention period is forgotten.
CleanupStartToday(i) ==
  /\ step[i] = "off"
  /\ cutoff' = [cutoff EXCEPT ![i] = day]
  /\ expired' = [expired EXCEPT ![i] = ItemsBefore(day)]
  /\ doomed' = [doomed EXCEPT ![i] = ItemsBefore(day) \cap linked]
  /\ Continue(i, "rows")
  /\ UNCHANGED <<day, store, requests, readers, old, left, faults, lost, savedAt>>

\* The cron fires: read the expired items with their files.
CleanupStart(i) ==
  /\ step[i] = "off"
  /\ cutoff' = [cutoff EXCEPT ![i] = day - Retention]
  /\ expired' = [expired EXCEPT ![i] = ItemsBefore(day - Retention)]
  /\ doomed' = [doomed EXCEPT ![i] = ItemsBefore(day - Retention) \cap linked]
  /\ Continue(i, "rows")
  /\ UNCHANGED <<day, store, requests, readers, old, left, faults, lost, savedAt>>

\* Faulty: only the files of items are cleaned up.
CleanupRowsNone(i) ==
  /\ step[i] = "rows"
  /\ old' = [old EXCEPT ![i] = {}]
  /\ Continue(i, "references")
  /\ UNCHANGED <<day, store, requests, readers, cutoff, expired, doomed, left, faults,
                 lost, savedAt>>

\* Read the rows of files as old as that.
CleanupRows(i) ==
  /\ step[i] = "rows"
  /\ old' = [old EXCEPT ![i] = RowsBefore(cutoff[i])]
  /\ Continue(i, "references")
  /\ UNCHANGED <<day, store, requests, readers, cutoff, expired, doomed, left, faults,
                 lost, savedAt>>

\* Faulty: old files go, referenced or not.
CleanupReferencesNone(i) ==
  /\ step[i] = "references"
  /\ doomed' = [doomed EXCEPT ![i] = @ \cup old[i]]
  /\ old' = [old EXCEPT ![i] = {}]
  /\ left' = [left EXCEPT ![i] = doomed'[i]]
  /\ Continue(i, "unlinking")
  /\ UNCHANGED <<day, store, requests, readers, cutoff, expired, faults, lost, savedAt>>

\* Read the items that refer to them; the files no item refers to go, too.
CleanupReferences(i) ==
  /\ step[i] = "references"
  /\ doomed' = [doomed EXCEPT ![i] = @ \cup (old[i] \ linked)]
  /\ old' = [old EXCEPT ![i] = {}]
  /\ left' = [left EXCEPT ![i] = doomed'[i]]
  /\ Continue(i, "unlinking")
  /\ UNCHANGED <<day, store, requests, readers, cutoff, expired, faults, lost, savedAt>>

\* Faulty: the rows are thought to be enough.
UnlinkNothing(i) ==
  /\ step[i] = "unlinking"
  /\ left[i] # {}
  /\ left' = [left EXCEPT ![i] = {}]
  /\ UNCHANGED <<day, store, requests, readers, step, cutoff, expired, old, doomed,
                 faults, lost, savedAt>>

\* fs.unlink of the next file; that it is gone already is an error, logged.
Unlink(i) ==
  /\ step[i] = "unlinking"
  /\ \E f \in left[i] :
       /\ left' = [left EXCEPT ![i] = @ \ {f}]
       /\ disk' = disk \ {f}
  /\ UNCHANGED <<day, rowAt, itemAt, linked, requests, readers, step, cutoff, expired,
                 old, doomed, faults, lost, savedAt>>

\* Any other error is logged too, and the file's row goes with the others.
UnlinkFails(i) ==
  /\ step[i] = "unlinking"
  /\ Fault
  /\ \E f \in left[i] :
       /\ left' = [left EXCEPT ![i] = @ \ {f}]
       /\ lost' = lost \cup {f}
  /\ UNCHANGED <<day, store, requests, readers, step, cutoff, expired, old, doomed,
                 savedAt>>

\* All files are tried: on to the items, if there were any.
DeleteItems(i) ==
  /\ step[i] = "unlinking"
  /\ left[i] = {}
  /\ LET gone == IF expired[i] = {} THEN {} ELSE ItemsBefore(cutoff[i])
     IN  /\ itemAt' = [r \in Requests |-> IF r \in gone THEN None ELSE itemAt[r]]
         /\ linked' = linked \ gone
  /\ Continue(i, "deleting")
  /\ UNCHANGED <<day, disk, rowAt, requests, readers, cutoff, expired, old, doomed, left,
                 faults, lost, savedAt>>

\* Delete the rows of the files by id; a file_id that refers to one becomes null.
DeleteFiles(i) ==
  /\ step[i] = "deleting"
  /\ rowAt' = [r \in Requests |-> IF r \in doomed[i] THEN None ELSE rowAt[r]]
  /\ linked' = linked \ doomed[i]
  /\ Stop(i)
  /\ UNCHANGED <<day, disk, itemAt, requests, readers, faults, lost, savedAt>>

\* A statement throws: the rest waits for the next midnight.
CleanupFails(i) ==
  /\ \/ step[i] \in {"rows", "references", "deleting"}
     \/ step[i] = "unlinking" /\ left[i] = {} /\ expired[i] # {}
  /\ Fault
  /\ Stop(i)
  /\ UNCHANGED <<day, store, requests, readers, lost, savedAt>>

---------------------------------------------------------------------------
Serving(i) == {r \in Requests : host[r] = i /\ pc[r] \in InFlight}

\* A process dies with its requests and its cleanup; files it was writing, perhaps
\* in part, or was about to register stay without a row.
Crash(i) ==
  /\ Fault
  /\ Serving(i) # {} \/ step[i] # "off"
  /\ pc' = [r \in Requests |-> IF r \in Serving(i) THEN "crashed" ELSE pc[r]]
  /\ \E parts \in SUBSET {r \in Serving(i) : pc[r] = "writing"} :
       /\ disk' = disk \cup parts
       /\ lost' = lost \cup parts \cup {r \in Serving(i) : pc[r] = "registering"}
  /\ Stop(i)
  /\ UNCHANGED <<day, rowAt, itemAt, linked, begun, host, readers, savedAt>>

Conversion(r) ==
  \/ Parse(r)
  \/ Convert(r)
  \/ WriteFile(r)
  \/ WriteFileFails(r)
  \/ Register(r)
  \/ RegisterFails(r)
  \/ Record(r)
  \/ RecordFails(r)

Download(d) == FindFile(d) \/ Exists(d) \/ Open(d)

Cleanup(i) ==
  \/ CleanupStart(i)
  \/ CleanupRows(i)
  \/ CleanupReferences(i)
  \/ Unlink(i)
  \/ UnlinkFails(i)
  \/ DeleteItems(i)
  \/ DeleteFiles(i)
  \/ CleanupFails(i)

Next ==
  \/ Tick
  \/ \E r \in Requests : Conversion(r)
  \/ \E d \in Readers : Download(d)
  \/ \E i \in Instances : Cleanup(i) \/ Crash(i)

Spec == Init /\ [][Next]_vars

\* The cron fires every midnight and a cleanup goes on to its end.
FairSpec == Spec /\ \A i \in Instances : WF_vars(Cleanup(i))

---------------------------------------------------------------------------
(* Properties                                                               *)

Stamp == Nat \cup {None}

\* Every variable keeps its type, and file_id names a row.
TypeOK ==
  /\ day \in 0..MaxDay
  /\ disk \subseteq Requests
  /\ rowAt \in [Requests -> Stamp]
  /\ itemAt \in [Requests -> Stamp]
  /\ linked \subseteq {r \in Requests : itemAt[r] # None /\ rowAt[r] # None}
  /\ pc \in [Requests -> {"idle", "done", "crashed"} \cup InFlight]
  /\ begun \in [Requests -> Nat]
  /\ host \in [Requests -> Instances]
  /\ target \in [Readers -> Requests \cup {None}]
  /\ view \in [Readers -> {"idle", "checking", "opening", "served",
                            "not_found", "missing", "broken"}]
  /\ step \in [Instances -> {"off", "rows", "references", "unlinking", "deleting"}]
  /\ cutoff \in [Instances -> Int]
  /\ expired \in [Instances -> SUBSET Requests]
  /\ old \in [Instances -> SUBSET Requests]
  /\ doomed \in [Instances -> SUBSET Requests]
  /\ left \in [Instances -> SUBSET Requests]
  /\ faults \in 0..MaxFaults
  /\ lost \subseteq Requests
  /\ savedAt \in [Requests -> Stamp]

\* A result that was recorded with its file, not longer ago than the retention period.
Young(r) == savedAt[r] # None /\ savedAt[r] >= day - Retention

\* "Saved files remain downloadable ... until the retention period expires": no
\* cleanup, however many run and fail, takes the item, the row or the file before.
ResultsKept ==
  \A r \in Requests :
    Young(r) => r \in linked /\ r \in disk /\ rowAt[r] # None /\ itemAt[r] # None

\* A download that found its item gets the file, or the item had expired: neither
\* the 404 for a missing file nor an answer that breaks off is seen before.
DownloadsServed ==
  \A d \in Readers : view[d] \in {"missing", "broken"} => ~Young(target[d])

\* A file on disk is known to the database, or about to be, or an error or a crash
\* was logged over it.
FilesTracked ==
  \A f \in disk : rowAt[f] # None \/ pc[f] = "registering" \/ f \in lost

\* What is older than the retention period is purged in the end: items, rows and
\* files, also the rows whose item was never written, and after failed cleanups.
Overdue(r) == itemAt[r] # None /\ itemAt[r] < day - Retention
Stray(r) == rowAt[r] # None /\ rowAt[r] < day - Retention /\ r \notin linked
Purged(r) == itemAt[r] = None /\ rowAt[r] = None /\ (r \notin disk \/ r \in lost)
ExpiredIsPurged == \A r \in Requests : (Overdue(r) \/ Stray(r)) ~> Purged(r)

---------------------------------------------------------------------------
(* The inductive invariant                                                  *)

Finished == {"done", "crashed"}

\* A request in flight began in this tick or in the last one, and its row is not older.
\* What it has stored so far is there; what an item refers to, it was recorded with.
RequestFits(r) ==
  /\ pc[r] \in InFlight => begun[r] <= day /\ day - 1 <= begun[r]
  /\ rowAt[r] # None => begun[r] <= rowAt[r] /\ pc[r] \in {"recording_saved"} \cup Finished
  /\ itemAt[r] # None \/ savedAt[r] # None => pc[r] = "done"
  /\ r \in linked => savedAt[r] = itemAt[r]
  /\ pc[r] \in {"registering", "recording_saved"} => r \in disk
  /\ pc[r] = "recording_saved" => rowAt[r] # None

\* A cleanup is about to delete files only that nobody writes any more and no young
\* item refers to, and their rows only once they are unlinked or logged.
CleanupFits(i) ==
  /\ step[i] # "off" => cutoff[i] <= day - Retention
  /\ \A f \in old[i] : pc[f] \in Finished
  /\ \A f \in doomed[i] : pc[f] \in Finished /\ ~Young(f)
  /\ left[i] \subseteq doomed[i]
  /\ step[i] # "unlinking" => left[i] = {}
  /\ step[i] \in {"unlinking", "deleting"} =>
       \A f \in doomed[i] \ left[i] : f \notin disk \/ f \in lost

DownloadFits(d) ==
  view[d] \in {"checking", "opening", "missing", "broken"} =>
    target[d] \in Requests /\ pc[target[d]] = "done"

IInv ==
  /\ TypeOK
  /\ \A r \in Requests : RequestFits(r)
  /\ \A i \in Instances : CleanupFits(i)
  /\ \A d \in Readers : DownloadFits(d)
  /\ ResultsKept
  /\ DownloadsServed
  /\ FilesTracked
====
