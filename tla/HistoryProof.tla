--------------------------- MODULE HistoryProof ---------------------------
(***************************************************************************)
(* Proofs about History, for every set of conversions, downloads and         *)
(* processes, every retention period and any number of errors and crashes.   *)
(***************************************************************************)
EXTENDS History, TLAPS

\* At the start nothing is stored and nobody is under way.
LEMMA InductiveInit == Init => IInv
<1> SUFFICES ASSUME Init PROVE IInv
  OBVIOUS
<1>1. TypeOK
  BY HistoryBounds DEF Init, TypeOK, Stamp, InFlight
<1>2. \A r \in Requests : RequestFits(r)
  BY DEF Init, RequestFits, InFlight
<1>3. \A i \in Instances : CleanupFits(i)
  BY DEF Init, CleanupFits
<1>4. (\A d \in Readers : DownloadFits(d)) /\ DownloadsServed
  BY DEF Init, DownloadFits, DownloadsServed
<1>5. ResultsKept /\ FilesTracked
  BY DEF Init, ResultsKept, FilesTracked, Young
<1> QED
  BY <1>1, <1>2, <1>3, <1>4, <1>5 DEF IInv

---------------------------------------------------------------------------
(* What is settled stays settled                                            *)

\* Once a call is over, a result that is not young never becomes young again.
Settled ==
  /\ day' \in Int /\ day <= day'
  /\ \A r \in Requests : pc[r] \in Finished => pc'[r] = pc[r] /\ savedAt'[r] = savedAt[r]

LEMMA OldStaysOld ==
  ASSUME TypeOK, Settled, NEW r \in Requests, pc[r] \in Finished, ~Young(r)
  PROVE  ~Young(r)'
  BY HistoryBounds DEF TypeOK, Settled, Young, Stamp

\* A step that stores nothing and unlinks nothing leaves the downloads and the cleanups
\* it does not make as they were.
LEMMA DownloadsStay ==
  ASSUME IInv, Settled, readers' = readers
  PROVE  (\A d \in Readers : DownloadFits(d)') /\ DownloadsServed'
<1>1. ASSUME NEW d \in Readers PROVE DownloadFits(d)'
  BY <1>1 DEF IInv, Settled, readers, DownloadFits, Finished
<1>2. ASSUME NEW d \in Readers, view'[d] \in {"missing", "broken"} PROVE ~Young(target[d])'
  <2>1. view[d] \in {"missing", "broken"} /\ target' = target
    BY <1>2 DEF readers
  <2>2. target[d] \in Requests /\ pc[target[d]] \in Finished /\ ~Young(target[d])
    BY <2>1 DEF IInv, DownloadFits, DownloadsServed, Finished
  <2>3. PICK r \in Requests : r = target[d] /\ ~Young(r)'
    BY <2>2, OldStaysOld DEF IInv
  <2> QED
    BY <2>1, <2>3 DEF Young
<1> QED
  BY <1>1, <1>2 DEF DownloadsServed

\* So do the cleanups it does not make, if it puts no file where one is due to go.
LEMMA CleanupStays ==
  ASSUME IInv, Settled, NEW i \in Instances,
         UNCHANGED <<step[i], cutoff[i], old[i], doomed[i], left[i]>>,
         \A f \in Requests : pc[f] \in Finished /\ f \notin disk => f \notin disk',
         lost \subseteq lost'
  PROVE  CleanupFits(i)'
<1>1. CleanupFits(i) /\ doomed[i] \subseteq Requests /\ old[i] \subseteq Requests
  BY DEF IInv, TypeOK
<1>2. cutoff[i] \in Int /\ day \in Int /\ Retention \in Int
  BY HistoryBounds DEF IInv, TypeOK
<1>3. step[i] # "off" => cutoff[i] <= day' - Retention
  BY <1>1, <1>2 DEF CleanupFits, Settled
<1>4. \A f \in doomed[i] : pc[f] \in Finished /\ pc'[f] \in Finished /\ ~Young(f)'
  BY <1>1, OldStaysOld DEF CleanupFits, Settled, IInv
<1>5. \A f \in old[i] : pc'[f] \in Finished
  BY <1>1 DEF CleanupFits, Settled
<1> QED
  BY <1>1, <1>3, <1>4, <1>5 DEF CleanupFits

---------------------------------------------------------------------------
(* The steps of a conversion                                                *)

\* What a step of conversion r leaves as it was.
StepOf(r) ==
  /\ pc[r] \notin Finished
  /\ UNCHANGED <<day, readers, sweeps>>
  /\ disk \subseteq disk' /\ disk' \subseteq disk \cup {r}
  /\ lost \subseteq lost'
  /\ \A q \in Requests \ {r} :
       /\ UNCHANGED <<pc[q], begun[q], rowAt[q], itemAt[q], savedAt[q]>>
       /\ q \in linked' <=> q \in linked

LEMMA StepKeeps ==
  ASSUME IInv, NEW r \in Requests, StepOf(r), TypeOK', RequestFits(r)',
         Young(r)' => r \in linked' /\ r \in disk',
         r \in disk' => rowAt'[r] # None \/ pc'[r] = "registering" \/ r \in lost'
  PROVE  IInv'
<1>1. Settled
  BY DEF StepOf, Settled, IInv, TypeOK
<1>2. \A q \in Requests : RequestFits(q)'
  BY DEF StepOf, IInv, RequestFits
<1>3. (\A d \in Readers : DownloadFits(d)') /\ DownloadsServed'
  BY <1>1, DownloadsStay DEF StepOf
<1>4. ASSUME NEW i \in Instances PROVE CleanupFits(i)'
  <2>1. UNCHANGED <<step[i], cutoff[i], old[i], doomed[i], left[i]>>
    BY DEF StepOf, sweeps
  <2>2. \A f \in Requests : pc[f] \in Finished /\ f \notin disk => f \notin disk'
    BY DEF StepOf
  <2>3. lost \subseteq lost'
    BY DEF StepOf
  <2> QED
    BY <1>1, <2>1, <2>2, <2>3, CleanupStays
<1>5. ResultsKept'
  BY DEF StepOf, IInv, TypeOK, ResultsKept, Young
<1>6. FilesTracked'
  BY DEF StepOf, IInv, TypeOK, FilesTracked
<1> QED
  BY <1>2, <1>3, <1>4, <1>5, <1>6 DEF IInv

LEMMA ConversionKeeps ==
  ASSUME IInv, NEW r \in Requests, Conversion(r) PROVE IInv'
<1>1. /\ TypeOK /\ RequestFits(r) /\ rowAt[r] \in Stamp /\ itemAt[r] \in Stamp
      /\ (Young(r) => r \in linked /\ r \in disk)
      /\ (r \in disk => rowAt[r] # None \/ pc[r] = "registering" \/ r \in lost)
      /\ day \in Nat /\ begun[r] \in Nat /\ None \notin Nat
  BY HistoryBounds DEF IInv, TypeOK, ResultsKept, FilesTracked
<1>2. CASE Parse(r)
  <2>1. StepOf(r)
    BY <1>1, <1>2 DEF Parse, Goto, StepOf, TypeOK, Finished, store
  <2>2. TypeOK'
    BY <1>1, <1>2 DEF Parse, Goto, TypeOK, Converted, InFlight, store, readers, sweeps
  <2>3. RequestFits(r)' /\ (Young(r)' => r \in linked')
    BY <1>1, <1>2 DEF Parse, Goto, TypeOK, RequestFits, Young, Converted, InFlight, Finished, store
  <2> QED
    BY <1>1, <1>2, <2>1, <2>2, <2>3, StepKeeps DEF Parse, RequestFits, Young, store, Goto, TypeOK
<1>3. CASE Convert(r)
  <2>1. StepOf(r)
    BY <1>1, <1>3 DEF Convert, Goto, StepOf, TypeOK, Finished, store
  <2>2. TypeOK'
    BY <1>1, <1>3 DEF Convert, Goto, TypeOK, Converted, InFlight, store, readers, sweeps
  <2>3. RequestFits(r)'
    BY <1>1, <1>3 DEF Convert, Goto, TypeOK, RequestFits, Converted, InFlight, Finished, store
  <2> QED
    BY <1>1, <1>3, <2>1, <2>2, <2>3, StepKeeps DEF Convert, RequestFits, Young, store, Goto, TypeOK
<1>4. CASE WriteFile(r)
  <2>1. StepOf(r)
    BY <1>1, <1>4 DEF WriteFile, Goto, StepOf, TypeOK, Finished
  <2>2. TypeOK'
    BY <1>1, <1>4 DEF WriteFile, Goto, TypeOK, InFlight, readers, sweeps
  <2>3. RequestFits(r)' /\ pc'[r] = "registering"
    BY <1>1, <1>4 DEF WriteFile, Goto, TypeOK, RequestFits, InFlight, Finished
  <2> QED
    BY <1>1, <1>4, <2>1, <2>2, <2>3, StepKeeps DEF WriteFile, Young
<1>5. CASE WriteFileFails(r)
  <2>1. StepOf(r)
    BY <1>1, <1>5 DEF WriteFileFails, Goto, StepOf, TypeOK, Finished
  <2>2. TypeOK'
    BY <1>1, <1>5, HistoryBounds
    DEF WriteFileFails, Fault, Goto, TypeOK, InFlight, readers, sweeps
  <2>3. RequestFits(r)'
    BY <1>1, <1>5 DEF WriteFileFails, Goto, TypeOK, RequestFits, InFlight, Finished
  <2> QED
    BY <1>1, <1>5, <2>1, <2>2, <2>3, StepKeeps DEF WriteFileFails, Young
<1>6. CASE Register(r)
  <2>1. StepOf(r)
    BY <1>1, <1>6 DEF Register, Goto, StepOf, TypeOK, Finished
  <2>2. TypeOK'
    BY <1>1, <1>6, HistoryBounds DEF Register, Goto, TypeOK, Stamp, InFlight, readers, sweeps
  <2>3. RequestFits(r)' /\ rowAt'[r] # None
    BY <1>1, <1>6 DEF Register, Goto, TypeOK, RequestFits, InFlight, Finished
  <2> QED
    BY <1>1, <1>6, <2>1, <2>2, <2>3, StepKeeps DEF Register, Young
<1>7. CASE RegisterFails(r)
  <2>1. StepOf(r)
    BY <1>1, <1>7 DEF RegisterFails, Goto, StepOf, TypeOK, Finished, store
  <2>2. TypeOK'
    BY <1>1, <1>7, HistoryBounds
    DEF RegisterFails, Fault, Goto, TypeOK, InFlight, store, readers, sweeps
  <2>3. RequestFits(r)' /\ r \in lost'
    BY <1>1, <1>7 DEF RegisterFails, Goto, TypeOK, RequestFits, InFlight, Finished, store
  <2> QED
    BY <1>1, <1>7, <2>1, <2>2, <2>3, StepKeeps DEF RegisterFails, Young, store
<1>8. CASE Record(r)
  <2>1. StepOf(r)
    BY <1>1, <1>8 DEF Record, Goto, StepOf, TypeOK, Finished
  <2>2. TypeOK'
    BY <1>1, <1>8, HistoryBounds
    DEF Record, Goto, TypeOK, RequestFits, Stamp, InFlight, readers, sweeps
  <2>3. RequestFits(r)'
    BY <1>1, <1>8 DEF Record, Goto, TypeOK, RequestFits, InFlight, Finished
  <2>4. Young(r)' => r \in linked' /\ r \in disk'
    BY <1>1, <1>8 DEF Record, Goto, TypeOK, RequestFits, Young
  <2> QED
    BY <1>1, <1>8, <2>1, <2>2, <2>3, <2>4, StepKeeps DEF Record
<1>9. CASE RecordFails(r)
  <2>1. StepOf(r)
    BY <1>1, <1>9 DEF RecordFails, Goto, StepOf, TypeOK, Finished, store
  <2>2. TypeOK'
    BY <1>1, <1>9, HistoryBounds
    DEF RecordFails, Fault, Goto, TypeOK, InFlight, store, readers, sweeps
  <2>3. RequestFits(r)'
    BY <1>1, <1>9 DEF RecordFails, Goto, TypeOK, RequestFits, InFlight, Finished, store
  <2> QED
    BY <1>1, <1>9, <2>1, <2>2, <2>3, StepKeeps DEF RecordFails, Young, store
<1> QED
  BY <1>2, <1>3, <1>4, <1>5, <1>6, <1>7, <1>8, <1>9 DEF Conversion

---------------------------------------------------------------------------
(* The clock and the downloads                                              *)

LEMMA TickKeeps ==
  ASSUME IInv, Tick PROVE IInv'
<1>1. TypeOK /\ day \in Nat /\ MaxDay \in Nat /\ day' = day + 1 /\ day' <= MaxDay
  BY HistoryBounds DEF IInv, TypeOK, Tick
<1>2. TypeOK'
  BY <1>1 DEF Tick, TypeOK, store, requests, readers, sweeps
<1>3. Settled
  BY <1>1 DEF Tick, Settled, requests
<1>4. \A r \in Requests : RequestFits(r)'
  BY <1>1 DEF Tick, IInv, TypeOK, RequestFits, store, requests
<1>5. (\A d \in Readers : DownloadFits(d)') /\ DownloadsServed'
  BY <1>3, DownloadsStay DEF Tick
<1>6. \A i \in Instances : CleanupFits(i)'
  BY <1>3, CleanupStays DEF Tick, store, sweeps
<1>7. ResultsKept'
  <2>1. ASSUME NEW r \in Requests, Young(r)' PROVE Young(r)
    BY <1>1, <2>1, HistoryBounds DEF Tick, TypeOK, Young, Stamp
  <2> QED
    BY <2>1 DEF Tick, IInv, ResultsKept, store
<1>8. FilesTracked'
  BY DEF Tick, IInv, FilesTracked, store, requests
<1> QED
  BY <1>2, <1>4, <1>5, <1>6, <1>7, <1>8 DEF IInv

LEMMA DownloadKeeps ==
  ASSUME IInv, NEW d \in Readers, Download(d) PROVE IInv'
<1>1. /\ TypeOK /\ DownloadFits(d)
      /\ UNCHANGED <<day, store, requests, sweeps, faults, lost, savedAt>>
      /\ \A e \in Readers \ {d} : view'[e] = view[e] /\ target'[e] = target[e]
  BY DEF IInv, TypeOK, Download, FindFile, Exists, Open
<1>2. TypeOK'
  BY <1>1 DEF Download, FindFile, Exists, Open, TypeOK, store, requests, sweeps
<1>3. DownloadFits(d)'
  <2>1. CASE FindFile(d)
    BY <1>1, <2>1 DEF FindFile, IInv, TypeOK, RequestFits, DownloadFits, requests
  <2>2. CASE Exists(d) \/ Open(d)
    BY <1>1, <2>2 DEF Exists, Open, TypeOK, DownloadFits, requests
  <2> QED
    BY <2>1, <2>2 DEF Download
<1>4. view'[d] \in {"missing", "broken"} => ~Young(target[d])'
  <2>1. CASE FindFile(d)
    BY <1>1, <2>1 DEF FindFile, TypeOK
  <2>2. CASE Exists(d) \/ Open(d)
    BY <1>1, <2>2 DEF Exists, Open, IInv, TypeOK, DownloadFits, ResultsKept, Young
  <2> QED
    BY <2>1, <2>2 DEF Download
<1>5. (\A e \in Readers : DownloadFits(e)') /\ DownloadsServed'
  BY <1>1, <1>3, <1>4 DEF IInv, DownloadFits, DownloadsServed, Young, requests
<1>6. \A r \in Requests : RequestFits(r)'
  BY <1>1 DEF IInv, RequestFits, store, requests
<1>7. \A i \in Instances : CleanupFits(i)'
  BY <1>1 DEF IInv, CleanupFits, Young, store, requests, sweeps
<1>8. ResultsKept' /\ FilesTracked'
  BY <1>1 DEF IInv, ResultsKept, FilesTracked, Young, store, requests
<1> QED
  BY <1>2, <1>5, <1>6, <1>7, <1>8 DEF IInv

---------------------------------------------------------------------------
(* The steps of a cleanup                                                   *)

\* What a step of the cleanup of process i leaves as it was.
SweepOf(i) ==
  /\ UNCHANGED <<day, requests, readers, savedAt>>
  /\ disk' \subseteq disk
  /\ lost \subseteq lost'
  /\ \A j \in Instances \ {i} :
       UNCHANGED <<step[j], cutoff[j], old[j], doomed[j], left[j]>>

LEMMA SweepKeeps ==
  ASSUME IInv, NEW i \in Instances, SweepOf(i), TypeOK', CleanupFits(i)',
         \A r \in Requests : RequestFits(r)', ResultsKept', FilesTracked'
  PROVE  IInv'
<1>1. Settled
  BY DEF SweepOf, Settled, IInv, TypeOK, requests
<1>2. (\A d \in Readers : DownloadFits(d)') /\ DownloadsServed'
  BY <1>1, DownloadsStay DEF SweepOf
<1>3. ASSUME NEW j \in Instances \ {i} PROVE CleanupFits(j)'
  <2>1. UNCHANGED <<step[j], cutoff[j], old[j], doomed[j], left[j]>>
    BY DEF SweepOf
  <2>2. \A f \in Requests : pc[f] \in Finished /\ f \notin disk => f \notin disk'
    BY DEF SweepOf
  <2>3. lost \subseteq lost'
    BY DEF SweepOf
  <2> QED
    BY <1>1, <2>1, <2>2, <2>3, CleanupStays
<1> QED
  BY <1>2, <1>3 DEF IInv

\* A step that reads the tables only.
LEMMA ReadingKeeps ==
  ASSUME IInv, NEW i \in Instances, SweepOf(i), TypeOK', CleanupFits(i)', store' = store
  PROVE  IInv'
<1>1. \A r \in Requests : RequestFits(r)'
  BY DEF SweepOf, IInv, RequestFits, store, requests
<1>2. ResultsKept' /\ FilesTracked'
  BY DEF SweepOf, IInv, ResultsKept, FilesTracked, Young, store, requests
<1> QED
  BY <1>1, <1>2, SweepKeeps

LEMMA CleanupKeeps ==
  ASSUME IInv, NEW i \in Instances, Cleanup(i) PROVE IInv'
<1>1. /\ TypeOK /\ CleanupFits(i) /\ Retention \in Nat \ {0} /\ day \in Nat
      /\ cutoff[i] \in Int /\ None \notin Nat
      /\ \A r \in Requests : RequestFits(r) /\ itemAt[r] \in Stamp /\ rowAt[r] \in Stamp
      /\ \A r \in Requests : Young(r) => r \in linked /\ r \in disk
  BY HistoryBounds DEF IInv, TypeOK, ResultsKept
<1>2. CASE CleanupStart(i)
  <2>1. SweepOf(i)
    BY <1>2 DEF CleanupStart, Continue, SweepOf, IInv, TypeOK, store
  <2>2. TypeOK'
    BY <1>1, <1>2 DEF CleanupStart, Continue, TypeOK, ItemsBefore, store, requests, readers
  <2>3. \A f \in ItemsBefore(day - Retention) \cap linked : pc[f] \in Finished /\ ~Young(f)
    BY <1>1 DEF ItemsBefore, RequestFits, Young, Stamp, Finished
  <2>4. /\ step'[i] = "rows" /\ cutoff'[i] = day - Retention
        /\ doomed'[i] = ItemsBefore(day - Retention) \cap linked
        /\ old'[i] = old[i] /\ left'[i] = {}
    BY <1>1, <1>2 DEF CleanupStart, Continue, TypeOK, CleanupFits
  <2>5. CleanupFits(i)'
    BY <1>1, <1>2, <2>3, <2>4 DEF CleanupStart, CleanupFits, Young, requests
  <2> QED
    BY <1>2, <2>1, <2>2, <2>5, ReadingKeeps DEF CleanupStart
<1>3. CASE CleanupRows(i)
  <2>1. SweepOf(i)
    BY <1>3 DEF CleanupRows, Continue, SweepOf, IInv, TypeOK, store
  <2>2. TypeOK'
    BY <1>1, <1>3 DEF CleanupRows, Continue, TypeOK, RowsBefore, store, requests, readers
  <2>3. \A f \in RowsBefore(cutoff[i]) : pc[f] \in Finished
    <3>1. step[i] = "rows" /\ cutoff[i] <= day - Retention
      BY <1>1, <1>3 DEF CleanupRows, CleanupFits
    <3>2. ASSUME NEW f \in Requests, rowAt[f] # None, rowAt[f] < cutoff[i]
          PROVE  pc[f] \in Finished
      <4>1. /\ begun[f] \in Nat /\ begun[f] <= rowAt[f]
            /\ pc[f] \in {"recording_saved"} \cup Finished
        BY <1>1, <3>2 DEF RequestFits, TypeOK
      <4>2. pc[f] \in InFlight => day - 1 <= begun[f]
        BY <1>1 DEF RequestFits
      <4>3. rowAt[f] \in Nat
        BY <1>1, <3>2 DEF Stamp
      <4> QED
        BY <1>1, <3>1, <3>2, <4>1, <4>2, <4>3 DEF InFlight
    <3> QED
      BY <3>2 DEF RowsBefore
  <2>4. CleanupFits(i)'
    BY <1>1, <1>3, <2>3
    DEF CleanupRows, Continue, TypeOK, CleanupFits, Young, store, requests
  <2> QED
    BY <1>3, <2>1, <2>2, <2>4, ReadingKeeps DEF CleanupRows
<1>4. CASE CleanupReferences(i)
  <2>1. SweepOf(i)
    BY <1>4 DEF CleanupReferences, Continue, SweepOf, IInv, TypeOK, store
  <2>2. TypeOK'
    BY <1>1, <1>4 DEF CleanupReferences, Continue, TypeOK, store, requests, readers
  <2>3. /\ step[i] = "references" /\ step'[i] = "unlinking" /\ cutoff'[i] = cutoff[i]
        /\ doomed'[i] = doomed[i] \cup (old[i] \ linked)
        /\ old'[i] = {} /\ left'[i] = doomed'[i]
    BY <1>1, <1>4 DEF CleanupReferences, Continue, TypeOK
  <2>4. \A f \in old[i] \ linked : pc[f] \in Finished /\ ~Young(f)
    BY <1>1 DEF TypeOK, CleanupFits
  <2>5. CleanupFits(i)'
    BY <1>1, <1>4, <2>3, <2>4 DEF CleanupReferences, CleanupFits, Young, requests
  <2> QED
    BY <1>4, <2>1, <2>2, <2>5, ReadingKeeps DEF CleanupReferences
<1>5. CASE Unlink(i)
  <2>1. PICK f \in left[i] : left' = [left EXCEPT ![i] = @ \ {f}] /\ disk' = disk \ {f}
    BY <1>5 DEF Unlink
  <2>2. f \in Requests /\ pc[f] \in Finished /\ ~Young(f) /\ step[i] = "unlinking"
    BY <1>1, <1>5 DEF Unlink, TypeOK, CleanupFits
  <2>3. SweepOf(i)
    BY <1>5, <2>1 DEF Unlink, SweepOf, IInv, TypeOK
  <2>4. TypeOK'
    BY <1>1, <1>5, <2>1 DEF Unlink, TypeOK, requests, readers
  <2>5. CleanupFits(i)'
    BY <1>1, <1>5, <2>1, <2>2 DEF Unlink, TypeOK, CleanupFits, Young, requests
  <2>6. \A r \in Requests : RequestFits(r)'
    BY <1>1, <1>5, <2>1, <2>2 DEF Unlink, RequestFits, Finished, requests
  <2>7. ResultsKept' /\ FilesTracked'
    BY <1>1, <1>5, <2>1, <2>2 DEF Unlink, IInv, ResultsKept, FilesTracked, Young, requests
  <2> QED
    BY <2>3, <2>4, <2>5, <2>6, <2>7, SweepKeeps
<1>6. CASE UnlinkFails(i)
  <2>1. PICK f \in left[i] : left' = [left EXCEPT ![i] = @ \ {f}] /\ lost' = lost \cup {f}
    BY <1>6 DEF UnlinkFails
  <2>2. SweepOf(i)
    BY <1>6, <2>1 DEF UnlinkFails, SweepOf, IInv, TypeOK, store
  <2>3. TypeOK'
    BY <1>1, <1>6, <2>1, HistoryBounds
    DEF UnlinkFails, Fault, TypeOK, store, requests, readers
  <2>4. CleanupFits(i)'
    BY <1>1, <1>6, <2>1 DEF UnlinkFails, TypeOK, CleanupFits, Young, store, requests
  <2> QED
    BY <1>6, <2>2, <2>3, <2>4, ReadingKeeps DEF UnlinkFails
<1>7. CASE DeleteItems(i)
  <2> DEFINE gone == IF expired[i] = {} THEN {} ELSE ItemsBefore(cutoff[i])
  <2>1. /\ step[i] = "unlinking" /\ left[i] = {} /\ step' = [step EXCEPT ![i] = "deleting"]
        /\ itemAt' = [r \in Requests |-> IF r \in gone THEN None ELSE itemAt[r]]
        /\ linked' = linked \ gone
        /\ UNCHANGED <<day, disk, rowAt, requests, readers, cutoff, expired, old, doomed, left,
                       faults, lost, savedAt>>
    BY <1>7 DEF DeleteItems, Continue
  <2>2. \A r \in linked : r \in gone => ~Young(r)
    BY <1>1, <2>1 DEF TypeOK, CleanupFits, RequestFits, ItemsBefore, Young, Stamp
  <2> HIDE DEF gone
  <2>3. SweepOf(i)
    BY <2>1 DEF SweepOf, IInv, TypeOK
  <2>4. TypeOK'
    BY <1>1, <2>1 DEF TypeOK, Stamp, requests, readers
  <2>5. CleanupFits(i)'
    BY <1>1, <2>1 DEF TypeOK, CleanupFits, Young, requests
  <2>6. \A r \in Requests : RequestFits(r)'
    BY <1>1, <2>1 DEF RequestFits, requests
  <2>7. ResultsKept' /\ FilesTracked'
    BY <1>1, <2>1, <2>2 DEF IInv, ResultsKept, FilesTracked, Young, requests
  <2> QED
    BY <2>3, <2>4, <2>5, <2>6, <2>7, SweepKeeps
<1>8. CASE DeleteFiles(i)
  <2>1. /\ step[i] = "deleting" /\ step' = [step EXCEPT ![i] = "off"]
        /\ rowAt' = [r \in Requests |-> IF r \in doomed[i] THEN None ELSE rowAt[r]]
        /\ linked' = linked \ doomed[i]
        /\ cutoff' = [cutoff EXCEPT ![i] = 0] /\ expired' = [expired EXCEPT ![i] = {}]
        /\ old' = [old EXCEPT ![i] = {}] /\ doomed' = [doomed EXCEPT ![i] = {}]
        /\ left' = [left EXCEPT ![i] = {}]
        /\ UNCHANGED <<day, disk, itemAt, requests, readers, faults, lost, savedAt>>
    BY <1>8 DEF DeleteFiles, Stop, Continue
  <2>2. \A f \in doomed[i] : /\ pc[f] \in Finished /\ ~Young(f)
                             /\ f \notin disk \/ f \in lost
    BY <1>1, <2>1 DEF CleanupFits
  <2>3. SweepOf(i)
    BY <2>1 DEF SweepOf, IInv, TypeOK
  <2>4. TypeOK'
    BY <1>1, <2>1 DEF TypeOK, Stamp, requests, readers
  <2>5. CleanupFits(i)'
    BY <1>1, <2>1 DEF TypeOK, CleanupFits
  <2>6. \A r \in Requests : RequestFits(r)'
    BY <1>1, <2>1, <2>2 DEF RequestFits, Finished, requests
  <2>7. ResultsKept' /\ FilesTracked'
    BY <1>1, <2>1, <2>2 DEF IInv, TypeOK, ResultsKept, FilesTracked, Young, requests
  <2> QED
    BY <2>3, <2>4, <2>5, <2>6, <2>7, SweepKeeps
<1>9. CASE CleanupFails(i)
  <2>1. SweepOf(i)
    BY <1>9 DEF CleanupFails, Stop, Continue, SweepOf, IInv, TypeOK, store
  <2>2. TypeOK'
    BY <1>1, <1>9, HistoryBounds
    DEF CleanupFails, Fault, Stop, Continue, TypeOK, store, requests, readers
  <2>3. CleanupFits(i)'
    BY <1>1, <1>9 DEF CleanupFails, Stop, Continue, TypeOK, CleanupFits
  <2> QED
    BY <1>9, <2>1, <2>2, <2>3, ReadingKeeps DEF CleanupFails
<1> QED
  BY <1>2, <1>3, <1>4, <1>5, <1>6, <1>7, <1>8, <1>9 DEF Cleanup

\* A process dies: its calls are over, its cleanup is gone, what it was writing or about
\* to register is logged as lost.
LEMMA CrashKeeps ==
  ASSUME IInv, NEW i \in Instances, Crash(i) PROVE IInv'
<1>1. PICK parts \in SUBSET {r \in Serving(i) : pc[r] = "writing"} :
        /\ disk' = disk \cup parts
        /\ lost' = lost \cup parts \cup {r \in Serving(i) : pc[r] = "registering"}
  BY DEF Crash
<1>2. /\ pc' = [r \in Requests |-> IF r \in Serving(i) THEN "crashed" ELSE pc[r]]
      /\ step' = [step EXCEPT ![i] = "off"] /\ cutoff' = [cutoff EXCEPT ![i] = 0]
      /\ expired' = [expired EXCEPT ![i] = {}] /\ doomed' = [doomed EXCEPT ![i] = {}]
      /\ old' = [old EXCEPT ![i] = {}] /\ left' = [left EXCEPT ![i] = {}]
      /\ UNCHANGED <<day, rowAt, itemAt, linked, begun, host, readers, savedAt>>
      /\ faults < MaxFaults /\ faults' = faults + 1
  BY DEF Crash, Stop, Continue, Fault
<1>3. Serving(i) \subseteq {r \in Requests : pc[r] \in InFlight}
  BY DEF Serving
<1>4. \A r \in Requests : pc'[r] = IF r \in Serving(i) THEN "crashed" ELSE pc[r]
  BY <1>2
<1>5. TypeOK'
  BY <1>1, <1>2, <1>3, HistoryBounds DEF IInv, TypeOK, readers
<1>6. Settled
  BY <1>2, <1>3, <1>4 DEF Settled, IInv, TypeOK, Finished, InFlight
<1>7. (\A d \in Readers : DownloadFits(d)') /\ DownloadsServed'
  BY <1>2, <1>6, DownloadsStay
<1>8. \A r \in Requests : RequestFits(r)'
  BY <1>1, <1>2, <1>3, <1>4 DEF IInv, RequestFits, Finished, InFlight
<1>9. ASSUME NEW j \in Instances \ {i} PROVE CleanupFits(j)'
  <2>1. UNCHANGED <<step[j], cutoff[j], old[j], doomed[j], left[j]>>
    BY <1>2 DEF IInv, TypeOK
  <2>2. \A f \in Requests : pc[f] \in Finished /\ f \notin disk => f \notin disk'
    BY <1>1, <1>3 DEF Finished
  <2>3. lost \subseteq lost'
    BY <1>1
  <2> QED
    BY <1>6, <2>1, <2>2, <2>3, CleanupStays
<1>10. CleanupFits(i)'
  BY <1>2 DEF IInv, TypeOK, CleanupFits
<1>11. ResultsKept' /\ FilesTracked'
  BY <1>1, <1>2, <1>3, <1>4 DEF IInv, TypeOK, ResultsKept, FilesTracked, Young
<1> QED
  BY <1>5, <1>7, <1>8, <1>9, <1>10, <1>11 DEF IInv

---------------------------------------------------------------------------
(* Theorems                                                                 *)

LEMMA InductiveNext == IInv /\ [Next]_vars => IInv'
<1> SUFFICES ASSUME IInv, [Next]_vars PROVE IInv'
  OBVIOUS
<1>1. CASE UNCHANGED vars
  BY <1>1 DEF vars, IInv, TypeOK, RequestFits, CleanupFits, DownloadFits, ResultsKept,
              DownloadsServed, FilesTracked, Young
<1> QED
  BY <1>1, TickKeeps, ConversionKeeps, DownloadKeeps, CleanupKeeps, CrashKeeps DEF Next

\* The invariant holds for conversions, downloads and cleanups that interleave, fail
\* and crash in any way (HistoryCleanupService, ConversionService, LocalFileStorage).
THEOREM Inductive == Spec => []IInv
  BY InductiveInit, InductiveNext, PTL DEF Spec

\* No cleanup, of any process, takes a result before its retention period is over.
THEOREM ResultsAreKept == Spec => []ResultsKept
<1>1. IInv => ResultsKept
  BY DEF IInv
<1> QED
  BY <1>1, Inductive, PTL

\* No download of a result that is young finds its file missing, nor loses it between
\* the check and the opening of the file.
THEOREM DownloadsAreServed == Spec => []DownloadsServed
<1>1. IInv => DownloadsServed
  BY DEF IInv
<1> QED
  BY <1>1, Inductive, PTL

\* A file that no row knows is one that an error or a crash was logged for, or is being
\* registered.
THEOREM FilesAreTracked == Spec => []FilesTracked
<1>1. IInv => FilesTracked
  BY DEF IInv
<1> QED
  BY <1>1, Inductive, PTL
====
