-------------------------- MODULE SettingsProof --------------------------
(***************************************************************************)
(* Proofs about Settings, for every set of keys, PATCHes, values and first   *)
(* rows, and every number of errors.                                        *)
(***************************************************************************)
EXTENDS Settings, TLAPS

\* The order of the statements does not matter to safety.
WritesOne(p, k) ==
  /\ pc[p] = "writing" /\ k \in todo[p]
  /\ \A q \in Patches : k \notin locked[q]
  /\ ~Rejected(p, k)
  /\ locked' = [locked EXCEPT ![p] = @ \cup {k}]
  /\ todo' = [todo EXCEPT ![p] = @ \ {k}]
  /\ UNCHANGED <<table, body, pc, code, reply, first, found, faults>>

\* A write adds a row to those written, or the transaction is rolled back.
LEMMA WriteCases ==
  ASSUME NEW p \in Patches, Write(p)
  PROVE  \E k \in todo[p] :
           \/ WritesOne(p, k)
           \/ pc[p] = "writing" /\ Rejected(p, k) /\ Rollback(p) /\ UNCHANGED faults
  BY DEF Write, WritesOne

\* Before the first PATCH the invariant holds.
LEMMA InductiveInit == Init => IInv
<1> SUFFICES ASSUME Init PROVE IInv
  OBVIOUS
<1>1. TypeOK
  BY SettingsAssumption DEF Init, TypeOK
<1>2. Outstanding /\ Settled /\ RowsComeFromPatches /\ PatchOutcome
  BY DEF Init, Outstanding, Settled, RowsComeFromPatches, PatchOutcome
<1> QED
  BY <1>1, <1>2 DEF IInv

\* The first read.
LEMMA LoadStep ==
  ASSUME IInv, NEW p \in Patches, Load(p) PROVE IInv'
<1> USE DEF IInv
<1> DEFINE keys == Statements(body[p], table)
<1>1. /\ pc[p] = "idle" /\ todo' = [todo EXCEPT ![p] = keys]
      /\ pc' = [pc EXCEPT ![p] = IF keys = {} THEN "reading" ELSE "writing"]
      /\ found' = [found EXCEPT ![p] = table]
      /\ UNCHANGED <<table, body, locked, code, reply, first, faults>>
  BY DEF Load
<1>2. keys \subseteq Key
  BY DEF Statements
<1>3. \A k \in Key \ keys : body[p][k] # "absent" => table[k] = body[p][k]
  BY DEF Statements, Names
<1>4. keys = Statements(body'[p], found'[p])
  BY <1>1 DEF TypeOK
<1>5. \A q \in Patches \ {p} : Statements(body'[q], found'[q]) = Statements(body[q], found[q])
  BY <1>1 DEF TypeOK
<1> HIDE DEF keys
<1>6. TypeOK'
  BY <1>1, <1>2 DEF TypeOK
<1>7. Outstanding'
  BY <1>1, <1>4, <1>5 DEF TypeOK, Outstanding
<1>8. Settled'
  BY <1>1, <1>2, <1>3 DEF TypeOK, Outstanding, Settled, Others
<1>9. RowsComeFromPatches'
  BY <1>1 DEF TypeOK, RowsComeFromPatches
<1>10. PatchOutcome'
  BY <1>1 DEF TypeOK, PatchOutcome, Others
<1> QED
  BY <1>6, <1>7, <1>8, <1>9, <1>10

\* A statement moves its key from what is left to what is written.
LEMMA WritesOneStep ==
  ASSUME IInv, NEW p \in Patches, NEW k \in todo[p], WritesOne(p, k) PROVE IInv'
<1> USE DEF IInv, WritesOne
<1>1. k \in Key /\ body[p][k] # "null"
  BY DEF TypeOK, Rejected
<1>2. TypeOK'
  BY <1>1 DEF TypeOK
<1>3. Outstanding'
  BY <1>1 DEF TypeOK, Outstanding, Statements
<1>4. Settled'
  BY <1>1 DEF TypeOK, Settled, Others
<1>5. RowsComeFromPatches' /\ PatchOutcome'
  BY DEF RowsComeFromPatches, PatchOutcome, Others
<1> QED
  BY <1>2, <1>3, <1>4, <1>5

\* A failure takes nothing with it; why it failed is what PatchOutcome asks.
LEMMA RollbackStep ==
  ASSUME IInv, NEW p \in Patches, Rollback(p), pc[p] # "done", faults' \in 0..MaxFaults,
         faults' >= faults,
         \/ faults' > 0
         \/ \E k \in Key :
              \/ body[p][k] = "null"
              \/ /\ first[k] = "missing" /\ body[p][k] # "absent"
                 /\ \E q \in Patches \ {p} : body[q][k] # "absent"
  PROVE  IInv'
<1> USE DEF IInv, Rollback
<1>1. TypeOK'
  BY DEF TypeOK
<1>2. Outstanding'
  BY DEF TypeOK, Outstanding, Statements
<1>3. Settled'
  BY DEF TypeOK, Settled, Others
<1>4. RowsComeFromPatches'
  BY DEF TypeOK, RowsComeFromPatches
<1>5. PatchOutcome'
  BY DEF TypeOK, PatchOutcome, Others
<1> QED
  BY <1>1, <1>2, <1>3, <1>4, <1>5

\* A statement is rejected because of a null or because another PATCH inserted the row.
LEMMA RejectedWhy ==
  ASSUME IInv, NEW p \in Patches, NEW k \in todo[p], pc[p] = "writing", Rejected(p, k)
  PROVE  \/ body[p][k] = "null"
         \/ /\ first[k] = "missing" /\ body[p][k] # "absent"
            /\ \E q \in Patches \ {p} : body[q][k] # "absent"
<1> USE DEF IInv
<1>1. k \in Key /\ body[p][k] # "absent"
  BY DEF TypeOK, Outstanding, Statements, Names
<1>2. ASSUME found[p][k] = "missing", table[k] # "missing"
      PROVE  first[k] = "missing" /\ \E q \in Patches \ {p} : body[q][k] # "absent"
  BY <1>1, <1>2 DEF RowsComeFromPatches
<1> QED
  BY <1>1, <1>2 DEF Rejected

\* What is committed, and what it leaves of the others' values.
LEMMA CommitStep ==
  ASSUME IInv, NEW p \in Patches, Commit(p) PROVE IInv'
<1> USE DEF IInv
<1>1. /\ pc[p] = "writing" /\ todo[p] = {}
      /\ table' = [k \in Key |-> IF k \in locked[p] THEN body[p][k] ELSE table[k]]
      /\ locked' = [locked EXCEPT ![p] = {}]
      /\ pc' = [pc EXCEPT ![p] = "reading"]
      /\ UNCHANGED <<body, todo, code, reply, first, found, faults>>
  BY DEF Commit
<1>2. \A k \in locked[p] : k \in Key /\ body[p][k] \in {"on", "off"}
  <2>1. \A k \in locked[p] : k \in Key /\ body[p][k] \notin {"absent", "null"}
    BY <1>1 DEF TypeOK, Outstanding, Statements, Names
  <2>2. \A k \in Key : body[p][k] \in Values
    BY DEF TypeOK
  <2> QED
    BY <2>1, <2>2, SettingsAssumption
<1>3. TypeOK'
  BY <1>1, <1>2 DEF TypeOK, RowValues
<1>4. Outstanding'
  BY <1>1 DEF TypeOK, Outstanding
<1>5. Settled'
  <2>1. ASSUME NEW q \in Patches, pc'[q] \in {"writing", "reading"},
               NEW k \in Key \ (todo'[q] \cup locked'[q]), body[q][k] # "absent"
        PROVE  table'[k] = body[q][k] \/ Others(q, k)
    <3>1. CASE q = p
      BY <1>1, <2>1, <3>1 DEF TypeOK, Settled
    <3>2. CASE q # p /\ k \in locked[p]
      BY <1>1, <1>2, <2>1, <3>2 DEF Others
    <3>3. CASE q # p /\ k \notin locked[p]
      BY <1>1, <2>1, <3>3 DEF TypeOK, Settled
    <3> QED
      BY <3>1, <3>2, <3>3
  <2> QED
    BY <1>1, <2>1 DEF Settled, Others
<1>6. RowsComeFromPatches'
  BY <1>1, <1>2 DEF TypeOK, RowsComeFromPatches
<1>7. PatchOutcome'
  BY <1>1 DEF PatchOutcome, Others
<1> QED
  BY <1>3, <1>4, <1>5, <1>6, <1>7

\* The answer reports the rows as they are now.
LEMMA ReadBackStep ==
  ASSUME IInv, NEW p \in Patches, ReadBack(p) PROVE IInv'
<1> USE DEF IInv
<1>1. /\ pc[p] = "reading" /\ reply' = [reply EXCEPT ![p] = Reported]
      /\ code' = [code EXCEPT ![p] = 200] /\ pc' = [pc EXCEPT ![p] = "done"]
      /\ UNCHANGED <<table, body, todo, locked, first, found, faults>>
  BY DEF ReadBack
<1>2. TypeOK'
  BY <1>1 DEF TypeOK, Reported
<1>3. Outstanding' /\ Settled'
  BY <1>1 DEF TypeOK, Outstanding, Settled, Others, Statements
<1>4. RowsComeFromPatches'
  BY <1>1 DEF TypeOK, RowsComeFromPatches
<1>5. ASSUME NEW k \in Key, body[p][k] # "absent"
      PROVE  (k \in Reported <=> body[p][k] = "on") \/ Others(p, k)
  <2>1. k \notin todo[p] \cup locked[p]
    BY <1>1 DEF Outstanding
  <2>2. CASE table[k] = body[p][k]
    <3>1. body[p][k] \in {"on", "off"}
      BY <1>5, <2>2, SettingsAssumption DEF TypeOK, RowValues
    <3> QED
      BY <2>2, <3>1 DEF Reported, Enabled
  <2> QED
    BY <1>1, <1>5, <2>1, <2>2 DEF Settled
<1>6. PatchOutcome'
  <2>1. code'[p] = 200 /\ reply'[p] = Reported
    BY <1>1 DEF TypeOK
  <2>2. \A q \in Patches \ {p} : code'[q] = code[q] /\ reply'[q] = reply[q]
    BY <1>1 DEF TypeOK
  <2>3. \A q \in Patches, k \in Key : Others(q, k)' <=> Others(q, k)
    BY <1>1 DEF Others
  <2> QED
    BY <1>1, <1>5, <2>1, <2>2, <2>3 DEF PatchOutcome
<1> QED
  BY <1>2, <1>3, <1>4, <1>6

\* Every step preserves the invariant.
LEMMA InductiveStep == IInv /\ [Next]_vars => IInv'
<1> SUFFICES ASSUME IInv, [Next]_vars PROVE IInv'
  OBVIOUS
<1>1. CASE UNCHANGED vars
  BY <1>1 DEF vars, IInv, TypeOK, Outstanding, Settled, RowsComeFromPatches, PatchOutcome,
     Others, Statements
<1>2. ASSUME NEW p \in Patches, Write(p) PROVE IInv'
  <2>1. PICK k \in todo[p] :
          \/ WritesOne(p, k)
          \/ pc[p] = "writing" /\ Rejected(p, k) /\ Rollback(p) /\ UNCHANGED faults
    BY <1>2, WriteCases
  <2>2. CASE WritesOne(p, k)
    BY <2>2, WritesOneStep
  <2>3. CASE pc[p] = "writing" /\ Rejected(p, k) /\ Rollback(p) /\ UNCHANGED faults
    <3>1. k \in Key /\ faults' \in 0..MaxFaults /\ faults' >= faults
      BY <2>3, SettingsAssumption DEF IInv, TypeOK
    <3> QED
      BY <2>3, <3>1, RejectedWhy, RollbackStep
  <2> QED
    BY <2>1, <2>2, <2>3
<1>3. ASSUME NEW p \in Patches, Fails(p) PROVE IInv'
  <2>1. /\ faults' \in 0..MaxFaults /\ faults' >= faults /\ faults' > 0
    BY <1>3, SettingsAssumption DEF Fails, IInv, TypeOK
  <2> QED
    BY <1>3, <2>1, RollbackStep DEF Fails
<1> QED
  BY <1>1, <1>2, <1>3, LoadStep, CommitStep, ReadBackStep DEF Next, Step

---------------------------------------------------------------------------
(* The theorems                                                             *)

\* IInv: a transaction's writes are what it found different, the rest of what a PATCH
\* names has its value unless another PATCH differs, and rows come from PATCHes.
THEOREM Inductive == Spec => []IInv
  BY InductiveInit, InductiveStep, PTL DEF Spec

\* PatchOutcome: an answer shows the values asked for, and a failure has a reason.
THEOREM AnswersShowValues == Spec => []PatchOutcome
<1>1. IInv => PatchOutcome
  BY DEF IInv
<1> QED
  BY <1>1, Inductive, PTL

\* AllOrNothing: the table changes by whole PATCHes.
THEOREM SavedAsAWhole == Spec => AllOrNothing
<1> DEFINE Whole(p) ==
      /\ pc[p] # "reading" /\ pc'[p] = "reading"
      /\ \A k \in Key : body[p][k] # "absent" => body[p][k] \in {table'[k], found[p][k]}
<1>1. ASSUME IInv, NEW p \in Patches, Commit(p) PROVE Whole(p)
  <2>1. locked[p] = Statements(body[p], found[p])
    BY <1>1 DEF Commit, IInv, Outstanding
  <2> QED
    BY <1>1, <2>1 DEF Commit, IInv, TypeOK, Statements, Names
<1>2. IInv /\ [Next]_vars => (table' # table => \E p \in Patches : Whole(p))
  <2> SUFFICES ASSUME IInv, [Next]_vars, table' # table PROVE \E p \in Patches : Whole(p)
    OBVIOUS
  <2>1. PICK p \in Patches : Commit(p)
    BY DEF Next, Step, Load, Write, ReadBack, Fails, Rollback, vars
  <2> QED
    BY <1>1, <2>1
<1>3. IInv /\ [Next]_vars =>
        [table' # table => \E p \in Patches : Whole(p)]_vars
  BY <1>2
<1> QED
  BY <1>3, Inductive, PTL DEF Spec, AllOrNothing
====
