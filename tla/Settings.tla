---------------------------- MODULE Settings ----------------------------
(***************************************************************************)
(* The verification settings: SettingsService and its repository, PATCHed by *)
(* several administrators at once.                                          *)
(*                                                                         *)
(* Repository.save reads the rows first, outside of its transaction; it then *)
(* inserts the keys it found missing and updates those it found different,   *)
(* and nothing else.  The transaction is modelled statement by statement,    *)
(* with the row locks and the primary key of PostgreSQL.                     *)
(***************************************************************************)
EXTENDS Naturals, Sequences, FiniteSets, SequencesExt

CONSTANTS
  Patches,    \* PATCH requests
  Keys,       \* the setting keys, in the order of updateVerificationSettings
  OnByDefault,\* the keys getVerificationSettings reports as on without a row
  Values,     \* what a PATCH may say of a key: "on", "off", "null", "absent"
  Rows,       \* what the table may hold at first
  MaxFaults   \* bound: errors of the database in a run

Key == Range(Keys)

\* jsonb values: true, false, {"enabled": true}, {}; or no row.
RowValues == {"on", "off", "enabled", "empty", "missing"}

ASSUME SettingsAssumption ==
  /\ IsInjective(Keys) /\ OnByDefault \subseteq Key
  /\ Values \subseteq {"on", "off", "null", "absent"} /\ Rows \subseteq RowValues
  /\ MaxFaults \in Nat

VARIABLES
  table,   \* the committed rows
  body,    \* what each PATCH says
  pc,
  todo,    \* the keys its transaction has still to write
  locked,  \* the rows it has written
  code,    \* its status, 0 before
  reply,   \* the keys its answer reports as on
  first,   \* history: the table at the start
  found,   \* history: the rows each PATCH read
  faults   \* errors so far

vars == <<table, body, pc, todo, locked, code, reply, first, found, faults>>

Init ==
  /\ table \in [Key -> Rows]
  /\ body \in [Patches -> [Key -> Values]]
  /\ pc = [p \in Patches |-> "idle"]
  /\ todo = [p \in Patches |-> {}]
  /\ locked = [p \in Patches |-> {}]
  /\ code = [p \in Patches |-> 0]
  /\ reply = [p \in Patches |-> {}]
  /\ first = table
  /\ found = [p \in Patches |-> table]
  /\ faults = 0

---------------------------------------------------------------------------
(* What a row means                                                         *)

\* isFeatureEnabled, which sign-up and sign-in ask.
Enabled(row) == row \in {"on", "enabled"}

\* parseBoolean, of which the settings are reported.
Reported == {k \in Key : IF table[k] = "missing" THEN k \in OnByDefault ELSE Enabled(table[k])}

---------------------------------------------------------------------------
(* PATCH admin/settings/verification                                        *)

\* Faulty: what is false is not saved.
NamesTrue(b, k) == b[k] \in {"on", "null"}

\* A key with null passes @IsOptional and is not undefined.
Names(b, k) == b[k] # "absent"

\* What has to be written; a row that has its value already is not.
Statements(b, t) == {k \in Key : Names(b, k) /\ t[k] # b[k]}

\* Without anything to write there is no transaction.
Load(p) ==
  /\ pc[p] = "idle"
  /\ LET keys == Statements(body[p], table)
     IN  /\ todo' = [todo EXCEPT ![p] = keys]
         /\ pc' = [pc EXCEPT ![p] = IF keys = {} THEN "reading" ELSE "writing"]
  /\ found' = [found EXCEPT ![p] = table]
  /\ UNCHANGED <<table, body, locked, code, reply, first, faults>>

\* The transaction is rolled back, the answer is 500.
Rollback(p) ==
  /\ pc' = [pc EXCEPT ![p] = "done"]
  /\ code' = [code EXCEPT ![p] = 500]
  /\ todo' = [todo EXCEPT ![p] = {}]
  /\ locked' = [locked EXCEPT ![p] = {}]
  /\ UNCHANGED <<table, body, reply, first, found>>

\* value is NOT NULL, key is the primary key: of two inserts the second fails.
Rejected(p, k) ==
  \/ body[p][k] = "null"
  \/ found[p][k] = "missing" /\ table[k] # "missing"

Position(k) == CHOOSE i \in DOMAIN Keys : Keys[i] = k

\* Faulty: what is switched on is written before what is switched off.
BeforeByValue(p, j, k) ==
  \/ body[p][j] = "on" /\ body[p][k] # "on"
  \/ (body[p][j] = "on" <=> body[p][k] = "on") /\ Position(j) < Position(k)

\* Inserts come before updates, and each in the order of the keys.
Before(p, j, k) ==
  \/ found[p][j] = "missing" /\ found[p][k] # "missing"
  \/ (found[p][j] = "missing" <=> found[p][k] = "missing") /\ Position(j) < Position(k)

\* Faulty: every statement is a transaction of its own.
WriteAlone(p) ==
  /\ pc[p] = "writing"
  /\ \E k \in todo[p] :
       /\ \A j \in todo[p] \ {k} : Before(p, k, j)
       /\ IF Rejected(p, k) THEN Rollback(p) /\ UNCHANGED faults
          ELSE /\ table' = [table EXCEPT ![k] = body[p][k]]
               /\ todo' = [todo EXCEPT ![p] = @ \ {k}]
               /\ UNCHANGED <<body, pc, locked, code, reply, first, found, faults>>

\* A statement waits for a transaction that has written the row.
Write(p) ==
  /\ pc[p] = "writing"
  /\ \E k \in todo[p] :
       /\ \A j \in todo[p] \ {k} : Before(p, k, j)
       /\ \A q \in Patches : k \notin locked[q]
       /\ IF Rejected(p, k) THEN Rollback(p)
          ELSE /\ locked' = [locked EXCEPT ![p] = @ \cup {k}]
               /\ todo' = [todo EXCEPT ![p] = @ \ {k}]
               /\ UNCHANGED <<table, body, pc, code, reply, first, found>>
  /\ UNCHANGED faults

Commit(p) ==
  /\ pc[p] = "writing" /\ todo[p] = {}
  /\ table' = [k \in Key |-> IF k \in locked[p] THEN body[p][k] ELSE table[k]]
  /\ locked' = [locked EXCEPT ![p] = {}]
  /\ pc' = [pc EXCEPT ![p] = "reading"]
  /\ UNCHANGED <<body, todo, code, reply, first, found, faults>>

ReadBack(p) ==
  /\ pc[p] = "reading"
  /\ reply' = [reply EXCEPT ![p] = Reported]
  /\ code' = [code EXCEPT ![p] = 200]
  /\ pc' = [pc EXCEPT ![p] = "done"]
  /\ UNCHANGED <<table, body, todo, locked, first, found, faults>>

\* Any statement may fail, the commit and the last read too.
Fails(p) ==
  /\ pc[p] # "done"
  /\ faults < MaxFaults /\ faults' = faults + 1
  /\ Rollback(p)

Step(p) == Load(p) \/ Write(p) \/ Commit(p) \/ ReadBack(p)

Next == \E p \in Patches : Step(p) \/ Fails(p)

\* The database carries out what it is asked to.
Spec == Init /\ [][Next]_vars /\ \A p \in Patches : WF_vars(Step(p))

---------------------------------------------------------------------------
(* Properties                                                               *)

\* Every variable keeps its type; no row is locked twice.
TypeOK ==
  /\ table \in [Key -> RowValues] /\ first \in [Key -> RowValues]
  /\ body \in [Patches -> [Key -> Values]]
  /\ pc \in [Patches -> {"idle", "writing", "reading", "done"}]
  /\ todo \in [Patches -> SUBSET Key] /\ locked \in [Patches -> SUBSET Key]
  /\ \A p, q \in Patches : p # q => locked[p] \cap locked[q] = {}
  /\ code \in [Patches -> {0, 200, 500}]
  /\ reply \in [Patches -> SUBSET Key]
  /\ found \in [Patches -> [Key -> RowValues]]
  /\ faults \in 0..MaxFaults

\* A PATCH is saved as a whole or not at all: the table changes in one step per
\* PATCH, after which each key it names has its value, or had it when it was read.
AllOrNothing ==
  [][table' # table =>
       \E p \in Patches :
         /\ pc[p] # "reading" /\ pc'[p] = "reading"
         /\ \A k \in Key : body[p][k] # "absent" => body[p][k] \in {table'[k], found[p][k]}]_vars

Others(p, k) == \E q \in Patches \ {p} : body[q][k] \notin {"absent", body[p][k]}

\* The answer to a PATCH shows what it asked for, but for keys that another PATCH
\* wants to be different. One that says nothing of null fails only by an error of the
\* database or because another inserts a row as well.
PatchOutcome ==
  \A p \in Patches :
    /\ code[p] = 200 =>
         \A k \in Key : body[p][k] # "absent" =>
           (k \in reply[p] <=> body[p][k] = "on") \/ Others(p, k)
    /\ code[p] = 500 =>
         \/ faults > 0
         \/ \E k \in Key :
              \/ body[p][k] = "null"
              \/ /\ first[k] = "missing" /\ body[p][k] # "absent"
                 /\ \E q \in Patches \ {p} : body[q][k] # "absent"

\* What a transaction has written and has still to write is what it found different.
Outstanding ==
  \A p \in Patches :
    /\ IF pc[p] = "writing"
         THEN todo[p] \cup locked[p] = Statements(body[p], found[p])
         ELSE todo[p] = {} /\ locked[p] = {}
    /\ \A k \in locked[p] : body[p][k] # "null"

\* The rest of what it names is as it wants it, but for the other PATCHes.
Settled ==
  \A p \in Patches : pc[p] \in {"writing", "reading"} =>
    \A k \in Key \ (todo[p] \cup locked[p]) :
      body[p][k] # "absent" => table[k] = body[p][k] \/ Others(p, k)

\* Rows are never deleted, and only a PATCH that is through has changed one.
RowsComeFromPatches ==
  \A k \in Key :
    /\ table[k] = "missing" => first[k] = "missing"
    /\ \A p \in Patches : found[p][k] = "missing" => first[k] = "missing"
    /\ table[k] # first[k] =>
         \E q \in Patches : body[q][k] # "absent" /\ pc[q] \in {"reading", "done"}

\* The inductive invariant.
IInv == TypeOK /\ Outstanding /\ Settled /\ RowsComeFromPatches /\ PatchOutcome

\* The rows are written in one order, so no two transactions wait for each other and
\* every PATCH is answered.
PatchAnswered == \A p \in Patches : <>(pc[p] = "done")

\* "Whether email verification is required during registration": what the answer to
\* a PATCH says of the settings, while there is no other, is what sign-up and sign-in do.
ReportedIsEnforced ==
  \A p \in Patches :
    code[p] = 200 /\ (\A q \in Patches \ {p} : pc[q] = "idle")
      => reply[p] = {k \in Key : Enabled(table[k])}

\* The effect of a PATCH on the keys that are on.
Apply(on, p) ==
  {k \in Key : IF body[p][k] = "absent" THEN k \in on ELSE body[p][k] = "on"}

\* "saves all settings when complete DTO is provided": successful PATCHes leave what
\* they would have, one after the other.
OneAfterTheOther ==
  (\A p \in Patches : code[p] = 200) =>
    \E order \in {s \in [1..Cardinality(Patches) -> Patches] : IsInjective(s)} :
      {k \in Key : Enabled(table[k])}
        = FoldLeft(Apply, {k \in Key : Enabled(first[k])}, order)
====
