---------------------------- MODULE RbacCache ----------------------------
(***************************************************************************)
(* RbacCacheService: the copy of the access configuration that every server  *)
(* process answers hasPermission from.  The configuration (roles,            *)
(* permissions and grants, joined by one query) is abstracted to a version:  *)
(* the number of changes committed so far.                                   *)
(*                                                                         *)
(* The services of roles, permissions and grants commit a change and then    *)
(* emit `rbac.changed' inside their own process; the handler sends the query *)
(* and replaces the copy when the answer arrives.  Nothing keeps two reloads *)
(* apart: their queries go to different connections of a pool and may be     *)
(* answered in any order.  A failed one is logged and forgotten.             *)
(***************************************************************************)
EXTENDS Naturals, FiniteSets

CONSTANTS
  Instances,   \* the server processes
  Changes,     \* the create, update and remove calls of a run
  Unset,       \* `cache' before the first reload; a reload before its answer
  MaxErrors,   \* bound: failed reloads in a run
  MaxCrashes   \* bound: crashes in a run

ASSUME RbacCacheBounds ==
  /\ Unset \notin Nat
  /\ MaxErrors \in Nat
  /\ MaxCrashes \in Nat

VARIABLES
  version,  \* changes committed
  change,   \* where each change stands
  host,     \* the process that serves each change
  state,    \* "down", "booting" or "up", for each process
  copies,   \* the copy of each process
  reloads,  \* reloads in flight at each process: their number and the answer
  sent,     \* reloads each process has started
  landed,   \* history: the reload of each process whose answer arrived last
  owed,     \* history: the newest version each process has reason to know: what was
            \* committed before it booted, and by the changes it served since
  errors,   \* failed reloads so far
  crashes   \* crashes so far

cacheVars == <<version, change, host, state, copies, reloads, sent,
               landed, owed, errors, crashes>>

ReloadInFlight == [no : Nat, got : Nat \cup {Unset}]

CacheInit ==
  /\ version = 0
  /\ change = [m \in Changes |-> "asked"]
  /\ host \in [Changes -> Instances]
  /\ state = [i \in Instances |-> "down"]
  /\ copies = [i \in Instances |-> Unset]
  /\ reloads = [i \in Instances |-> {}]
  /\ sent = [i \in Instances |-> 0]
  /\ landed = [i \in Instances |-> 0]
  /\ owed = [i \in Instances |-> 0]
  /\ errors = 0
  /\ crashes = 0

---------------------------------------------------------------------------
\* Faulty: a reload that is under way is taken to be enough.
StartReloadOnce(i) ==
  IF reloads[i] # {} THEN UNCHANGED <<sent, reloads>> ELSE
  /\ sent' = [sent EXCEPT ![i] = @ + 1]
  /\ reloads' = [reloads EXCEPT ![i] = @ \cup {[no |-> sent[i] + 1, got |-> Unset]}]

\* reloadCache: send the query of findForCache.
StartReload(i) ==
  /\ sent' = [sent EXCEPT ![i] = @ + 1]
  /\ reloads' = [reloads EXCEPT ![i] = @ \cup {[no |-> sent[i] + 1, got |-> Unset]}]

\* The database takes the snapshot that answers the query.
Read(i) ==
  /\ \E q \in reloads[i] :
       /\ q.got = Unset
       /\ reloads' = [reloads EXCEPT ![i] = (@ \ {q}) \cup {[q EXCEPT !.got = version]}]
  /\ UNCHANGED <<version, change, host, state, copies, sent, landed, owed, errors, crashes>>

\* onModuleInit awaited the first reload: the process starts to serve.
Serve(i) == state' = [state EXCEPT ![i] = "up"]

\* The answer arrives: build the new copy, then put it in place.
Finish(i) ==
  /\ \E q \in reloads[i] :
       /\ q.got # Unset
       /\ copies' = [copies EXCEPT ![i] = q.got]
       /\ reloads' = [reloads EXCEPT ![i] = @ \ {q}]
       /\ landed' = [landed EXCEPT ![i] = q.no]
  /\ Serve(i)
  /\ UNCHANGED <<version, change, host, sent, owed, errors, crashes>>

\* The query fails: the catch clause logs it and the old copy stays.
ReloadFails(i) ==
  /\ errors < MaxErrors
  /\ errors' = errors + 1
  /\ \E q \in reloads[i] : reloads' = [reloads EXCEPT ![i] = @ \ {q}]
  /\ Serve(i)
  /\ UNCHANGED <<version, change, host, copies, sent, landed, owed, crashes>>

---------------------------------------------------------------------------
\* A service's create, update or remove commits ...
Commit(m) ==
  /\ change[m] = "asked"
  /\ state[host[m]] = "up"
  /\ version' = version + 1
  /\ change' = [change EXCEPT ![m] = "committed"]
  /\ owed' = [owed EXCEPT ![host[m]] = version']
  /\ UNCHANGED <<host, state, copies, reloads, sent, landed, errors, crashes>>

\* ... or is refused, or its statement fails; nothing is emitted.
Refuse(m) ==
  /\ change[m] = "asked"
  /\ state[host[m]] = "up"
  /\ change' = [change EXCEPT ![m] = "refused"]
  /\ UNCHANGED <<version, host, state, copies, reloads, sent, landed, owed, errors, crashes>>

\* Faulty: no event is emitted.
EmitNothing(m) ==
  /\ change[m] = "committed"
  /\ change' = [change EXCEPT ![m] = "emitted"]
  /\ UNCHANGED <<version, host, state, copies, reloads, sent, landed, owed, errors, crashes>>

\* eventEmitter.changed(): the handler of the same process runs at once.
Emit(m) ==
  /\ change[m] = "committed"
  /\ change' = [change EXCEPT ![m] = "emitted"]
  /\ StartReload(host[m])
  /\ UNCHANGED <<version, host, state, copies, landed, owed, errors, crashes>>

---------------------------------------------------------------------------
\* onModuleInit
Boot(i) ==
  /\ state[i] = "down"
  /\ state' = [state EXCEPT ![i] = "booting"]
  /\ StartReload(i)
  /\ owed' = [owed EXCEPT ![i] = version]
  /\ UNCHANGED <<version, change, host, copies, landed, errors, crashes>>

\* The process dies with its copy, its reloads and the changes it was serving.
Crash(i) ==
  /\ crashes < MaxCrashes
  /\ crashes' = crashes + 1
  /\ state[i] # "down"
  /\ state' = [state EXCEPT ![i] = "down"]
  /\ copies' = [copies EXCEPT ![i] = Unset]
  /\ reloads' = [reloads EXCEPT ![i] = {}]
  /\ change' = [m \in Changes |-> IF host[m] = i /\ change[m] = "committed"
                                    THEN "lost" ELSE change[m]]
  /\ UNCHANGED <<version, host, sent, landed, owed, errors>>

Instance(i) == Boot(i) \/ Read(i) \/ Finish(i) \/ ReloadFails(i)
Mutation(m) == Commit(m) \/ Refuse(m) \/ Emit(m)

CacheNext ==
  \/ \E i \in Instances : Instance(i) \/ Crash(i)
  \/ \E m \in Changes : Mutation(m)

CacheSpec == CacheInit /\ [][CacheNext]_cacheVars

\* Queries are answered, processes are restarted, and a change that was committed
\* is emitted; nobody has to ask for one.
CacheFairSpec ==
  /\ CacheSpec
  /\ \A i \in Instances : WF_cacheVars(Boot(i)) /\ WF_cacheVars(Read(i)) /\ WF_cacheVars(Finish(i))
  /\ \A m \in Changes : WF_cacheVars(Emit(m))

---------------------------------------------------------------------------
(* Properties                                                               *)

\* Every variable keeps its type.
CacheTypeOK ==
  /\ version \in Nat
  /\ change \in [Changes -> {"asked", "refused", "committed", "emitted", "lost"}]
  /\ host \in [Changes -> Instances]
  /\ state \in [Instances -> {"down", "booting", "up"}]
  /\ copies \in [Instances -> Nat \cup {Unset}]
  /\ reloads \in [Instances -> SUBSET ReloadInFlight]
  /\ sent \in [Instances -> Nat]
  /\ landed \in [Instances -> Nat]
  /\ owed \in [Instances -> Nat]
  /\ errors \in 0..MaxErrors
  /\ crashes \in 0..MaxCrashes

Emitting(i) == \E m \in Changes : host[m] = i /\ change[m] = "committed"

\* The newest reload of a process was answered last: it did not fail, and no older one
\* has overtaken it.
NewestLanded(i) == landed[i] = sent[i]

\* Every process decides by the changes it served itself since it booted, and by all
\* those committed before: failed reloads, restarts and reloads that overlap leave no
\* trace once the newest one is answered last.
OwnChangesKnown ==
  \A i \in Instances :
    state[i] = "up" /\ ~Emitting(i) /\ NewestLanded(i) =>
      copies[i] \in Nat /\ owed[i] <= copies[i]

\* Once changes stop, every process comes to that state for good, unless its newest
\* reload failed or was overtaken.
Converges ==
  <>[](\A i \in Instances :
         /\ state[i] = "up" /\ reloads[i] = {}
         /\ NewestLanded(i) => copies[i] \in Nat /\ owed[i] <= copies[i])

\* "Dynamic reload of active access configuration across application instances": in
\* the end every process decides by the newest configuration.
ReachesAll == <>[](\A i \in Instances : state[i] = "up" /\ copies[i] = version)

---------------------------------------------------------------------------
\* The inductive invariant: the newest reload of a process was sent after the newest
\* change it emitted, so its answer is as new as that change.

\* Reloads are numbered in the order they were sent, and a reload in flight has not
\* been answered.
Numbered ==
  \A i \in Instances :
    /\ landed[i] <= sent[i]
    /\ \A q \in reloads[i] : q.no <= sent[i] /\ q.no # landed[i]
    /\ \A p, q \in reloads[i] : p.no = q.no => p = q

OwedCommitted == \A i \in Instances : owed[i] <= version

\* With its changes emitted, what the newest reload of a process reads has them all.
NewestIsFresh ==
  \A i \in Instances : ~Emitting(i) =>
    \A q \in reloads[i] : q.no = sent[i] /\ q.got # Unset => owed[i] <= q.got

\* Until a process has booted, its newest reload has not been answered.
BootUnanswered ==
  \A i \in Instances : state[i] # "up" /\ reloads[i] # {} => ~NewestLanded(i)

CacheInv ==
  /\ CacheTypeOK
  /\ Numbered
  /\ OwedCommitted
  /\ NewestIsFresh
  /\ BootUnanswered
  /\ OwnChangesKnown
====
