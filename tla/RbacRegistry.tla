-------------------------- MODULE RbacRegistry --------------------------
(***************************************************************************)
(* Roles, permissions and grants: the create, update and remove calls of     *)
(* RolesService, PermissionsService and GrantsService, their tables, and the *)
(* copy of the grants that RbacCacheService answers hasPermission from.      *)
(* Every call reads, checks and writes in separate statements, without a     *)
(* transaction, and announces its change when the write has returned; other  *)
(* calls run in between.                                                     *)
(*                                                                         *)
(* Roles and permissions are treated alike by their services and share the   *)
(* actions here; a role has no actions.  RbacCache has the two halves of a   *)
(* reload, its failures and crashes; here its query is answered in one step. *)
(***************************************************************************)
EXTENDS Naturals

CONSTANTS
  Roles, Permissions,  \* their ids
  Names,               \* their names
  Actions,             \* what a permission may offer
  Requests,            \* calls to the services; also the ids of the grants they create
  Seeded,              \* id of a grant that was there before
  None                 \* not granted

ASSUME RegistryIds ==
  /\ Roles \cap Permissions = {}
  /\ Seeded \notin Requests
  /\ \A acts \in SUBSET Actions : acts # None
  /\ \A requirement \in Names \X Actions : requirement # None

Entry == [id : Roles, name : Names, actions : {{}}] \cup
         [id : Permissions, name : Names, actions : SUBSET Actions \ {{}}]
\* No actions stand for NULL: the grant allows every action.
Grant == [id : Requests \cup {Seeded}, role : Roles, permission : Permissions,
          actions : SUBSET Actions]

VARIABLES
  entries,  \* rows of roles and permissions
  grants,   \* rows of grants
  pc,       \* where each call stands
  row,      \* the entity it works on
  pending,  \* reloads of the cache under way
  cache,    \* RbacCacheService.cache, by role name and permission name
  used,     \* history: ids of roles and permissions that have been given out
  offered   \* history: the actions each permission has ever offered

tables == <<entries, grants>>
vars == <<entries, grants, pc, row, pending, cache, used, offered>>

Goto(r, label) == pc' = [pc EXCEPT ![r] = label]
Take(r, entity) == row' = [row EXCEPT ![r] = entity]

SameKind(e, o) == e.id \in Roles <=> o.id \in Roles
Exists(id) == \E e \in entries : e.id = id
EntryOf(id) == CHOOSE e \in entries : e.id = id

---------------------------------------------------------------------------
(* The cache                                                                *)

GrantsNamed(rn, pn) ==
  {g \in grants : EntryOf(g.role).name = rn /\ EntryOf(g.permission).name = pn}

\* reloadCache: grants of one pair of names would overwrite one another.
BuildCache ==
  [n \in Names \X Names |->
     IF GrantsNamed(n[1], n[2]) = {} THEN None
     ELSE (CHOOSE g \in GrantsNamed(n[1], n[2]) : TRUE).actions]

HasPermission(userRoles, permission, action) ==
  \E rn \in userRoles :
    LET granted == cache[<<rn, permission>>]
    IN  granted # None /\ (granted = {} \/ action \in granted)

\* RbacGuard.canActivate: a route about the caller, one that requires nothing, or one
\* whose permission and action a role in the caller's token has.
CanActivate(userRoles, self, requirement) ==
  self \/ requirement = None \/ HasPermission(userRoles, requirement[1], requirement[2])

Reload ==
  /\ pending > 0
  /\ pending' = pending - 1
  /\ cache' = BuildCache
  /\ UNCHANGED <<tables, pc, row, used, offered>>

\* Faulty: announced by grants only.
AnnounceGrants(r) ==
  /\ pc[r] = "announcing"
  /\ pending' = IF row[r] \in Grant THEN pending + 1 ELSE pending
  /\ Goto(r, "done")
  /\ UNCHANGED <<tables, row, cache, used, offered>>

\* eventEmitter.changed() when the statement has returned.
Announce(r) ==
  /\ pc[r] = "announcing"
  /\ pending' = pending + 1
  /\ Goto(r, "done")
  /\ UNCHANGED <<tables, row, cache, used, offered>>

---------------------------------------------------------------------------
(* RolesService and PermissionsService                                      *)

Taken(name, e) == \E o \in entries : SameKind(o, e) /\ o.name = name

\* create: 409 when findByName finds the name.
CreateEntry(r) ==
  /\ pc[r] = "idle"
  /\ \E e \in Entry :
       /\ e.id \notin used
       /\ used' = used \cup {e.id}
       /\ Take(r, e)
       /\ Goto(r, IF Taken(e.name, e) THEN "refused" ELSE "saving")
  /\ UNCHANGED <<tables, pending, cache, offered>>

\* update: 404 without the row.
UpdateEntry(r) ==
  /\ pc[r] = "idle"
  /\ \/ (\E id \in used : ~Exists(id)) /\ Goto(r, "refused") /\ UNCHANGED row
     \/ \E e \in entries : Take(r, e) /\ Goto(r, "changing")
  /\ UNCHANGED <<tables, pending, cache, used, offered>>

\* 409 when the name is to change and is taken; else assign what the DTO has.
ChangeEntry(r) ==
  /\ pc[r] = "changing"
  /\ \E e \in Entry :
       /\ e.id = row[r].id
       /\ IF e.name # row[r].name /\ Taken(e.name, e)
            THEN Goto(r, "refused") /\ UNCHANGED row
            ELSE Goto(r, "saving") /\ Take(r, e)
  /\ UNCHANGED <<tables, pending, cache, used, offered>>

\* Faulty: names have no unique index.
SaveEntryDuplicate(r) ==
  /\ pc[r] = "saving"
  /\ LET e == row[r]
     IN  /\ entries' = {o \in entries : o.id # e.id} \cup {e}
         /\ offered' = IF e.id \in Permissions
                         THEN [offered EXCEPT ![e.id] = @ \cup e.actions]
                         ELSE offered
  /\ Goto(r, "announcing")
  /\ UNCHANGED <<grants, row, pending, cache, used>>

\* repository.save writes the columns that differ from the row, or inserts the
\* entity when the row is gone. The name is unique.
SaveEntry(r) ==
  /\ pc[r] = "saving"
  /\ LET e == row[r]
         others == {o \in entries : o.id # e.id}
     IN  IF \E o \in others : SameKind(o, e) /\ o.name = e.name
           THEN Goto(r, "failed") /\ UNCHANGED <<entries, offered>>
           ELSE /\ entries' = others \cup {e}
                /\ offered' = IF e.id \in Permissions
                                THEN [offered EXCEPT ![e.id] = @ \cup e.actions]
                                ELSE offered
                /\ Goto(r, "announcing")
  /\ UNCHANGED <<grants, row, pending, cache, used>>

RefersTo(g, id) == g.role = id \/ g.permission = id

\* remove: 404 without the row, 409 when it was read with grants.
RemoveEntry(r) ==
  /\ pc[r] = "idle"
  /\ \/ (\E id \in used : ~Exists(id)) /\ Goto(r, "refused") /\ UNCHANGED row
     \/ \E e \in entries :
          /\ Take(r, e)
          /\ Goto(r, IF \E g \in grants : RefersTo(g, e.id) THEN "refused" ELSE "deleting")
  /\ UNCHANGED <<tables, pending, cache, used, offered>>

\* Faulty: the foreign keys of grants are not there.
DeleteEntryUnchecked(r) ==
  /\ pc[r] = "deleting"
  /\ entries' = {e \in entries : e.id # row[r].id}
  /\ Goto(r, "announcing")
  /\ UNCHANGED <<grants, row, pending, cache, used, offered>>

\* The foreign keys of grants restrict the delete; a row that is gone is no error.
DeleteEntry(r) ==
  /\ pc[r] = "deleting"
  /\ IF \E g \in grants : RefersTo(g, row[r].id)
       THEN Goto(r, "failed") /\ UNCHANGED entries
       ELSE /\ entries' = {e \in entries : e.id # row[r].id}
            /\ Goto(r, "announcing")
  /\ UNCHANGED <<grants, row, pending, cache, used, offered>>

---------------------------------------------------------------------------
(* GrantsService                                                            *)

\* create: 404 without the role.
CreateGrant(r) ==
  /\ pc[r] = "idle"
  /\ \E g \in Grant :
       /\ g.id = r
       /\ {g.role, g.permission} \subseteq used
       /\ Take(r, g)
       /\ Goto(r, IF Exists(g.role) THEN "checking" ELSE "refused")
  /\ UNCHANGED <<tables, pending, cache, used, offered>>

\* Faulty: the actions are not compared with the permission's.
CheckPermissionOnly(r) ==
  /\ pc[r] = "checking"
  /\ Goto(r, IF Exists(row[r].permission) THEN "comparing" ELSE "refused")
  /\ UNCHANGED <<tables, row, pending, cache, used, offered>>

\* 404 without the permission, 400 for actions it does not offer (the code tells so
\* after it has looked for duplicates).
CheckPermission(r) ==
  /\ pc[r] = "checking"
  /\ Goto(r, IF Exists(row[r].permission)
                  /\ row[r].actions \subseteq EntryOf(row[r].permission).actions
               THEN "comparing" ELSE "refused")
  /\ UNCHANGED <<tables, row, pending, cache, used, offered>>

SamePair(g, h) == g.role = h.role /\ g.permission = h.permission

\* 409 when the pair has a grant.
CompareGrants(r) ==
  /\ pc[r] = "comparing"
  /\ Goto(r, IF \E g \in grants : SamePair(g, row[r]) THEN "refused" ELSE "granting")
  /\ UNCHANGED <<tables, row, pending, cache, used, offered>>

\* update: the grant is read with its permission; 404 without it, 400 for actions
\* the permission does not offer. Without actions in the DTO they stay.
UpdateGrant(r) ==
  /\ pc[r] = "idle"
  /\ \/ Goto(r, "refused") /\ UNCHANGED row
     \/ \E g \in grants :
          \E acts \in (SUBSET EntryOf(g.permission).actions) \cup {g.actions} :
            Take(r, [g EXCEPT !.actions = acts]) /\ Goto(r, "granting")
  /\ UNCHANGED <<tables, pending, cache, used, offered>>

\* Faulty: there is no unique index.
SaveGrantDuplicate(r) ==
  /\ pc[r] = "granting"
  /\ IF ~Exists(row[r].role) \/ ~Exists(row[r].permission)
       THEN Goto(r, "failed") /\ UNCHANGED grants
       ELSE /\ grants' = {g \in grants : g.id # row[r].id} \cup {row[r]}
            /\ Goto(r, "announcing")
  /\ UNCHANGED <<entries, row, pending, cache, used, offered>>

\* save, as for entries. The pair is unique, and both ends must exist.
SaveGrant(r) ==
  /\ pc[r] = "granting"
  /\ LET others == {g \in grants : g.id # row[r].id}
     IN  IF \/ ~Exists(row[r].role) \/ ~Exists(row[r].permission)
            \/ \E g \in others : SamePair(g, row[r])
           THEN Goto(r, "failed") /\ UNCHANGED grants
           ELSE grants' = others \cup {row[r]} /\ Goto(r, "announcing")
  /\ UNCHANGED <<entries, row, pending, cache, used, offered>>

\* remove: 404 without the grant.
RemoveGrant(r) ==
  /\ pc[r] = "idle"
  /\ \E g \in grants : Take(r, g)
  /\ Goto(r, "revoking")
  /\ UNCHANGED <<tables, pending, cache, used, offered>>

DeleteGrant(r) ==
  /\ pc[r] = "revoking"
  /\ grants' = {g \in grants : g.id # row[r].id}
  /\ Goto(r, "announcing")
  /\ UNCHANGED <<entries, row, pending, cache, used, offered>>

---------------------------------------------------------------------------
\* A role and a permission, with and without a grant.
Init ==
  /\ entries \in {{a, p} : a \in {e \in Entry : e.id \in Roles},
                           p \in {e \in Entry : e.id \in Permissions}}
  /\ grants \in {{}} \cup
       {{g} : g \in {h \in Grant : /\ h.id = Seeded /\ Exists(h.role) /\ Exists(h.permission)
                                  /\ h.actions \subseteq EntryOf(h.permission).actions}}
  /\ pc = [r \in Requests |-> "idle"]
  /\ row = [r \in Requests |-> None]
  /\ pending = 0
  /\ cache = BuildCache
  /\ used = {e.id : e \in entries}
  /\ offered = [p \in Permissions |-> IF Exists(p) THEN EntryOf(p).actions ELSE {}]

ManageEntry(r) ==
  \/ CreateEntry(r)
  \/ UpdateEntry(r)
  \/ ChangeEntry(r)
  \/ SaveEntry(r)
  \/ RemoveEntry(r)
  \/ DeleteEntry(r)

ManageGrant(r) ==
  \/ CreateGrant(r)
  \/ CheckPermission(r)
  \/ CompareGrants(r)
  \/ UpdateGrant(r)
  \/ SaveGrant(r)
  \/ RemoveGrant(r)
  \/ DeleteGrant(r)

Next ==
  \/ \E r \in Requests : ManageEntry(r) \/ ManageGrant(r) \/ Announce(r)
  \/ Reload

Spec == Init /\ [][Next]_vars

---------------------------------------------------------------------------
(* Properties                                                               *)

\* Every variable keeps its type, an id names one row, and a role or a permission
\* has a name of its own.
TypeOK ==
  /\ entries \subseteq Entry
  /\ \A e, o \in entries : e.id = o.id \/ (SameKind(e, o) /\ e.name = o.name) => e = o
  /\ grants \subseteq Grant
  /\ \A g, h \in grants : g.id = h.id => g = h
  /\ pc \in [Requests -> {"idle", "changing", "saving", "deleting", "checking",
                          "comparing", "granting", "revoking", "announcing",
                          "refused", "failed", "done"}]
  /\ row \in [Requests -> {None} \cup Entry \cup Grant]
  /\ pending \in Nat
  /\ cache \in [Names \X Names -> {None} \cup SUBSET Actions]
  /\ used \subseteq Roles \cup Permissions
  /\ offered \in [Permissions -> SUBSET Actions]

\* "Prevented if active grants exist": a role or a permission is not removed from
\* under a grant, also when the grant is created while the removal is under way.
GrantsResolve == \A g \in grants : Exists(g.role) /\ Exists(g.permission)

\* A role has one grant for a permission, or the cache would keep one of them by
\* chance: two calls that both found none cannot both insert theirs.
OneGrantPerPair == \A g, h \in grants : SamePair(g, h) => g = h

\* A grant names no action its permission has never offered, whatever happens to
\* the permission between the check and the save. (It may name one the permission
\* no longer offers: nobody looks at the grants of a permission that is narrowed.)
OnlyOfferedActions == \A g \in grants : g.actions \subseteq offered[g.permission]

\* The grants are fit to be loaded, whichever calls overlap: both ends exist, a pair
\* has one grant, and it names offered actions only.
GrantsSound == GrantsResolve /\ OneGrantPerPair /\ OnlyOfferedActions

Permitted(rn, pn, action) ==
  \E g \in grants :
    /\ EntryOf(g.role).name = rn /\ EntryOf(g.permission).name = pn
    /\ g.actions = {} \/ action \in g.actions

\* When all changes are announced and loaded, the guard lets a caller do to others what
\* the grants in the database say, under the names roles and permissions have now.
CacheAgrees ==
  pending = 0 /\ (\A r \in Requests : pc[r] # "announcing") =>
    \A userRoles \in SUBSET Names, pn \in Names, action \in Actions :
      CanActivate(userRoles, FALSE, <<pn, action>>)
        <=> \E rn \in userRoles : Permitted(rn, pn, action)

---------------------------------------------------------------------------
(* The inductive invariant                                                  *)

\* What a call is about to write or delete is a row of its table, and a grant that
\* passed the check names offered actions, however old the call's copy is.
CopiesFit ==
  \A r \in Requests :
    /\ pc[r] \in {"changing", "saving", "deleting"} => row[r] \in Entry
    /\ pc[r] \in {"checking", "comparing", "granting", "revoking"} => row[r] \in Grant
    /\ pc[r] \in {"comparing", "granting"} => row[r].actions \subseteq offered[row[r].permission]

\* What the permissions offer now they have offered.
OfferedNow == \A e \in entries : e.id \in Permissions => e.actions \subseteq offered[e.id]

\* The cache lags behind the tables only while a change is announced or loaded.
CacheCurrent ==
  pending = 0 /\ (\A r \in Requests : pc[r] # "announcing") => cache = BuildCache

IInv == TypeOK /\ GrantsSound /\ CopiesFit /\ OfferedNow /\ CacheCurrent
====
