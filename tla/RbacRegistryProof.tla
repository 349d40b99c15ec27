------------------------ MODULE RbacRegistryProof ------------------------
(***************************************************************************)
(* For every set of calls, roles, permissions, names and actions: what the    *)
(* services of RbacRegistry never leave in their tables and in the cache.    *)
(* Then, for the copy of RbacCache, whose reloads take time, fail and crash: *)
(* when a process decides by the newest configuration.                       *)
(***************************************************************************)
EXTENDS RbacRegistry, RbacCache, TLAPS

---------------------------------------------------------------------------
(* The tables and the map that is built from them                           *)

\* EntryOf finds the row of an id that has one.
LEMMA EntryFound ==
  ASSUME NEW id, Exists(id)
  PROVE  EntryOf(id) \in entries /\ EntryOf(id).id = id
  BY DEF Exists, EntryOf

\* Grants that the map would keep under one key are one grant.
LEMMA OneGrantPerName ==
  ASSUME TypeOK, GrantsSound, NEW rn, NEW pn,
         NEW g \in GrantsNamed(rn, pn), NEW h \in GrantsNamed(rn, pn)
  PROVE  g = h
<1>1. /\ g \in grants /\ EntryOf(g.role).name = rn /\ EntryOf(g.permission).name = pn
      /\ h \in grants /\ EntryOf(h.role).name = rn /\ EntryOf(h.permission).name = pn
  BY DEF GrantsNamed
<1>2. /\ g.role \in Roles /\ h.role \in Roles
      /\ g.permission \in Permissions /\ h.permission \in Permissions
  BY <1>1 DEF TypeOK, Grant
<1>3. /\ Exists(g.role) /\ Exists(h.role) /\ Exists(g.permission) /\ Exists(h.permission)
  BY <1>1 DEF GrantsSound, GrantsResolve
<1>4. g.role = h.role
  <2>1. /\ EntryOf(g.role) \in entries /\ EntryOf(g.role).id = g.role
        /\ EntryOf(h.role) \in entries /\ EntryOf(h.role).id = h.role
    BY <1>3, EntryFound
  <2>2. SameKind(EntryOf(g.role), EntryOf(h.role))
    BY <1>2, <2>1 DEF SameKind
  <2>3. EntryOf(g.role) = EntryOf(h.role)
    BY <1>1, <2>1, <2>2 DEF TypeOK
  <2> QED
    BY <2>1, <2>3
<1>5. g.permission = h.permission
  <2>1. /\ EntryOf(g.permission) \in entries /\ EntryOf(g.permission).id = g.permission
        /\ EntryOf(h.permission) \in entries /\ EntryOf(h.permission).id = h.permission
    BY <1>3, EntryFound
  <2>2. SameKind(EntryOf(g.permission), EntryOf(h.permission))
    BY <1>2, <2>1, RegistryIds DEF SameKind
  <2>3. EntryOf(g.permission) = EntryOf(h.permission)
    BY <1>1, <2>1, <2>2 DEF TypeOK
  <2> QED
    BY <2>1, <2>3
<1> QED
  BY <1>1, <1>4, <1>5 DEF GrantsSound, OneGrantPerPair, SamePair

\* What reloadCache builds has the type of the cache.
LEMMA BuildCacheType ==
  ASSUME grants \subseteq Grant
  PROVE  BuildCache \in [Names \X Names -> {None} \cup SUBSET Actions]
<1>1. ASSUME NEW n \in Names \X Names, GrantsNamed(n[1], n[2]) # {}
      PROVE  (CHOOSE g \in GrantsNamed(n[1], n[2]) : TRUE).actions \in SUBSET Actions
  <2>1. (CHOOSE g \in GrantsNamed(n[1], n[2]) : TRUE) \in GrantsNamed(n[1], n[2])
    BY <1>1
  <2>2. GrantsNamed(n[1], n[2]) \subseteq Grant
    BY DEF GrantsNamed
  <2> HIDE DEF GrantsNamed
  <2> QED
    BY <2>1, <2>2 DEF Grant
<1> QED
  BY <1>1 DEF BuildCache

\* It depends on the tables only.
LEMMA BuildCacheUnchanged ==
  ASSUME UNCHANGED tables PROVE BuildCache' = BuildCache
<1>1. entries' = entries /\ grants' = grants
  BY DEF tables
<1> QED
  BY <1>1 DEF BuildCache, GrantsNamed, EntryOf

---------------------------------------------------------------------------
(* The inductive invariant                                                  *)

\* At the start nobody is under way and the cache is loaded.
LEMMA InductiveInit == Init => IInv
<1> SUFFICES ASSUME Init PROVE IInv
  OBVIOUS
<1>1. PICK a \in Entry, p \in Entry :
        a.id \in Roles /\ p.id \in Permissions /\ entries = {a, p}
  BY DEF Init
<1>2. /\ entries \subseteq Entry
      /\ \A e, o \in entries : e.id = o.id \/ (SameKind(e, o) /\ e.name = o.name) => e = o
  BY <1>1, RegistryIds DEF SameKind
<1>3. grants \subseteq Grant /\ \A g, h \in grants : g = h
  BY DEF Init
<1>4. \A g \in grants : /\ Exists(g.role) /\ Exists(g.permission)
                        /\ g.actions \subseteq EntryOf(g.permission).actions
  BY DEF Init
<1>5. \A q \in Permissions : Exists(q) => EntryOf(q).actions \in SUBSET Actions
  BY <1>2, EntryFound DEF Entry
<1>6. offered \in [Permissions -> SUBSET Actions]
  BY <1>5 DEF Init
<1>7. TypeOK
  BY <1>1, <1>2, <1>3, <1>6, BuildCacheType DEF Init, TypeOK, Entry
<1>8. GrantsSound
  <2>1. \A g \in grants : g.permission \in Permissions
    BY <1>3 DEF Grant
  <2> QED
    BY <1>3, <1>4, <2>1 DEF Init, GrantsSound, GrantsResolve, OneGrantPerPair, OnlyOfferedActions
<1>9. OfferedNow
  <2>1. ASSUME NEW e \in entries, e.id \in Permissions PROVE e.actions \subseteq offered[e.id]
    <3>1. Exists(e.id)
      BY DEF Exists
    <3>2. EntryOf(e.id) = e
      BY <3>1, <1>2, EntryFound
    <3> QED
      BY <3>1, <3>2, <2>1 DEF Init
  <2> QED
    BY <2>1 DEF OfferedNow
<1>10. CopiesFit /\ CacheCurrent
  BY DEF Init, CopiesFit, CacheCurrent
<1> QED
  BY <1>7, <1>8, <1>9, <1>10 DEF IInv

\* A step that leaves the tables, the cache, and what is announced alone.
LEMMA QuietStep ==
  ASSUME IInv, UNCHANGED <<entries, grants, cache, pending>>,
         NEW r \in Requests, pc'[r] # "announcing", pc[r] # "announcing",
         \A q \in Requests \ {r} : pc'[q] = pc[q]
  PROVE  CacheCurrent'
<1>1. BuildCache' = BuildCache
  BY BuildCacheUnchanged DEF tables
<1> QED
  BY <1>1 DEF IInv, CacheCurrent

\* A step that does not write the tables: only the call's copy has to be looked at.
LEMMA CopyStep ==
  ASSUME IInv, UNCHANGED <<tables, cache, pending, offered>>,
         NEW r \in Requests, pc[r] # "announcing",
         NEW label \in {"changing", "saving", "deleting", "checking", "comparing",
                        "granting", "revoking", "refused", "failed"},
         pc' = [pc EXCEPT ![r] = label],
         NEW copy \in {None} \cup Entry \cup Grant,
         row' = [row EXCEPT ![r] = copy],
         label \in {"changing", "saving", "deleting"} => copy \in Entry,
         label \in {"checking", "comparing", "granting", "revoking"} => copy \in Grant,
         label \in {"comparing", "granting"} =>
           copy.actions \subseteq offered[copy.permission],
         used' \subseteq Roles \cup Permissions
  PROVE  IInv'
<1> USE DEF IInv, tables
<1>1. TypeOK'
  BY DEF TypeOK, SameKind
<1>2. GrantsSound' /\ OfferedNow'
  BY DEF GrantsSound, GrantsResolve, OneGrantPerPair, OnlyOfferedActions, OfferedNow,
         SamePair, Exists
<1>3. pc'[r] = label /\ row'[r] = copy /\ \A q \in Requests \ {r} : pc'[q] = pc[q] /\ row'[q] = row[q]
  BY DEF TypeOK
<1>4. CopiesFit'
  BY <1>3 DEF CopiesFit
<1>5. CacheCurrent'
  BY <1>3, QuietStep
<1> QED
  BY <1>1, <1>2, <1>4, <1>5

\* A copy that fits may be kept.
LEMMA LabelStep ==
  ASSUME IInv, UNCHANGED <<tables, row, cache, pending, used, offered>>,
         NEW r \in Requests, pc[r] # "announcing",
         NEW label \in {"changing", "saving", "deleting", "checking", "comparing",
                        "granting", "revoking", "refused", "failed"},
         pc' = [pc EXCEPT ![r] = label],
         label \in {"changing", "saving", "deleting"} => row[r] \in Entry,
         label \in {"checking", "comparing", "granting", "revoking"} => row[r] \in Grant,
         label \in {"comparing", "granting"} =>
           row[r].actions \subseteq offered[row[r].permission]
  PROVE  IInv'
<1>1. row[r] \in {None} \cup Entry \cup Grant /\ row' = [row EXCEPT ![r] = row[r]]
  BY DEF IInv, TypeOK
<1>2. used' \subseteq Roles \cup Permissions
  BY DEF IInv, TypeOK
<1> QED
  BY <1>1, <1>2, CopyStep

---------------------------------------------------------------------------
(* Roles and permissions                                                    *)

\* A new role or permission is a copy nobody else has.
LEMMA CreateEntryStep ==
  ASSUME IInv, NEW r \in Requests, CreateEntry(r) PROVE IInv'
<1>1. PICK e \in Entry :
        /\ used' = used \cup {e.id}
        /\ row' = [row EXCEPT ![r] = e]
        /\ pc' = [pc EXCEPT ![r] = IF Taken(e.name, e) THEN "refused" ELSE "saving"]
  BY DEF CreateEntry, Take, Goto
<1>2. used' \subseteq Roles \cup Permissions
  BY <1>1 DEF IInv, TypeOK, Entry
<1>3. pc[r] # "announcing" /\ UNCHANGED <<tables, cache, pending, offered>>
  BY DEF CreateEntry
<1> QED
  BY <1>1, <1>2, <1>3, CopyStep

\* As for creating: the copy is a row that was just read.
LEMMA UpdateEntryStep ==
  ASSUME IInv, NEW r \in Requests, UpdateEntry(r) PROVE IInv'
<1>1. pc[r] # "announcing" /\ UNCHANGED <<tables, cache, pending, used, offered>>
  BY DEF UpdateEntry
<1>2. CASE Goto(r, "refused") /\ UNCHANGED row
  BY <1>1, <1>2, LabelStep DEF Goto
<1>3. ASSUME NEW e \in entries, Take(r, e), Goto(r, "changing") PROVE IInv'
  BY <1>1, <1>3, CopyStep DEF Take, Goto, IInv, TypeOK
<1> QED
  BY <1>2, <1>3 DEF UpdateEntry

\* As for creating: the copy is what the DTO made of it.
LEMMA ChangeEntryStep ==
  ASSUME IInv, NEW r \in Requests, ChangeEntry(r) PROVE IInv'
<1>1. pc[r] # "announcing" /\ UNCHANGED <<tables, cache, pending, used, offered>>
  BY DEF ChangeEntry
<1>2. CASE Goto(r, "refused") /\ UNCHANGED row
  BY <1>1, <1>2, LabelStep DEF Goto
<1>3. ASSUME NEW e \in Entry, Take(r, e), Goto(r, "saving") PROVE IInv'
  BY <1>1, <1>3, CopyStep DEF Take, Goto, IInv, TypeOK
<1> QED
  BY <1>2, <1>3 DEF ChangeEntry

\* As for creating: the copy is the row that will be deleted.
LEMMA RemoveEntryStep ==
  ASSUME IInv, NEW r \in Requests, RemoveEntry(r) PROVE IInv'
<1>1. pc[r] # "announcing" /\ UNCHANGED <<tables, cache, pending, used, offered>>
  BY DEF RemoveEntry
<1>2. CASE Goto(r, "refused") /\ UNCHANGED row
  BY <1>1, <1>2, LabelStep DEF Goto
<1>3. ASSUME NEW e \in entries, Take(r, e),
             NEW label \in {"refused", "deleting"}, Goto(r, label) PROVE IInv'
  BY <1>1, <1>3, CopyStep DEF Take, Goto, IInv, TypeOK
<1> QED
  BY <1>2, <1>3 DEF RemoveEntry

\* The table's unique indexes and the growth of what was offered carry the save.
LEMMA SaveEntryStep ==
  ASSUME IInv, NEW r \in Requests, SaveEntry(r) PROVE IInv'
<1> DEFINE e == row[r]
           others == {o \in entries : o.id # e.id}
<1>1. pc[r] = "saving" /\ UNCHANGED <<grants, row, pending, cache, used>>
  BY DEF SaveEntry
<1>2. e \in Entry
  BY <1>1 DEF IInv, CopiesFit
<1>3. CASE Goto(r, "failed") /\ UNCHANGED <<entries, offered>>
  BY <1>1, <1>3, LabelStep DEF Goto, tables
<1>4. ASSUME \A o \in others : ~(SameKind(o, e) /\ o.name = e.name),
             entries' = others \cup {e},
             offered' = IF e.id \in Permissions
                          THEN [offered EXCEPT ![e.id] = @ \cup e.actions] ELSE offered,
             Goto(r, "announcing")
      PROVE  IInv'
  <2>1. pc' = [pc EXCEPT ![r] = "announcing"]
    BY <1>4 DEF Goto
  <2>2. \A p \in Permissions : offered[p] \subseteq offered'[p]
    BY <1>4 DEF IInv, TypeOK
  <2>3. offered' \in [Permissions -> SUBSET Actions]
    BY <1>2, <1>4 DEF IInv, TypeOK, Entry
  <2>4. entries' \subseteq Entry
        /\ \A x, y \in entries' : x.id = y.id \/ (SameKind(x, y) /\ x.name = y.name) => x = y
    BY <1>2, <1>4, RegistryIds DEF IInv, TypeOK, SameKind, Entry
  <2>5. TypeOK'
    BY <1>1, <2>1, <2>3, <2>4 DEF IInv, TypeOK, SameKind
  <2>6. GrantsSound'
    <3>1. \A id : Exists(id) => Exists(id)'
      BY <1>4 DEF Exists
    <3>2. \A g \in grants : g.permission \in Permissions
      BY DEF IInv, TypeOK, Grant
    <3> QED
      BY <1>1, <2>2, <3>1, <3>2 DEF IInv, GrantsSound, GrantsResolve, OneGrantPerPair,
         OnlyOfferedActions, SamePair
  <2>7. OfferedNow'
    <3>1. ASSUME NEW o \in entries', o.id \in Permissions PROVE o.actions \subseteq offered'[o.id]
      <4>1. CASE o \in others
        BY <2>2, <3>1, <4>1 DEF IInv, OfferedNow
      <4>2. CASE o = e
        BY <1>4, <3>1, <4>2 DEF IInv, TypeOK
      <4> QED
        BY <1>4, <4>1, <4>2
    <3> QED
      BY <3>1 DEF OfferedNow
  <2>8. CopiesFit'
    <3>1. ASSUME NEW q \in Requests, row[q] \in Grant,
                 row[q].actions \subseteq offered[row[q].permission]
          PROVE  row[q].actions \subseteq offered'[row[q].permission]
      BY <2>2, <3>1 DEF Grant
    <3> QED
      BY <1>1, <2>1, <3>1 DEF IInv, TypeOK, CopiesFit
  <2>9. CacheCurrent'
    BY <2>1 DEF IInv, TypeOK, CacheCurrent
  <2> QED
    BY <2>5, <2>6, <2>7, <2>8, <2>9 DEF IInv
<1> QED
  BY <1>3, <1>4 DEF SaveEntry

\* The foreign keys keep the grants whole.
LEMMA DeleteEntryStep ==
  ASSUME IInv, NEW r \in Requests, DeleteEntry(r) PROVE IInv'
<1> DEFINE id == row[r].id
<1>1. pc[r] = "deleting" /\ UNCHANGED <<grants, row, pending, cache, used, offered>>
  BY DEF DeleteEntry
<1>2. CASE Goto(r, "failed") /\ UNCHANGED entries
  BY <1>1, <1>2, LabelStep DEF Goto, tables
<1>3. ASSUME \A g \in grants : ~RefersTo(g, id),
             entries' = {e \in entries : e.id # id},
             Goto(r, "announcing")
      PROVE  IInv'
  <2>1. pc' = [pc EXCEPT ![r] = "announcing"]
    BY <1>3 DEF Goto
  <2>2. TypeOK'
    BY <1>1, <1>3, <2>1 DEF IInv, TypeOK, SameKind
  <2>3. GrantsSound'
    <3>1. \A x : Exists(x) /\ x # id => Exists(x)'
      BY <1>3 DEF Exists
    <3> QED
      BY <1>1, <1>3, <3>1 DEF IInv, GrantsSound, GrantsResolve, OneGrantPerPair,
         OnlyOfferedActions, SamePair, RefersTo
  <2>4. OfferedNow' /\ CopiesFit' /\ CacheCurrent'
    BY <1>1, <1>3, <2>1 DEF IInv, TypeOK, OfferedNow, CopiesFit, CacheCurrent
  <2> QED
    BY <2>2, <2>3, <2>4 DEF IInv
<1> QED
  BY <1>2, <1>3 DEF DeleteEntry

---------------------------------------------------------------------------
(* Grants                                                                   *)

\* The new grant is a copy nobody else has.
LEMMA CreateGrantStep ==
  ASSUME IInv, NEW r \in Requests, CreateGrant(r) PROVE IInv'
<1>1. PICK g \in Grant : Take(r, g) /\ Goto(r, IF Exists(g.role) THEN "checking" ELSE "refused")
  BY DEF CreateGrant
<1>2. pc[r] # "announcing" /\ UNCHANGED <<tables, cache, pending, used, offered>>
  BY DEF CreateGrant
<1> QED
  BY <1>1, <1>2, CopyStep DEF Take, Goto, IInv, TypeOK

\* Passing the check means that the actions are among those offered now, so they
\* have been offered.
LEMMA CheckPermissionStep ==
  ASSUME IInv, NEW r \in Requests, CheckPermission(r) PROVE IInv'
<1> DEFINE p == row[r].permission
<1>1. /\ pc[r] = "checking" /\ UNCHANGED <<tables, row, pending, cache, used, offered>>
  BY DEF CheckPermission
<1>2. row[r] \in Grant /\ p \in Permissions
  BY <1>1 DEF IInv, CopiesFit, Grant
<1>3. CASE Goto(r, "refused")
  BY <1>1, <1>3, LabelStep DEF Goto
<1>4. CASE Exists(p) /\ row[r].actions \subseteq EntryOf(p).actions /\ Goto(r, "comparing")
  <2>1. EntryOf(p) \in entries /\ EntryOf(p).id = p
    BY <1>4, EntryFound
  <2>2. row[r].actions \subseteq offered[p]
    BY <1>2, <1>4, <2>1 DEF IInv, OfferedNow
  <2> QED
    BY <1>1, <1>2, <1>4, <2>2, LabelStep DEF Goto
<1> QED
  BY <1>3, <1>4 DEF CheckPermission

\* The copy passed the check before.
LEMMA CompareGrantsStep ==
  ASSUME IInv, NEW r \in Requests, CompareGrants(r) PROVE IInv'
<1>1. /\ pc[r] = "comparing" /\ UNCHANGED <<tables, row, pending, cache, used, offered>>
  BY DEF CompareGrants
<1>2. row[r] \in Grant /\ row[r].actions \subseteq offered[row[r].permission]
  BY <1>1 DEF IInv, CopiesFit
<1>3. PICK label \in {"refused", "granting"} : Goto(r, label)
  BY DEF CompareGrants
<1> QED
  BY <1>1, <1>2, <1>3, LabelStep DEF Goto

\* The actions come from the grant's permission or from the grant itself.
LEMMA UpdateGrantStep ==
  ASSUME IInv, NEW r \in Requests, UpdateGrant(r) PROVE IInv'
<1>1. pc[r] # "announcing" /\ UNCHANGED <<tables, cache, pending, used, offered>>
  BY DEF UpdateGrant
<1>2. CASE Goto(r, "refused") /\ UNCHANGED row
  BY <1>1, <1>2, LabelStep DEF Goto
<1>3. ASSUME NEW g \in grants,
             NEW acts \in (SUBSET EntryOf(g.permission).actions) \cup {g.actions},
             Take(r, [g EXCEPT !.actions = acts]), Goto(r, "granting")
      PROVE  IInv'
  <2>1. g \in Grant /\ Exists(g.permission) /\ g.actions \subseteq offered[g.permission]
    BY DEF IInv, TypeOK, GrantsSound, GrantsResolve, OnlyOfferedActions
  <2>2. EntryOf(g.permission) \in entries /\ EntryOf(g.permission).id = g.permission
    BY <2>1, EntryFound
  <2>3. g.permission \in Permissions
    BY <2>1 DEF Grant
  <2>4. acts \subseteq offered[g.permission]
    BY <2>1, <2>2, <2>3 DEF IInv, OfferedNow
  <2>5. acts \subseteq Actions
    BY <2>3, <2>4 DEF IInv, TypeOK
  <2> DEFINE copy == [g EXCEPT !.actions = acts]
  <2>6. copy \in Grant /\ copy.actions = acts /\ copy.permission = g.permission
    BY <2>1, <2>5 DEF Grant
  <2>7. row' = [row EXCEPT ![r] = copy] /\ pc' = [pc EXCEPT ![r] = "granting"]
    BY <1>3 DEF Take, Goto
  <2> HIDE DEF copy
  <2>8. used' \subseteq Roles \cup Permissions
    BY <1>1 DEF IInv, TypeOK
  <2> QED
    BY <1>1, <2>4, <2>6, <2>7, <2>8, CopyStep
<1> QED
  BY <1>2, <1>3 DEF UpdateGrant

\* The copy is a row of the table.
LEMMA RemoveGrantStep ==
  ASSUME IInv, NEW r \in Requests, RemoveGrant(r) PROVE IInv'
<1>1. PICK g \in grants : Take(r, g)
  BY DEF RemoveGrant
<1>2. Goto(r, "revoking") /\ pc[r] # "announcing"
      /\ UNCHANGED <<tables, cache, pending, used, offered>>
  BY DEF RemoveGrant
<1> QED
  BY <1>1, <1>2, CopyStep DEF Take, Goto, IInv, TypeOK

\* The unique index and the foreign keys carry the save.
LEMMA SaveGrantStep ==
  ASSUME IInv, NEW r \in Requests, SaveGrant(r) PROVE IInv'
<1> DEFINE g == row[r]
           others == {h \in grants : h.id # g.id}
<1>1. pc[r] = "granting" /\ UNCHANGED <<entries, row, pending, cache, used, offered>>
  BY DEF SaveGrant
<1>2. g \in Grant /\ g.actions \subseteq offered[g.permission]
  BY <1>1 DEF IInv, CopiesFit
<1>3. CASE Goto(r, "failed") /\ UNCHANGED grants
  BY <1>1, <1>3, LabelStep DEF Goto, tables
<1>4. ASSUME Exists(g.role), Exists(g.permission), \A h \in others : ~SamePair(h, g),
             grants' = others \cup {g}, Goto(r, "announcing")
      PROVE  IInv'
  <2>1. pc' = [pc EXCEPT ![r] = "announcing"]
    BY <1>4 DEF Goto
  <2>2. TypeOK'
    BY <1>1, <1>2, <1>4, <2>1 DEF IInv, TypeOK, SameKind
  <2>3. \A x : Exists(x) => Exists(x)'
    BY <1>1 DEF Exists
  <2>4. GrantsResolve'
    BY <1>4, <2>3 DEF IInv, GrantsSound, GrantsResolve
  <2>5. OneGrantPerPair'
    BY <1>4 DEF IInv, GrantsSound, OneGrantPerPair, SamePair
  <2>6. OnlyOfferedActions'
    BY <1>1, <1>2, <1>4 DEF IInv, GrantsSound, OnlyOfferedActions
  <2>7. OfferedNow' /\ CopiesFit' /\ CacheCurrent'
    BY <1>1, <2>1 DEF IInv, TypeOK, OfferedNow, CopiesFit, CacheCurrent
  <2> QED
    BY <2>2, <2>4, <2>5, <2>6, <2>7 DEF IInv, GrantsSound
<1> QED
  BY <1>3, <1>4 DEF SaveGrant

\* Fewer grants are sound if more are.
LEMMA DeleteGrantStep ==
  ASSUME IInv, NEW r \in Requests, DeleteGrant(r) PROVE IInv'
<1>1. /\ pc' = [pc EXCEPT ![r] = "announcing"]
      /\ grants' \subseteq grants
      /\ UNCHANGED <<entries, row, pending, cache, used, offered>>
  BY DEF DeleteGrant, Goto
<1>2. TypeOK'
  BY <1>1 DEF IInv, TypeOK, SameKind
<1>3. GrantsSound'
  BY <1>1 DEF IInv, GrantsSound, GrantsResolve, OneGrantPerPair, OnlyOfferedActions,
     SamePair, Exists
<1>4. OfferedNow' /\ CopiesFit' /\ CacheCurrent'
  BY <1>1 DEF IInv, TypeOK, OfferedNow, CopiesFit, CacheCurrent
<1> QED
  BY <1>2, <1>3, <1>4 DEF IInv

---------------------------------------------------------------------------
(* The cache                                                                *)

\* A change that is announced is pending.
LEMMA AnnounceStep ==
  ASSUME IInv, NEW r \in Requests, Announce(r) PROVE IInv'
<1>1. /\ pc' = [pc EXCEPT ![r] = "done"] /\ pending' = pending + 1
      /\ UNCHANGED <<entries, grants, row, cache, used, offered>>
  BY DEF Announce, Goto, tables
<1>2. TypeOK'
  BY <1>1 DEF IInv, TypeOK, SameKind
<1>3. GrantsSound' /\ OfferedNow'
  BY <1>1 DEF IInv, GrantsSound, GrantsResolve, OneGrantPerPair, OnlyOfferedActions,
     SamePair, Exists, OfferedNow
<1>4. CopiesFit'
  BY <1>1 DEF IInv, TypeOK, CopiesFit
<1>5. CacheCurrent'
  BY <1>1 DEF IInv, TypeOK, CacheCurrent
<1> QED
  BY <1>2, <1>3, <1>4, <1>5 DEF IInv

\* The last reload finds the tables as they are.
LEMMA ReloadStep ==
  ASSUME IInv, Reload PROVE IInv'
<1>1. /\ pending > 0 /\ pending' = pending - 1 /\ cache' = BuildCache
      /\ UNCHANGED <<entries, grants, pc, row, used, offered>>
  BY DEF Reload, tables
<1>2. BuildCache \in [Names \X Names -> {None} \cup SUBSET Actions]
  BY BuildCacheType DEF IInv, TypeOK
<1>3. BuildCache' = BuildCache
  BY <1>1, BuildCacheUnchanged DEF tables
<1>4. TypeOK'
  BY <1>1, <1>2 DEF IInv, TypeOK, SameKind
<1>5. GrantsSound' /\ OfferedNow' /\ CopiesFit'
  BY <1>1 DEF IInv, GrantsSound, GrantsResolve, OneGrantPerPair, OnlyOfferedActions,
     SamePair, Exists, OfferedNow, CopiesFit
<1>6. CacheCurrent'
  BY <1>1, <1>3 DEF CacheCurrent
<1> QED
  BY <1>4, <1>5, <1>6 DEF IInv

\* Every step preserves the inductive invariant.
LEMMA InductiveStep == IInv /\ [Next]_vars => IInv'
<1> SUFFICES ASSUME IInv, [Next]_vars PROVE IInv'
  OBVIOUS
<1>1. CASE UNCHANGED vars
  <2>1. BuildCache' = BuildCache
    BY <1>1, BuildCacheUnchanged DEF vars, tables
  <2> QED
    BY <1>1, <2>1 DEF vars, tables, IInv, TypeOK, SameKind, GrantsSound, GrantsResolve,
       OneGrantPerPair, OnlyOfferedActions, SamePair, Exists, OfferedNow, CopiesFit, CacheCurrent
<1>2. ASSUME NEW r \in Requests, ManageEntry(r) PROVE IInv'
  BY <1>2, CreateEntryStep, UpdateEntryStep, ChangeEntryStep, SaveEntryStep, RemoveEntryStep,
     DeleteEntryStep DEF ManageEntry
<1>3. ASSUME NEW r \in Requests, ManageGrant(r) PROVE IInv'
  BY <1>3, CreateGrantStep, CheckPermissionStep, CompareGrantsStep, UpdateGrantStep,
     SaveGrantStep, RemoveGrantStep, DeleteGrantStep DEF ManageGrant
<1> QED
  BY <1>1, <1>2, <1>3, AnnounceStep, ReloadStep DEF Next

---------------------------------------------------------------------------
(* The theorems                                                             *)

\* The inductive invariant holds in every reachable state: the names and ids are
\* unique, copies that wait to be saved fit, the cache lags only while a change is
\* announced or loaded.
THEOREM Inductive == Spec => []IInv
  BY InductiveInit, InductiveStep, PTL DEF Spec

\* GrantsSound: whatever calls of the three services overlap, both ends of a grant
\* exist, a pair has one grant, and it names only actions its permission has offered.
THEOREM GrantsAlwaysSound == Spec => []GrantsSound
<1>1. IInv => GrantsSound
  BY DEF IInv
<1> QED
  BY <1>1, Inductive, PTL

\* CacheAgrees: when everything is announced and loaded the guard decides what the
\* grants in the database say.
THEOREM CacheAgreesWhenQuiet == Spec => []CacheAgrees
<1>1. ASSUME IInv, pending = 0, \A r \in Requests : pc[r] # "announcing",
             NEW rn \in Names, NEW pn \in Names, NEW action
      PROVE  LET granted == cache[<<rn, pn>>]
             IN  (granted # None /\ (granted = {} \/ action \in granted))
                   <=> Permitted(rn, pn, action)
  <2> DEFINE G == GrantsNamed(rn, pn)
             granted == cache[<<rn, pn>>]
  <2>1. granted = IF G = {} THEN None ELSE (CHOOSE g \in G : TRUE).actions
    BY <1>1 DEF IInv, CacheCurrent, BuildCache
  <2>2. Permitted(rn, pn, action) <=> \E g \in G : g.actions = {} \/ action \in g.actions
    BY DEF Permitted, GrantsNamed
  <2>3. CASE G = {}
    BY <2>1, <2>2, <2>3
  <2>4. CASE G # {}
    <3>1. PICK g : g = CHOOSE h \in G : TRUE
      OBVIOUS
    <3>2. g \in G /\ granted = g.actions
      BY <2>1, <2>4, <3>1
    <3>3. \A h \in G : h = g
      BY <1>1, <3>2, OneGrantPerName DEF IInv
    <3>4. g.actions \in SUBSET Actions
      BY <1>1, <3>2 DEF GrantsNamed, IInv, TypeOK, Grant
    <3>5. granted # None
      BY <3>2, <3>4, RegistryIds
    <3> HIDE DEF G
    <3> QED
      BY <2>2, <3>2, <3>3, <3>5
  <2> QED
    BY <2>3, <2>4
<1>2. IInv => CacheAgrees
  BY <1>1, RegistryIds DEF CacheAgrees, CanActivate, HasPermission
<1> QED
  BY <1>2, Inductive, PTL

---------------------------------------------------------------------------
(* The copy of one process, reload by reload: RbacCache                     *)

\* Before the first boot the inductive invariant holds.
LEMMA CopyInitially == CacheInit => CacheInv
  BY RbacCacheBounds DEF CacheInit, CacheInv, CacheTypeOK, ReloadInFlight, Numbered,
     OwedCommitted, NewestIsFresh, BootUnanswered, OwnChangesKnown, NewestLanded

\* Types survive every step.
LEMMA CopyTypeStep == CacheTypeOK /\ [CacheNext]_cacheVars => CacheTypeOK'
<1> SUFFICES ASSUME CacheTypeOK, [CacheNext]_cacheVars PROVE CacheTypeOK'
  OBVIOUS
<1> USE RbacCacheBounds DEF CacheTypeOK, ReloadInFlight
<1>1. CASE UNCHANGED cacheVars
  BY <1>1 DEF cacheVars
<1>2. ASSUME NEW i \in Instances, Boot(i) PROVE CacheTypeOK'
  BY <1>2 DEF Boot, StartReload
<1>3. ASSUME NEW i \in Instances, Read(i) PROVE CacheTypeOK'
  BY <1>3 DEF Read
<1>4. ASSUME NEW i \in Instances, Finish(i) PROVE CacheTypeOK'
  BY <1>4 DEF Finish, Serve
<1>5. ASSUME NEW i \in Instances, ReloadFails(i) PROVE CacheTypeOK'
  BY <1>5 DEF ReloadFails, Serve
<1>6. ASSUME NEW i \in Instances, Crash(i) PROVE CacheTypeOK'
  BY <1>6 DEF Crash
<1>7. ASSUME NEW m \in Changes, Commit(m) \/ Refuse(m) PROVE CacheTypeOK'
  BY <1>7 DEF Commit, Refuse
<1>8. ASSUME NEW m \in Changes, Emit(m) PROVE CacheTypeOK'
  BY <1>8 DEF Emit, StartReload
<1> QED
  BY <1>1, <1>2, <1>3, <1>4, <1>5, <1>6, <1>7, <1>8 DEF CacheNext, Instance, Mutation

\* A reload that was just sent is the newest, and has no answer yet.
LEMMA ReloadStarted ==
  ASSUME CacheTypeOK, Numbered, NEW i \in Instances, StartReload(i), UNCHANGED landed
  PROVE  /\ Numbered'
         /\ ~NewestLanded(i)'
         /\ \A q \in reloads'[i] : q.no = sent'[i] => q.got = Unset
         /\ \A j \in Instances \ {i} : sent'[j] = sent[j] /\ reloads'[j] = reloads[j]
<1> DEFINE new == [no |-> sent[i] + 1, got |-> Unset]
<1>1. sent'[i] = sent[i] + 1 /\ reloads'[i] = reloads[i] \cup {new}
  BY DEF StartReload, CacheTypeOK
<1>2. new.no = sent[i] + 1 /\ new.got = Unset
  OBVIOUS
<1>3. \A j \in Instances \ {i} : sent'[j] = sent[j] /\ reloads'[j] = reloads[j]
  BY DEF StartReload, CacheTypeOK
<1>4. sent[i] \in Nat /\ landed[i] \in Nat /\ reloads[i] \subseteq ReloadInFlight
  BY DEF CacheTypeOK
<1>5. \A q \in reloads[i] : q.no \in Nat /\ q.no <= sent[i] /\ q.no # landed[i]
  BY <1>4 DEF Numbered, ReloadInFlight
<1>6. landed[i] <= sent[i]
  BY DEF Numbered
<1> HIDE DEF new
<1>7. \A p, q \in reloads'[i] : p.no = q.no => p = q
  BY <1>1, <1>2, <1>4, <1>5 DEF Numbered
<1>8. \A q \in reloads'[i] : q.no <= sent'[i] /\ q.no # landed'[i]
  BY <1>1, <1>2, <1>4, <1>5, <1>6
<1>9. landed'[i] <= sent'[i] /\ ~NewestLanded(i)'
  BY <1>1, <1>4, <1>6 DEF NewestLanded
<1>10. \A q \in reloads'[i] : q.no = sent'[i] => q.got = Unset
  BY <1>1, <1>2, <1>4, <1>5
<1> QED
  BY <1>3, <1>7, <1>8, <1>9, <1>10 DEF Numbered

\* The rest of the invariant survives every step, for any number of processes and any
\* order of the answers.
LEMMA CopyStepKeeps ==
  ASSUME CacheInv, [CacheNext]_cacheVars
  PROVE  Numbered' /\ OwedCommitted' /\ NewestIsFresh' /\ BootUnanswered' /\ OwnChangesKnown'
<1> DEFINE Goal == Numbered' /\ OwedCommitted' /\ NewestIsFresh' /\ BootUnanswered'
                 /\ OwnChangesKnown'
<1>0. /\ CacheTypeOK /\ Numbered /\ OwedCommitted /\ NewestIsFresh
      /\ BootUnanswered /\ OwnChangesKnown
  BY DEF CacheInv
<1> USE <1>0, RbacCacheBounds DEF CacheTypeOK
<1>1. CASE UNCHANGED cacheVars
  BY <1>1 DEF cacheVars, Numbered, OwedCommitted, NewestIsFresh, BootUnanswered, OwnChangesKnown, Emitting,
              NewestLanded
<1>2. ASSUME NEW i \in Instances, Boot(i) PROVE Goal
  <2>1. /\ Numbered' /\ ~NewestLanded(i)'
        /\ \A q \in reloads'[i] : q.no = sent'[i] => q.got = Unset
        /\ \A j \in Instances \ {i} : sent'[j] = sent[j] /\ reloads'[j] = reloads[j]
    BY <1>2, ReloadStarted DEF Boot
  <2>2. \A j \in Instances : Emitting(j)' = Emitting(j)
    BY <1>2 DEF Boot, Emitting
  <2>3. OwedCommitted'
    BY <1>2 DEF Boot, OwedCommitted
  <2>4. NewestIsFresh'
    BY <1>2, <2>1, <2>2 DEF Boot, NewestIsFresh
  <2>5. BootUnanswered' /\ OwnChangesKnown'
    BY <1>2, <2>1, <2>2 DEF Boot, BootUnanswered, OwnChangesKnown, NewestLanded
  <2> QED
    BY <2>1, <2>3, <2>4, <2>5
<1>3. ASSUME NEW i \in Instances, Read(i) PROVE Goal
  <2>1. PICK q \in reloads[i] :
          /\ q.got = Unset
          /\ reloads' = [reloads EXCEPT ![i] =
                           (@ \ {q}) \cup {[q EXCEPT !.got = version]}]
    BY <1>3 DEF Read
  <2> DEFINE answered == [q EXCEPT !.got = version]
  <2>2. answered.no = q.no /\ answered.got = version
    BY <2>1 DEF ReloadInFlight
  <2>3. reloads'[i] = (reloads[i] \ {q}) \cup {answered}
    BY <2>1
  <2>4. \A j \in Instances \ {i} : reloads'[j] = reloads[j]
    BY <2>1
  <2>5. UNCHANGED <<version, change, host, state, copies, sent, landed, owed>>
    BY <1>3 DEF Read
  <2> HIDE DEF answered
  <2>6. Numbered'
    BY <2>2, <2>3, <2>4, <2>5 DEF Numbered, ReloadInFlight
  <2>7. OwedCommitted'
    BY <2>5 DEF OwedCommitted
  <2>8. \A j \in Instances : Emitting(j)' = Emitting(j)
    BY <2>5 DEF Emitting
  <2>9. NewestIsFresh'
    BY <2>2, <2>3, <2>4, <2>5, <2>8 DEF NewestIsFresh, OwedCommitted
  <2>10. BootUnanswered' /\ OwnChangesKnown'
    BY <2>3, <2>4, <2>5, <2>8 DEF BootUnanswered, OwnChangesKnown, NewestLanded
  <2> QED
    BY <2>6, <2>7, <2>9, <2>10
<1>4. ASSUME NEW i \in Instances, Finish(i) PROVE Goal
  <2>1. PICK q \in reloads[i] :
          /\ q.got # Unset
          /\ copies' = [copies EXCEPT ![i] = q.got]
          /\ reloads' = [reloads EXCEPT ![i] = @ \ {q}]
          /\ landed' = [landed EXCEPT ![i] = q.no]
    BY <1>4 DEF Finish
  <2>2. /\ reloads'[i] = reloads[i] \ {q} /\ copies'[i] = q.got /\ landed'[i] = q.no
        /\ q.no \in Nat /\ q.got \in Nat
    BY <2>1 DEF ReloadInFlight
  <2>3. \A j \in Instances \ {i} :
          /\ reloads'[j] = reloads[j] /\ copies'[j] = copies[j] /\ landed'[j] = landed[j]
          /\ state'[j] = state[j]
    BY <1>4, <2>1 DEF Finish, Serve
  <2>4. UNCHANGED <<version, change, host, sent, owed>>
    BY <1>4 DEF Finish
  <2>5. \A j \in Instances : Emitting(j)' = Emitting(j)
    BY <2>4 DEF Emitting
  <2>6. Numbered'
    BY <2>1, <2>2, <2>3, <2>4 DEF Numbered
  <2>7. OwedCommitted' /\ NewestIsFresh'
    BY <2>2, <2>3, <2>4, <2>5 DEF OwedCommitted, NewestIsFresh
  <2>8. OwnChangesKnown'
    BY <2>1, <2>2, <2>3, <2>4, <2>5 DEF OwnChangesKnown, NewestLanded, NewestIsFresh
  <2>9. BootUnanswered'
    BY <1>4, <2>3, <2>4 DEF Finish, Serve, BootUnanswered, NewestLanded
  <2> QED
    BY <2>6, <2>7, <2>8, <2>9
<1>5. ASSUME NEW i \in Instances, ReloadFails(i) PROVE Goal
  <2>1. PICK q \in reloads[i] : reloads' = [reloads EXCEPT ![i] = @ \ {q}]
    BY <1>5 DEF ReloadFails
  <2>2. \A j \in Instances : reloads'[j] \subseteq reloads[j]
    BY <2>1
  <2>3. UNCHANGED <<version, change, host, copies, sent, landed, owed>>
    BY <1>5 DEF ReloadFails
  <2>4. \A j \in Instances : Emitting(j)' = Emitting(j)
    BY <2>3 DEF Emitting
  <2>5. Numbered' /\ OwedCommitted' /\ NewestIsFresh'
    BY <2>2, <2>3, <2>4 DEF Numbered, OwedCommitted, NewestIsFresh
  <2>6. OwnChangesKnown'
    <3> SUFFICES ASSUME NEW j \in Instances, state'[j] = "up", ~Emitting(j)', NewestLanded(j)'
                 PROVE  (copies[j] \in Nat /\ owed[j] <= copies[j])'
      BY DEF OwnChangesKnown
    <3>1. CASE j = i
      \* A process that boots has had no answer to its newest reload.
      BY <1>5, <2>1, <2>3, <2>4, <3>1 DEF ReloadFails, Serve, BootUnanswered, OwnChangesKnown,
                                         NewestLanded
    <3>2. CASE j # i
      BY <1>5, <2>3, <2>4, <3>2 DEF ReloadFails, Serve, OwnChangesKnown, NewestLanded
    <3> QED
      BY <3>1, <3>2
  <2>7. BootUnanswered'
    BY <1>5, <2>2, <2>3 DEF ReloadFails, Serve, BootUnanswered, NewestLanded
  <2> QED
    BY <2>5, <2>6, <2>7
<1>6. ASSUME NEW i \in Instances, Crash(i) PROVE Goal
  <2>1. reloads'[i] = {} /\ state'[i] = "down"
    BY <1>6 DEF Crash
  <2>2. \A j \in Instances \ {i} :
          /\ reloads'[j] = reloads[j] /\ copies'[j] = copies[j] /\ state'[j] = state[j]
          /\ Emitting(j)' = Emitting(j)
    BY <1>6 DEF Crash, Emitting
  <2>3. UNCHANGED <<version, sent, landed, owed>>
    BY <1>6 DEF Crash
  <2> QED
    BY <2>1, <2>2, <2>3 DEF Numbered, OwedCommitted, NewestIsFresh, BootUnanswered,
                        OwnChangesKnown, NewestLanded
<1>7. ASSUME NEW m \in Changes, NEW i \in Instances, i = host[m], Commit(m) PROVE Goal
  <2>1. Emitting(i)'
    BY <1>7 DEF Commit, Emitting
  <2>2. \A j \in Instances \ {i} : owed'[j] = owed[j] /\ Emitting(j)' = Emitting(j)
    BY <1>7 DEF Commit, Emitting
  <2>3. /\ UNCHANGED <<state, copies, reloads, sent, landed>>
        /\ version' = version + 1 /\ owed'[i] = version'
    BY <1>7 DEF Commit
  <2>4. OwedCommitted'
    BY <2>2, <2>3 DEF OwedCommitted
  <2> QED
    BY <2>1, <2>2, <2>3, <2>4 DEF Numbered, NewestIsFresh, BootUnanswered,
                             OwnChangesKnown, NewestLanded
<1>8. ASSUME NEW m \in Changes, Refuse(m) PROVE Goal
  <2>1. \A j \in Instances : Emitting(j)' = Emitting(j)
    BY <1>8 DEF Refuse, Emitting
  <2>2. UNCHANGED <<version, state, copies, reloads, sent, landed, owed>>
    BY <1>8 DEF Refuse
  <2> QED
    BY <2>1, <2>2 DEF Numbered, OwedCommitted, NewestIsFresh, BootUnanswered,
                        OwnChangesKnown, NewestLanded
<1>9. ASSUME NEW m \in Changes, NEW i \in Instances, i = host[m], Emit(m) PROVE Goal
  <2>0. StartReload(i) /\ UNCHANGED <<version, host, state, copies, landed, owed>>
    BY <1>9 DEF Emit
  <2>1. /\ Numbered' /\ ~NewestLanded(i)'
        /\ \A q \in reloads'[i] : q.no = sent'[i] => q.got = Unset
        /\ \A j \in Instances \ {i} : sent'[j] = sent[j] /\ reloads'[j] = reloads[j]
    BY <2>0, ReloadStarted
  <2>2. \A j \in Instances \ {i} : Emitting(j)' = Emitting(j)
    BY <1>9 DEF Emit, Emitting
  <2>3. OwedCommitted'
    BY <2>0 DEF OwedCommitted
  <2>4. NewestIsFresh'
    BY <2>0, <2>1, <2>2 DEF NewestIsFresh
  <2>5. BootUnanswered' /\ OwnChangesKnown'
    BY <2>0, <2>1, <2>2 DEF BootUnanswered, OwnChangesKnown, NewestLanded
  <2> QED
    BY <2>1, <2>3, <2>4, <2>5
<1>10. \A m \in Changes : host[m] \in Instances
  OBVIOUS
<1> QED
  BY <1>1, <1>2, <1>3, <1>4, <1>5, <1>6, <1>7, <1>8, <1>9, <1>10 DEF CacheNext, Instance, Mutation

\* The inductive invariant holds in every reachable state, crashes and failed
\* reloads included.
THEOREM CopyInductive == CacheSpec => []CacheInv
<1>1. CacheInv /\ [CacheNext]_cacheVars => CacheInv'
  BY CopyTypeStep, CopyStepKeeps DEF CacheInv
<1> QED
  BY <1>1, CopyInitially, PTL DEF CacheSpec

\* CacheTypeOK: versions, copies and reloads keep their types.
THEOREM CopyTypeCorrect == CacheSpec => []CacheTypeOK
<1>1. CacheInv => CacheTypeOK
  BY DEF CacheInv
<1> QED
  BY <1>1, CopyInductive, PTL

\* OwnChangesKnown: whatever the processes, and the order of the answers, a process
\* whose newest reload was answered last knows all the changes it served.
THEOREM OwnChangesAreKnown == CacheSpec => []OwnChangesKnown
<1>1. CacheInv => OwnChangesKnown
  BY DEF CacheInv
<1> QED
  BY <1>1, CopyInductive, PTL
====
