----------------------------- MODULE Pages -----------------------------
(***************************************************************************)
(* The two cursor lists: UsersService.getUsers over                          *)
(* TypeOrmUserRepository.findMany, and ConversionService.getHistory over     *)
(* TypeOrmHistoryRepository.find.  A client follows nextCursor from page to  *)
(* page while rows are inserted and deleted.                                 *)
(*                                                                         *)
(* createdAt has microseconds in the database and milliseconds in a Date of  *)
(* JavaScript: the cursor is cut to the millisecond, the column is not.      *)
(***************************************************************************)
EXTENDS Naturals, FiniteSets

CONSTANTS
  Ids,       \* primary keys; uuids, so a new row may take any of them
  Queries,   \* the queries of a run
  Traits,    \* what a filter or a sort sees of a row, besides createdAt
  None,      \* no cursor
  Limit,     \* the page size, within 1..100 after getUsers or the DTO clamp it
  PerMilli,  \* ticks of the column per millisecond
  MaxMilli,  \* bound: rows are inserted up to this millisecond
  Apart      \* whether every row is inserted in a millisecond of its own

Query == [list : {"users", "history"}, sort : {"created_at", "email"},
          order : {"asc", "desc"}, q : BOOLEAN, status : BOOLEAN]
Trait == [status : BOOLEAN, email : Nat, byEmail : BOOLEAN, byId : BOOLEAN]

ASSUME PagesBounds ==
  /\ Ids \subseteq Nat
  /\ None \notin [id : Nat, createdAt : Nat]
  /\ Limit \in Nat \ {0}
  /\ PerMilli \in Nat \ {0}
  /\ MaxMilli \in Nat
  /\ Apart \in BOOLEAN
  /\ Queries \subseteq Query
  /\ Traits \subseteq Trait

VARIABLES
  table,    \* the rows
  now,      \* createdAt of the newest row
  query,    \* what the client asks for
  phase,    \* "idle", "paging" while there is a nextCursor, "done"
  cursor,   \* the nextCursor it was given
  got,      \* ids it was shown
  again,    \* ids it was shown more than once
  standing  \* history: ids that were listed at the first page and never deleted

client == <<query, phase, cursor, got, again>>
vars == <<table, now, query, phase, cursor, got, again, standing>>

Row == [id : Ids, createdAt : Nat, trait : Traits]

Init ==
  /\ table = {}
  /\ now = 0
  /\ query \in Queries
  /\ phase = "idle"
  /\ cursor = None
  /\ got = {}
  /\ again = {}
  /\ standing = {}

Milli(t) == t - (t % PerMilli)

---------------------------------------------------------------------------
(* The query of one page                                                     *)

\* Faulty: the row of the cursor is listed again.
PastCursorOrOn(r, c, order) ==
  IF order = "desc"
    THEN r.createdAt <= c.createdAt
    ELSE r.createdAt >= c.createdAt

\* Faulty: the cursor is not used.
PastCursorIgnored(r, c, order) == TRUE

\* The rows after the cursor: by createdAt, then by key. Both lists compare so,
\* whatever they are sorted by.
PastCursor(r, c, order) ==
  IF order = "desc"
    THEN r.createdAt < c.createdAt \/ (r.createdAt = c.createdAt /\ r.id < c.id)
    ELSE r.createdAt > c.createdAt \/ (r.createdAt = c.createdAt /\ r.id > c.id)

\* andWhere joins its strings without brackets, so AND binds the status to the
\* first half of a search's OR and the cursor to the second.
Filter(r) ==
  LET status == query.status => r.trait.status
      past == cursor # None => PastCursor(r, cursor, query.order)
  IN  IF query.q THEN (status /\ r.trait.byEmail) \/ (r.trait.byId /\ past)
                 ELSE status /\ past

\* The filters alone: what the client asks to see.
Wanted(r) ==
  /\ query.status => r.trait.status
  /\ query.q => r.trait.byEmail \/ r.trait.byId

SortKey(r) == IF query.sort = "email" THEN r.trait.email ELSE r.createdAt

\* history: createdAt DESC, id DESC; users: the field in the order asked for, then
\* userId ASC.
Precedes(r, s) ==
  \/ IF query.order = "desc" THEN SortKey(r) > SortKey(s) ELSE SortKey(r) < SortKey(s)
  \/ /\ SortKey(r) = SortKey(s)
     /\ IF query.list = "history" THEN r.id > s.id ELSE r.id < s.id

Found == {r \in table : Filter(r)}

\* The first n rows found, in order.
Take(n) == {r \in Found : Cardinality({s \in Found : Precedes(s, r)}) < n}

\* One row more than the page is read to see whether there is a next page.
HasMore == Cardinality(Take(Limit + 1)) > Limit

LastOf(page) == CHOOSE r \in page : \A s \in page : s = r \/ Precedes(s, r)

\* Faulty: the extra row is not taken off before the cursor is made.
CursorAtExtra(page) ==
  LET last == LastOf(Take(Limit + 1))
  IN  [id |-> last.id, createdAt |-> Milli(last.createdAt)]

\* Faulty: the cursor takes the column as it is.
CursorExact(page) == [id |-> LastOf(page).id, createdAt |-> LastOf(page).createdAt]

\* encodeCursor: the key of the page's last row, its createdAt by toISOString.
EncodeCursor(page) == [id |-> LastOf(page).id, createdAt |-> Milli(LastOf(page).createdAt)]

---------------------------------------------------------------------------
\* getUsers or getHistory, and the client that reads the answer.
GetPage ==
  /\ phase \in {"idle", "paging"}
  /\ LET page == Take(Limit)
         ids == {r.id : r \in page}
     IN  /\ cursor' = IF HasMore THEN EncodeCursor(page) ELSE None
         /\ got' = got \cup ids
         /\ again' = again \cup (got \cap ids)
  /\ phase' = IF HasMore THEN "paging" ELSE "done"
  /\ standing' = IF phase = "idle" THEN {r.id : r \in {s \in table : Wanted(s)}} ELSE standing
  /\ UNCHANGED <<table, now, query>>

\* A row with a new id is created, later than all others; Apart, in a later
\* millisecond.
Insert ==
  /\ phase # "done"
  /\ \E id \in Ids \ ({r.id : r \in table} \cup got), trait \in Traits,
        at \in (now + 1)..(MaxMilli * PerMilli + PerMilli - 1) :
       /\ Apart => Milli(at) > Milli(now)
       /\ table' = table \cup {[id |-> id, createdAt |-> at, trait |-> trait]}
       /\ now' = at
  /\ UNCHANGED <<client, standing>>

\* A user is erased; a history item expires.
Delete ==
  /\ phase # "done"
  /\ \E r \in table :
       /\ table' = table \ {r}
       /\ standing' = standing \ {r.id}
  /\ UNCHANGED <<now, client>>

Next == GetPage \/ Insert \/ Delete

Spec == Init /\ [][Next]_vars

\* The client goes on while it is given a cursor.
FairSpec == Spec /\ WF_vars(phase = "paging" /\ GetPage)

---------------------------------------------------------------------------
(* Properties                                                               *)

\* Every variable keeps its type; a cursor's date is a whole millisecond, and it is
\* there exactly while there is a next page.
TypeOK ==
  /\ table \subseteq Row
  /\ \A r, s \in table : r.id = s.id => r = s
  /\ now \in Nat
  /\ query \in Queries
  /\ phase \in {"idle", "paging", "done"}
  /\ cursor \in {None} \cup [id : Ids, createdAt : {m * PerMilli : m \in 0..MaxMilli}]
  /\ cursor # None <=> phase = "paging"
  /\ got \subseteq Ids
  /\ again \subseteq got
  /\ standing \subseteq Ids

\* "Pagination cursor for deterministic page loading": following the cursor shows
\* no row twice, whatever is inserted and deleted meanwhile.
NoRepeats == again = {}

\* It leaves out no row that matched when the client began and is still there.
Complete == phase = "done" => standing \subseteq got

\* The client comes to the last page.
Ends == phase = "paging" ~> phase = "done"
---------------------------------------------------------------------------
(* The inductive invariant                                                  *)

\* The lists whose cursor says where their order stands: sorted by createdAt, in
\* ascending order only if createdAt is no finer than a millisecond, not searched by
\* address; and rows of different milliseconds.
CursorFits ==
  /\ Apart
  /\ \A asked \in Queries :
       /\ asked.sort = "created_at"
       /\ asked.order = "asc" => PerMilli = 1
       /\ asked.q => \A trait \in Traits : ~trait.byEmail

\* The rows are finitely many, so some of them always have a first and a last one in
\* the order of the query; they came one after the other.
Ordered ==
  /\ IsFiniteSet(table)
  /\ now <= MaxMilli * PerMilli + PerMilli - 1
  /\ \A r \in table : r.createdAt <= now
  /\ \A r, s \in table : r # s => r.createdAt # s.createdAt
  /\ Apart => \A r, s \in table :
       r.createdAt < s.createdAt => Milli(r.createdAt) < Milli(s.createdAt)
  /\ \A rows \in SUBSET table : rows # {} =>
       \E first, last \in rows : \A r \in rows :
         (r = first \/ Precedes(first, r)) /\ (r = last \/ Precedes(r, last))

\* No row that was shown is after the cursor; every row that still has to be is.
Shown == \A r \in table : r.id \in got => ~PastCursor(r, cursor, query.order)
Outstanding ==
  \A i \in standing \ got : \E r \in table :
    r.id = i /\ Wanted(r) /\ PastCursor(r, cursor, query.order)

Progress ==
  /\ phase = "idle" => got = {} /\ standing = {}
  /\ phase = "paging" => Shown /\ Outstanding
  /\ NoRepeats
  /\ Complete

IInv == TypeOK /\ Ordered /\ (CursorFits => Progress)
====
