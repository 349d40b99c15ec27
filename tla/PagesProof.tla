--------------------------- MODULE PagesProof ---------------------------
(***************************************************************************)
(* Theorems about Pages: the inductive invariant, and from it that a client  *)
(* that follows the cursor is shown every row once.                          *)
(***************************************************************************)
EXTENDS Pages, FiniteSetTheorems, TLAPS

---------------------------------------------------------------------------
(* Milliseconds                                                             *)

LEMMA Quotient ==
  ASSUME NEW t \in Nat
  PROVE  /\ t % PerMilli \in 0..(PerMilli - 1)
         /\ t \div PerMilli \in Nat
         /\ t = PerMilli * (t \div PerMilli) + (t % PerMilli)
  BY PagesBounds

\* A tick is not before its millisecond, and before the next one.
LEMMA MilliOf ==
  ASSUME NEW t \in Nat
  PROVE  /\ Milli(t) \in Nat
         /\ Milli(t) <= t
         /\ Milli(t) = PerMilli * (t \div PerMilli)
         /\ PerMilli = 1 => Milli(t) = t
<1>1. Milli(t) = PerMilli * (t \div PerMilli)
  BY Quotient, PagesBounds DEF Milli
<1>2. t % PerMilli <= t
  <2>1. PerMilli * (t \div PerMilli) \in Nat
    BY Quotient, PagesBounds
  <2>2. QED
    BY <2>1, Quotient, PagesBounds
<1>3. QED
  BY <1>1, <1>2, Quotient, PagesBounds DEF Milli

\* What is in an earlier millisecond is before the later one begins.
LEMMA MilliGap ==
  ASSUME NEW s \in Nat, NEW t \in Nat, Milli(s) < Milli(t)
  PROVE  s < Milli(t)
<1> DEFINE a == s \div PerMilli
           b == t \div PerMilli
<1>1. a \in Nat /\ b \in Nat /\ s % PerMilli < PerMilli /\ s = PerMilli * a + (s % PerMilli)
  BY Quotient, PagesBounds
<1>2. PerMilli * a < PerMilli * b
  BY MilliOf
<1> HIDE DEF a, b
<1>3. a < b
  BY <1>1, <1>2, PagesBounds
<1>4. PerMilli * a + PerMilli <= PerMilli * b
  BY <1>1, <1>3, PagesBounds
<1>5. PerMilli * a \in Nat /\ PerMilli * b \in Nat /\ s % PerMilli \in Nat
  BY <1>1, Quotient, PagesBounds
<1>6. Milli(t) = PerMilli * b
  BY MilliOf DEF b
<1>7. QED
  BY <1>1, <1>4, <1>5, <1>6, PagesBounds

LEMMA MilliMonotone ==
  ASSUME NEW s \in Nat, NEW t \in Nat, s <= t
  PROVE  Milli(s) <= Milli(t)
<1>1. Milli(s) \in Nat /\ Milli(t) \in Nat /\ Milli(s) <= s
  BY MilliOf
<1>2. ~(Milli(t) < Milli(s))
  BY <1>1, MilliGap
<1>3. QED
  BY <1>1, <1>2

\* The dates of cursors, of rows that Insert may make.
LEMMA MilliBound ==
  ASSUME NEW t \in Nat, t <= MaxMilli * PerMilli + PerMilli - 1
  PROVE  \E m \in 0..MaxMilli : Milli(t) = m * PerMilli
<1> DEFINE a == t \div PerMilli
<1>1. a \in Nat /\ t % PerMilli \in Nat /\ t = PerMilli * a + (t % PerMilli)
  BY Quotient, PagesBounds
<1>2. Milli(t) = PerMilli * a
  BY MilliOf
<1> HIDE DEF a
<1>3. PerMilli * a < PerMilli * (MaxMilli + 1)
  BY <1>1, PagesBounds
<1>4. a <= MaxMilli
  BY <1>1, <1>3, PagesBounds
<1>5. PerMilli * a = a * PerMilli
  BY <1>1, PagesBounds
<1>6. QED
  BY <1>1, <1>2, <1>4, <1>5, PagesBounds

---------------------------------------------------------------------------
(* The order of a page                                                      *)

Before(r, s) ==
  IF query.order = "desc" THEN r.createdAt > s.createdAt ELSE r.createdAt < s.createdAt

LEMMA Rows ==
  ASSUME TypeOK
  PROVE  \A r \in table : /\ r \in Row /\ r.id \in Ids /\ r.id \in Nat /\ r.createdAt \in Nat
                          /\ r.trait \in Traits /\ r.trait \in Trait
<1>1. table \subseteq Row
  BY DEF TypeOK
<1>2. QED
  BY <1>1, PagesBounds DEF Row

LEMMA QueryType ==
  ASSUME TypeOK
  PROVE  /\ query \in Queries /\ query.q \in BOOLEAN /\ query.status \in BOOLEAN
         /\ query.order \in {"asc", "desc"}
  BY PagesBounds DEF TypeOK, Query

\* What the cursor is compared with follows the filter, and nothing else does.
LEMMA FilterFits ==
  ASSUME TypeOK, CursorFits, NEW r \in table
  PROVE  /\ Filter(r) /\ cursor # None => PastCursor(r, cursor, query.order)
         /\ Wanted(r) /\ (cursor # None => PastCursor(r, cursor, query.order)) => Filter(r)
<1>1. r.trait \in Traits /\ query \in Queries
  BY DEF TypeOK, Row
<1>2. query.q => ~r.trait.byEmail
  BY <1>1 DEF CursorFits
<1>3. query.q \in BOOLEAN /\ query.status \in BOOLEAN
  BY <1>1, PagesBounds DEF Query
<1>4. r.trait.status \in BOOLEAN /\ r.trait.byEmail \in BOOLEAN /\ r.trait.byId \in BOOLEAN
  BY <1>1, PagesBounds DEF Trait
<1>5. QED
  BY <1>2, <1>3, <1>4 DEF Filter, Wanted

LEMMA PrecedesFits ==
  ASSUME TypeOK, Ordered, CursorFits, NEW r \in table, NEW s \in table
  PROVE  Precedes(r, s) <=> Before(r, s)
<1>1. /\ r \in Row /\ s \in Row
      /\ query \in Queries /\ query.sort = "created_at"
  BY DEF TypeOK, CursorFits
<1>2. r.createdAt \in Nat /\ s.createdAt \in Nat /\ r.id \in Nat /\ s.id \in Nat
  BY <1>1, PagesBounds DEF Row
<1>3. r # s => r.createdAt # s.createdAt
  BY DEF Ordered
<1>4. ~(r.id > r.id) /\ ~(r.id < r.id)
  BY <1>2
<1>5. QED
  BY <1>1, <1>2, <1>3, <1>4 DEF Precedes, SortKey, Before

Preceding(r) == {s \in Found : Precedes(s, r)}

LEMMA Finite ==
  ASSUME Ordered
  PROVE  /\ IsFiniteSet(Found)
         /\ \A r : IsFiniteSet(Preceding(r)) /\ Cardinality(Preceding(r)) \in Nat
         /\ \A n : IsFiniteSet(Take(n)) /\ Cardinality(Take(n)) \in Nat
<1>1. IsFiniteSet(Found)
  <2>1. Found \subseteq table
    BY DEF Found
  <2>2. QED
    BY <2>1, FS_Subset DEF Ordered
<1>2. \A r : Preceding(r) \subseteq Found
  BY DEF Preceding
<1>3. \A n : Take(n) \subseteq Found
  BY DEF Take
<1>4. QED
  BY <1>1, <1>2, <1>3, FS_Subset, FS_CardinalityType

\* The order of a query is strict and, on rows with different ids, total.
LEMMA PrecedesIsOrder ==
  ASSUME NEW r \in Row, NEW s \in Row, NEW t \in Row
  PROVE  /\ Precedes(r, s) /\ Precedes(s, t) => Precedes(r, t)
         /\ ~Precedes(r, r)
         /\ r.id # s.id => Precedes(r, s) \/ Precedes(s, r)
<1>1. \A e \in Row : SortKey(e) \in Nat
  BY PagesBounds DEF SortKey, Row, Trait
<1>2. r.id \in Nat /\ s.id \in Nat /\ t.id \in Nat
  BY PagesBounds DEF Row
<1> DEFINE a == SortKey(r)
           b == SortKey(s)
           c == SortKey(t)
<1>3. a \in Nat /\ b \in Nat /\ c \in Nat
  BY <1>1
<1> HIDE DEF a, b, c
<1>4. QED
  BY <1>2, <1>3 DEF Precedes, a, b, c

LEMMA TableIsOrdered ==
  ASSUME TypeOK, NEW r \in table, NEW s \in table, NEW t \in table
  PROVE  /\ Precedes(r, s) /\ Precedes(s, t) => Precedes(r, t)
         /\ ~Precedes(r, r)
         /\ r # s => Precedes(r, s) \/ Precedes(s, r)
<1>1. r \in Row /\ s \in Row /\ t \in Row
  BY Rows
<1>2. r # s => r.id # s.id
  BY DEF TypeOK
<1>3. QED
  BY <1>1, <1>2, PrecedesIsOrder

\* A page is the beginning of what was found: a row that is not on it comes after
\* all that are.
LEMMA PageIsPrefix ==
  ASSUME TypeOK, Ordered, NEW n \in Nat, NEW r \in Found \ Take(n),
         NEW s \in Take(n)
  PROVE  Precedes(s, r)
<1>1. r \in table /\ s \in table /\ s \in Found
  BY DEF Found, Take
<1>2. r # s
  OBVIOUS
<1>3. ASSUME Precedes(r, s) PROVE FALSE
  <2>1. Preceding(r) \subseteq Preceding(s)
    <3>1. SUFFICES ASSUME NEW t \in Found, Precedes(t, r) PROVE Precedes(t, s)
      BY DEF Preceding
    <3>2. t \in table
      BY DEF Found
    <3>3. QED
      BY <1>1, <1>3, <3>1, <3>2, TableIsOrdered
  <2>2. Cardinality(Preceding(r)) <= Cardinality(Preceding(s))
    BY <2>1, Finite, FS_Subset
  <2>3. Cardinality(Preceding(s)) < n
    BY DEF Preceding, Take
  <2>4. ~(Cardinality(Preceding(r)) < n)
    BY DEF Preceding, Take
  <2>5. QED
    BY <2>2, <2>3, <2>4, Finite
<1>4. QED
  BY <1>1, <1>2, <1>3, TableIsOrdered

\* Without a next page, all that was found is on this one.
LEMMA LastPage ==
  ASSUME TypeOK, Ordered, ~HasMore
  PROVE  Found = Take(Limit)
<1> DEFINE more == Take(Limit + 1)
<1>1. SUFFICES ASSUME Found \ Take(Limit) # {} PROVE FALSE
  BY DEF Take
<1>2. Found \ Take(Limit) \in SUBSET table
  BY DEF Found
<1>3. PICK r \in Found \ Take(Limit) : \A s \in Found \ Take(Limit) : s = r \/ Precedes(r, s)
  BY <1>1, <1>2 DEF Ordered
<1>4. r \in table
  BY DEF Found
<1>5. Preceding(r) \subseteq Take(Limit)
  <2>1. SUFFICES ASSUME NEW s \in Found, Precedes(s, r), s \notin Take(Limit) PROVE FALSE
    BY DEF Preceding
  <2>2. s \in table
    BY DEF Found
  <2>3. QED
    BY <1>3, <1>4, <2>1, <2>2, TableIsOrdered
<1>6. Take(Limit) \subseteq more
  <2>1. \A s : Cardinality(Preceding(s)) < Limit => Cardinality(Preceding(s)) < Limit + 1
    BY Finite, PagesBounds
  <2>2. QED
    BY <2>1 DEF Take, Preceding
<1>7. ~(Cardinality(Preceding(r)) < Limit)
  BY DEF Take, Preceding
<1>8. CASE Cardinality(Preceding(r)) = Limit
  <2>1. r \in more
    BY <1>8, PagesBounds DEF Take, Preceding
  <2>2. r \notin Preceding(r)
    BY <1>4, TableIsOrdered DEF Preceding
  <2>3. Cardinality(Preceding(r) \cup {r}) = Limit + 1
    BY <1>8, <2>2, Finite, FS_AddElement
  <2>4. Preceding(r) \cup {r} \subseteq more
    BY <1>5, <1>6, <2>1
  <2>5. Cardinality(Preceding(r) \cup {r}) <= Cardinality(more)
    BY <2>4, Finite, FS_Subset
  <2>6. QED
    BY <2>3, <2>5, Finite, PagesBounds DEF HasMore
<1>9. CASE Cardinality(Preceding(r)) > Limit
  <2>1. Cardinality(Preceding(r)) <= Cardinality(more)
    BY <1>5, <1>6, Finite, FS_Subset
  <2>2. QED
    BY <1>9, <2>1, Finite, PagesBounds DEF HasMore
<1>10. QED
  BY <1>7, <1>8, <1>9, Finite, PagesBounds

\* A page before the last one is not empty.
LEMMA PageHasRows ==
  ASSUME TypeOK, Ordered, HasMore
  PROVE  Take(Limit) # {}
<1>1. Take(Limit + 1) # {}
  <2>1. SUFFICES ASSUME Take(Limit + 1) = {} PROVE FALSE
    OBVIOUS
  <2>2. Cardinality(Take(Limit + 1)) = 0
    BY <2>1, FS_EmptySet
  <2>3. QED
    BY <2>2, PagesBounds DEF HasMore
<1>2. Found # {} /\ Found \in SUBSET table
  BY <1>1 DEF Take, Found
<1>3. PICK r \in Found : \A s \in Found : s = r \/ Precedes(r, s)
  BY <1>2 DEF Ordered
<1>4. Preceding(r) = {}
  <2>1. SUFFICES ASSUME NEW s \in Found, Precedes(s, r) PROVE FALSE
    BY DEF Preceding
  <2>2. QED
    BY <1>2, <1>3, <2>1, TableIsOrdered
<1>5. Cardinality(Preceding(r)) < Limit
  BY <1>4, FS_EmptySet, PagesBounds
<1>6. QED
  BY <1>5 DEF Take, Preceding

\* The row the cursor is made of is the last one of its page.
LEMMA LastRow ==
  ASSUME TypeOK, Ordered, HasMore
  PROVE  /\ LastOf(Take(Limit)) \in Take(Limit)
         /\ \A r \in Take(Limit) : r = LastOf(Take(Limit)) \/ Precedes(r, LastOf(Take(Limit)))
<1>1. Take(Limit) # {} /\ Take(Limit) \in SUBSET table
  BY PageHasRows DEF Take, Found
<1>2. PICK last \in Take(Limit) : \A r \in Take(Limit) : r = last \/ Precedes(r, last)
  BY <1>1 DEF Ordered
<1>3. QED
  BY <1>2 DEF LastOf
---------------------------------------------------------------------------
(* Types                                                                    *)

\* A cursor is made of a row, so it has a date that Insert may give.
LEMMA CursorType ==
  ASSUME TypeOK, Ordered, HasMore
  PROVE  /\ EncodeCursor(Take(Limit)) \in
              [id : Ids, createdAt : {m * PerMilli : m \in 0..MaxMilli}]
         /\ EncodeCursor(Take(Limit)) # None
<1> DEFINE last == LastOf(Take(Limit))
<1>1. last \in table
  BY LastRow DEF Take, Found
<1> HIDE DEF last
<1>2. last.id \in Ids /\ last.id \in Nat /\ last.createdAt \in Nat
  BY <1>1, Rows
<1>3. last.createdAt <= MaxMilli * PerMilli + PerMilli - 1
  <2>1. MaxMilli * PerMilli \in Nat
    BY PagesBounds
  <2>2. QED
    BY <1>1, <1>2, <2>1, PagesBounds DEF Ordered, TypeOK
<1>4. PICK m \in 0..MaxMilli : Milli(last.createdAt) = m * PerMilli
  BY <1>2, <1>3, MilliBound
<1>5. [id |-> last.id, createdAt |-> Milli(last.createdAt)] \in [id : Nat, createdAt : Nat]
  BY <1>2, MilliOf
<1>6. EncodeCursor(Take(Limit)) = [id |-> last.id, createdAt |-> Milli(last.createdAt)]
  BY DEF EncodeCursor, last
<1>7. QED
  BY <1>2, <1>4, <1>5, <1>6, PagesBounds

LEMMA InductiveInit == Init => IInv
<1> SUFFICES ASSUME Init PROVE IInv
  OBVIOUS
<1>1. TypeOK
  BY DEF Init, TypeOK
<1>2. Ordered
  <2>1. 0 <= MaxMilli * PerMilli + PerMilli - 1
    <3>1. MaxMilli * PerMilli \in Nat
      BY PagesBounds
    <3>2. QED
      BY <3>1, PagesBounds
  <2>2. QED
    BY <2>1, FS_EmptySet DEF Init, Ordered
<1>3. Progress
  BY DEF Init, Progress, NoRepeats, Complete
<1>4. QED
  BY <1>1, <1>2, <1>3 DEF IInv

---------------------------------------------------------------------------
(* A page is asked for                                                      *)

LEMMA OrderStays ==
  ASSUME query' = query
  PROVE  \A r, s : Precedes(r, s)' <=> Precedes(r, s)
  BY DEF Precedes, SortKey

LEMMA GetPageTypes ==
  ASSUME TypeOK, Ordered, GetPage
  PROVE  TypeOK' /\ Ordered'
<1>1. UNCHANGED <<table, now, query>>
  BY DEF GetPage
<1>2. Ordered'
  BY <1>1, OrderStays DEF Ordered
<1>3. Take(Limit) \subseteq table
  BY DEF Take, Found
<1>4. {r.id : r \in Take(Limit)} \subseteq Ids /\ {r.id : r \in {s \in table : Wanted(s)}} \subseteq Ids
  BY <1>3, Rows
<1>5. cursor' \in {None} \cup [id : Ids, createdAt : {m * PerMilli : m \in 0..MaxMilli}]
  BY CursorType DEF GetPage
<1>6. cursor' # None <=> phase' = "paging"
  BY CursorType DEF GetPage
<1>7. /\ got' \subseteq Ids /\ again' \subseteq got' /\ standing' \subseteq Ids
      /\ phase' \in {"paging", "done"}
  BY <1>4 DEF GetPage, TypeOK
<1>8. table' \subseteq Row /\ now' \in Nat /\ query' \in Queries
      /\ \A r, s \in table' : r.id = s.id => r = s
  BY <1>1 DEF TypeOK
<1>9. QED
  BY <1>2, <1>5, <1>6, <1>7, <1>8 DEF TypeOK

\* Behind the cursor of a page is what was on it, and what was behind the last one.
LEMMA CursorPasses ==
  ASSUME TypeOK, Ordered, CursorFits, HasMore, NEW r \in table
  PROVE  LET last == LastOf(Take(Limit))
             next == EncodeCursor(Take(Limit))
         IN  /\ r = last \/ Precedes(r, last) => ~PastCursor(r, next, query.order)
             /\ Precedes(last, r) => PastCursor(r, next, query.order)
<1> DEFINE last == LastOf(Take(Limit))
           next == EncodeCursor(Take(Limit))
<1>1. last \in table
  BY LastRow DEF Take, Found
<1>2. next.id = last.id /\ next.createdAt = Milli(last.createdAt)
  BY DEF EncodeCursor
<1> HIDE DEF last, next
<1>3. /\ last.createdAt \in Nat /\ r.createdAt \in Nat /\ last.id \in Nat /\ r.id \in Nat
  BY <1>1, Rows
<1>4. (Precedes(r, last) <=> Before(r, last)) /\ (Precedes(last, r) <=> Before(last, r))
  BY <1>1, PrecedesFits
<1>5. Milli(last.createdAt) \in Nat /\ Milli(last.createdAt) <= last.createdAt
  BY <1>3, MilliOf
<1>6. CASE query.order = "desc"
  <2>1. r.createdAt < last.createdAt => r.createdAt < Milli(last.createdAt)
    BY <1>1, <1>3, MilliGap DEF Ordered, CursorFits
  <2>2. QED
    BY <1>2, <1>3, <1>4, <1>5, <1>6, <2>1 DEF Before, PastCursor, last, next
<1>7. CASE query.order # "desc"
  <2>1. Milli(last.createdAt) = last.createdAt
    BY <1>3, <1>7, QueryType, MilliOf DEF CursorFits
  <2>2. QED
    BY <1>2, <1>3, <1>4, <1>7, <2>1 DEF Before, PastCursor, last, next
<1>8. QED
  BY <1>6, <1>7

\* What is behind a cursor is behind the next one, too.
LEMMA CursorAdvances ==
  ASSUME TypeOK, Ordered, CursorFits, HasMore, cursor # None, NEW r \in table,
         ~PastCursor(r, cursor, query.order)
  PROVE  ~PastCursor(r, EncodeCursor(Take(Limit)), query.order)
<1> DEFINE last == LastOf(Take(Limit))
<1>1. last \in table /\ Filter(last)
  BY LastRow DEF Take, Found
<1>2. PastCursor(last, cursor, query.order)
  BY <1>1, FilterFits
<1> HIDE DEF last
<1>3. ~Precedes(last, r)
  <2>1. cursor.id \in Nat /\ cursor.createdAt \in Nat
    <3>1. cursor \in [id : Ids, createdAt : {m * PerMilli : m \in 0..MaxMilli}]
      BY DEF TypeOK
    <3>2. \A m \in 0..MaxMilli : m * PerMilli \in Nat
      BY PagesBounds
    <3>3. QED
      BY <3>1, <3>2, PagesBounds
  <2>2. /\ last.createdAt \in Nat /\ r.createdAt \in Nat /\ last.id \in Nat /\ r.id \in Nat
    BY <1>1, Rows
  <2>3. Precedes(last, r) <=> Before(last, r)
    BY <1>1, PrecedesFits
  <2>4. QED
    BY <1>2, <2>1, <2>2, <2>3 DEF Before, PastCursor
<1>4. r = last \/ Precedes(r, last)
  BY <1>1, <1>3, TableIsOrdered
<1>5. QED
  BY <1>4, CursorPasses DEF last

LEMMA GetPageProgress ==
  ASSUME TypeOK, Ordered, CursorFits, Progress, GetPage
  PROVE  Progress'
<1> DEFINE page == Take(Limit)
           ids == {r.id : r \in page}
<1>1. /\ UNCHANGED <<table, query>> /\ phase \in {"idle", "paging"}
      /\ got' = got \cup ids /\ again' = again \cup (got \cap ids)
      /\ phase' = IF HasMore THEN "paging" ELSE "done"
      /\ cursor' = IF HasMore THEN EncodeCursor(page) ELSE None
      /\ standing' = IF phase = "idle" THEN {r.id : r \in {s \in table : Wanted(s)}} ELSE standing
  BY DEF GetPage
<1>2. page \subseteq Found /\ Found \subseteq table
  BY DEF Take, Found
<1>3. \A r, s \in table : r.id = s.id => r = s
  BY DEF TypeOK
<1>4. cursor # None <=> phase = "paging"
  BY DEF TypeOK
<1> HIDE DEF page
<1>5. got \cap ids = {}
  <2>1. SUFFICES ASSUME NEW r \in page, r.id \in got PROVE FALSE
    OBVIOUS
  <2>2. r \in table /\ Filter(r)
    BY <1>2 DEF Found
  <2>3. phase = "paging"
    BY <1>1, <2>1 DEF Progress
  <2>4. QED
    BY <1>4, <2>1, <2>2, <2>3, FilterFits DEF Progress, Shown
<1>6. NoRepeats'
  BY <1>1, <1>5 DEF Progress, NoRepeats
<1>7. \A i \in standing' \ got : \E r \in Found : r.id = i /\ Wanted(r)
  <2>1. CASE phase = "idle"
    <3>1. SUFFICES ASSUME NEW r \in table, Wanted(r) PROVE r \in Found
      BY <1>1, <2>1
    <3>2. QED
      BY <1>4, <2>1, <3>1, FilterFits DEF Found
  <2>2. CASE phase = "paging"
    <3>1. SUFFICES ASSUME NEW i \in standing \ got PROVE \E r \in Found : r.id = i /\ Wanted(r)
      BY <1>1, <2>2
    <3>2. PICK r \in table : r.id = i /\ Wanted(r) /\ PastCursor(r, cursor, query.order)
      BY <2>2, <3>1 DEF Progress, Outstanding
    <3>3. QED
      BY <3>2, FilterFits DEF Found
  <2>3. QED
    BY <1>1, <2>1, <2>2
<1>8. CASE HasMore
  <2>1. Shown'
    <3>1. SUFFICES ASSUME NEW r \in table, r.id \in got \/ r.id \in ids
                   PROVE  ~PastCursor(r, EncodeCursor(page), query.order)
      BY <1>1, <1>8 DEF Shown, PastCursor
    <3>2. CASE r.id \in got
      <4>1. phase = "paging"
        BY <1>1, <3>2 DEF Progress
      <4>2. QED
        BY <1>4, <1>8, <3>2, <4>1, CursorAdvances DEF Progress, Shown, page
    <3>3. CASE r.id \in ids
      <4>1. r \in page
        BY <1>2, <1>3, <3>3
      <4>2. QED
        BY <1>8, <4>1, LastRow, CursorPasses DEF page
    <3>4. QED
      BY <3>1, <3>2, <3>3
  <2>2. Outstanding'
    <3>1. SUFFICES ASSUME NEW i \in standing' \ got'
                   PROVE  \E r \in table : /\ r.id = i /\ Wanted(r)
                                           /\ PastCursor(r, EncodeCursor(page), query.order)
      BY <1>1, <1>8 DEF Outstanding, PastCursor, Wanted
    <3>2. PICK r \in Found : r.id = i /\ Wanted(r)
      BY <1>1, <1>7, <3>1
    <3>3. r \notin page
      BY <1>1, <3>1, <3>2
    <3>4. Precedes(LastOf(page), r)
      BY <1>8, <3>3, PageIsPrefix, LastRow, PagesBounds DEF page
    <3>5. QED
      BY <1>2, <1>8, <3>2, <3>4, CursorPasses DEF page
  <2>3. QED
    BY <1>1, <1>6, <1>8, <2>1, <2>2 DEF Progress, Complete
<1>9. CASE ~HasMore
  <2>1. Found = page
    BY <1>9, LastPage DEF page
  <2>2. standing' \subseteq got'
    BY <1>1, <1>7, <2>1
  <2>3. QED
    BY <1>1, <1>6, <1>9, <2>2 DEF Progress, Complete
<1>10. QED
  BY <1>8, <1>9

---------------------------------------------------------------------------
(* Rows come and go                                                         *)

LEMMA InsertTypes ==
  ASSUME TypeOK, Ordered, Insert
  PROVE  TypeOK' /\ Ordered'
<1>1. PICK id \in Ids \ ({r.id : r \in table} \cup got), trait \in Traits,
           at \in (now + 1)..(MaxMilli * PerMilli + PerMilli - 1) :
        /\ Apart => Milli(at) > Milli(now)
        /\ table' = table \cup {[id |-> id, createdAt |-> at, trait |-> trait]}
        /\ now' = at
  BY DEF Insert
<1>2. UNCHANGED <<query, phase, cursor, got, again, standing>>
  BY DEF Insert, client
<1> DEFINE new == [id |-> id, createdAt |-> at, trait |-> trait]
<1>3. now \in Nat /\ at \in Nat /\ at > now /\ at <= MaxMilli * PerMilli + PerMilli - 1
  <2>1. now \in Nat /\ MaxMilli * PerMilli \in Nat
    BY PagesBounds DEF TypeOK
  <2>2. QED
    BY <2>1, PagesBounds
<1>4. new.id = id /\ new.createdAt = at /\ new \in Row
  BY <1>3 DEF Row
<1>5. table' = table \cup {new}
  BY <1>1
<1> HIDE DEF new
<1>6. \A r \in table : r.id # new.id
  BY <1>1, <1>4
<1>7. TypeOK'
  <2>1. table' \subseteq Row /\ \A r, s \in table' : r.id = s.id => r = s
    BY <1>4, <1>5, <1>6 DEF TypeOK
  <2>2. now' \in Nat
    BY <1>1, <1>3
  <2>3. QED
    BY <1>2, <2>1, <2>2 DEF TypeOK
<1>8. \A r \in table : r.createdAt \in Nat /\ r.createdAt <= now
  BY Rows DEF Ordered
<1>9. \A r, s \in table' : r # s => r.createdAt # s.createdAt
  <2>1. \A r \in table : r.createdAt # new.createdAt
    BY <1>3, <1>4, <1>8
  <2>2. QED
    BY <1>5, <2>1 DEF Ordered
<1>10. ASSUME Apart, NEW r \in table', NEW s \in table', r.createdAt < s.createdAt
       PROVE  Milli(r.createdAt) < Milli(s.createdAt)
  <2>1. CASE r \in table /\ s \in table
    BY <1>10, <2>1 DEF Ordered
  <2>2. CASE r \in table /\ s = new
    <3>1. Milli(now) < Milli(at) /\ Milli(now) \in Nat /\ Milli(at) \in Nat
      BY <1>1, <1>3, <1>10, MilliOf
    <3>2. Milli(r.createdAt) \in Nat /\ Milli(r.createdAt) <= Milli(now)
      BY <1>3, <1>8, <2>2, MilliMonotone, MilliOf
    <3>3. QED
      BY <1>4, <2>2, <3>1, <3>2
  <2>3. CASE r = new
    BY <1>3, <1>4, <1>5, <1>8, <1>10, <2>3
  <2>4. QED
    BY <1>5, <2>1, <2>2, <2>3
<1>11. ASSUME NEW rows \in SUBSET table', rows # {}
       PROVE  \E first, last \in rows : \A r \in rows :
                (r = first \/ Precedes(first, r)) /\ (r = last \/ Precedes(r, last))
  <2> DEFINE old == rows \ {new}
  <2>1. old \in SUBSET table
    BY <1>5
  <2>2. CASE old = {}
    BY <1>11, <2>2
  <2>3. CASE old # {}
    <3>1. PICK first, last \in old : \A r \in old :
            (r = first \/ Precedes(first, r)) /\ (r = last \/ Precedes(r, last))
      BY <2>1, <2>3 DEF Ordered
    <3>2. first \in Row /\ last \in Row /\ \A r \in old : r \in Row
      BY <2>1, <3>1, Rows
    <3>3. Precedes(new, first) \/ Precedes(first, new)
      BY <1>4, <1>6, <2>1, <3>1, <3>2, PrecedesIsOrder
    <3>4. Precedes(new, last) \/ Precedes(last, new)
      BY <1>4, <1>6, <2>1, <3>1, <3>2, PrecedesIsOrder
    <3>5. CASE new \notin rows
      BY <3>1, <3>5
    <3>6. CASE new \in rows
      <4>1. PICK low \in {new, first} : \A r \in old \cup {new} : r = low \/ Precedes(low, r)
        BY <1>4, <3>1, <3>2, <3>3, PrecedesIsOrder
      <4>2. PICK high \in {new, last} : \A r \in old \cup {new} : r = high \/ Precedes(r, high)
        BY <1>4, <3>1, <3>2, <3>4, PrecedesIsOrder
      <4>3. low \in rows /\ high \in rows /\ rows = old \cup {new}
        BY <3>1, <3>6, <4>1, <4>2
      <4>4. QED
        BY <4>1, <4>2, <4>3
    <3>7. QED
      BY <3>5, <3>6
  <2>4. QED
    BY <2>2, <2>3
<1>12. IsFiniteSet(table')
  BY <1>5, FS_AddElement DEF Ordered
<1>13. \A r \in table' : r.createdAt <= now'
  BY <1>1, <1>3, <1>4, <1>5, <1>8
<1>14. now' <= MaxMilli * PerMilli + PerMilli - 1
  BY <1>1, <1>3
<1>15. Ordered'
  BY <1>2, <1>9, <1>10, <1>11, <1>12, <1>13, <1>14, OrderStays DEF Ordered, Milli
<1>16. QED
  BY <1>7, <1>15

\* A new row has an id that was not shown, and takes none away.
LEMMA InsertProgress ==
  ASSUME CursorFits, Progress, Insert
  PROVE  Progress'
<1>1. /\ UNCHANGED <<query, phase, cursor, got, again, standing>>
      /\ phase # "done"
      /\ table \subseteq table'
      /\ \A r \in table' \ table : r.id \notin got
  BY DEF Insert, client
<1>2. phase = "paging" => Shown'
  BY <1>1 DEF Progress, Shown, PastCursor
<1>3. phase = "paging" => Outstanding'
  BY <1>1 DEF Progress, Outstanding, PastCursor, Wanted
<1>4. QED
  BY <1>1, <1>2, <1>3 DEF Progress, NoRepeats, Complete

LEMMA DeleteTypes ==
  ASSUME TypeOK, Ordered, Delete
  PROVE  TypeOK' /\ Ordered'
<1>1. /\ UNCHANGED <<now, query, phase, cursor, got, again>>
      /\ table' \subseteq table /\ standing' \subseteq standing
  BY DEF Delete, client
<1>2. TypeOK'
  BY <1>1 DEF TypeOK
<1>3. IsFiniteSet(table')
  BY <1>1, FS_Subset DEF Ordered
<1>4. \A rows \in SUBSET table' : rows \in SUBSET table
  BY <1>1
<1>5. Ordered'
  BY <1>1, <1>3, <1>4, OrderStays DEF Ordered, Milli
<1>6. QED
  BY <1>2, <1>5

LEMMA DeleteProgress ==
  ASSUME CursorFits, Progress, Delete
  PROVE  Progress'
<1>1. PICK row \in table : table' = table \ {row} /\ standing' = standing \ {row.id}
  BY DEF Delete
<1>2. UNCHANGED <<query, phase, cursor, got, again>> /\ phase # "done"
  BY DEF Delete, client
<1>3. phase = "paging" => Shown'
  BY <1>1, <1>2 DEF Progress, Shown, PastCursor
<1>4. ASSUME phase = "paging" PROVE Outstanding'
  <2>1. SUFFICES ASSUME NEW i \in standing \ got, i # row.id
                 PROVE  \E r \in table' : r.id = i /\ Wanted(r) /\ PastCursor(r, cursor, query.order)
    BY <1>1, <1>2 DEF Outstanding, PastCursor, Wanted
  <2>2. PICK r \in table : r.id = i /\ Wanted(r) /\ PastCursor(r, cursor, query.order)
    BY <1>4, <2>1 DEF Progress, Outstanding
  <2>3. QED
    BY <1>1, <2>1, <2>2
<1>5. QED
  BY <1>1, <1>2, <1>3, <1>4 DEF Progress, NoRepeats, Complete

---------------------------------------------------------------------------
(* Theorems                                                                 *)

LEMMA InductiveNext == IInv /\ [Next]_vars => IInv'
<1> SUFFICES ASSUME IInv, [Next]_vars PROVE IInv'
  OBVIOUS
<1>1. TypeOK /\ Ordered /\ (CursorFits => Progress)
  BY DEF IInv
<1>2. CASE GetPage
  BY <1>1, <1>2, GetPageTypes, GetPageProgress DEF IInv, CursorFits
<1>3. CASE Insert
  BY <1>1, <1>3, InsertTypes, InsertProgress DEF IInv, CursorFits
<1>4. CASE Delete
  BY <1>1, <1>4, DeleteTypes, DeleteProgress DEF IInv, CursorFits
<1>5. CASE UNCHANGED vars
  <2>1. UNCHANGED <<table, now, query, phase, cursor, got, again, standing>>
    BY <1>5 DEF vars, client
  <2>2. TypeOK' /\ Ordered'
    BY <1>1, <2>1, OrderStays DEF TypeOK, Ordered, Milli
  <2>3. Progress => Progress'
    BY <2>1 DEF Progress, Shown, Outstanding, PastCursor, Wanted, NoRepeats, Complete
  <2>4. QED
    BY <1>1, <2>2, <2>3 DEF IInv, CursorFits
<1>6. QED
  BY <1>2, <1>3, <1>4, <1>5 DEF Next

\* The inductive invariant of the lists: rows have an order, and where the cursor
\* fits it, it separates what was shown from what was not (getUsers, getHistory).
THEOREM Inductive == Spec => []IInv
  BY InductiveInit, InductiveNext, PTL DEF Spec

\* Every variable keeps its type, whatever the queries are: a page before the last
\* has a last row, and the cursor made of it has a whole millisecond.
THEOREM TypeCorrect == Spec => []TypeOK
<1>1. IInv => TypeOK
  BY DEF IInv
<1>2. QED
  BY <1>1, Inductive, PTL

\* A client that follows the cursor is shown no row twice, for any number of rows,
\* any page size, and any inserts and deletes in between.
THEOREM ShownOnce == Spec => [](CursorFits => NoRepeats)
<1>1. IInv => (CursorFits => NoRepeats)
  BY DEF IInv, Progress
<1>2. QED
  BY <1>1, Inductive, PTL

\* It is shown every row that it asked for and that stays.
THEOREM AllShown == Spec => [](CursorFits => Complete)
<1>1. IInv => (CursorFits => Complete)
  BY DEF IInv, Progress
<1>2. QED
  BY <1>1, Inductive, PTL
====
