---------------------------- MODULE MCPages ----------------------------
(* Pages on a few rows. The queries of a run are made of these parts.       *)
EXTENDS Pages

List(list, sort, order, q, status) ==
  [list |-> list, sort |-> sort, order |-> order, q |-> q, status |-> status]

\* The lists as they are asked for without sort, order and search.
DefaultQueries ==
  {List("users", "created_at", "desc", FALSE, status) : status \in BOOLEAN}
    \cup {List("history", "created_at", "desc", FALSE, status) : status \in BOOLEAN}

\* The users whose address or id contains a text.
SearchQueries == {List("users", "created_at", "desc", TRUE, FALSE)}

\* The users by address.
SortedQueries == {List("users", "email", "asc", FALSE, FALSE)}

\* The users, newest first.
NewestQueries == {List("users", "created_at", "desc", FALSE, FALSE)}

\* Rows that a filter takes or leaves, and rows that a search finds by address.
FilteredTraits == [status : BOOLEAN, email : {0}, byEmail : {FALSE}, byId : {FALSE}]
SearchedTraits == [status : {TRUE}, email : {0}, byEmail : {TRUE}, byId : {FALSE}]

\* Rows of three addresses; rows that are all alike.
AddressTraits == [status : {TRUE}, email : 0..2, byEmail : {FALSE}, byId : {FALSE}]
PlainTraits == [status : {TRUE}, email : {0}, byEmail : {FALSE}, byId : {FALSE}]
====
