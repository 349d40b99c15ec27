-------------------------- MODULE MCAvatarInput --------------------------
(* AvatarInput with one file of every kind it tells apart.                  *)
EXTENDS AvatarInput

Photo(size, declared, actual, decodable) ==
  [type |-> "file", field |-> "file", size |-> size, declared |-> declared,
   actual |-> actual, decodable |-> decodable]

AllFiles ==
  {Photo(size, "png", "png", TRUE) : size \in 0..(MaxFileSize + 1)}
    \cup {Photo(1, d, a, b) : d \in {"jpeg", "png", "other"}, a \in {"png", "other"}, b \in BOOLEAN}
    \cup {[Photo(1, "png", "png", TRUE) EXCEPT !.field = "photo"]}
====
