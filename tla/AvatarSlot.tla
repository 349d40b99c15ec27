---------------------------- MODULE AvatarSlot ----------------------------
(***************************************************************************)
(* What a reader of profiles is promised about avatars: the public URL of a *)
(* profile shows an uploaded image or nothing.  An upload is shown from one *)
(* step on, in place of whatever was there, at most once in its life; one   *)
(* that was not shown may be dropped, and an avatar may be cleared.  There  *)
(* is no moment at which a URL leads nowhere.                               *)
(***************************************************************************)
CONSTANTS Users, Uploads, Empty

VARIABLES
  shown,    \* what the profile of each user shows
  pending   \* uploads that may still be shown

Init ==
  /\ shown \in [Users -> Empty]
  /\ pending = Uploads

Show(u, p) ==
  /\ p \in pending
  /\ pending' = pending \ {p}
  /\ shown' = [shown EXCEPT ![u] = p]

Clear(u) ==
  /\ \E e \in Empty : shown' = [shown EXCEPT ![u] = e]
  /\ UNCHANGED pending

Drop ==
  /\ pending' \subseteq pending
  /\ UNCHANGED shown

Next ==
  \/ \E u \in Users, p \in pending : Show(u, p)
  \/ \E u \in Users : Clear(u)
  \/ Drop

Spec == Init /\ [][Next]_<<shown, pending>>
====
