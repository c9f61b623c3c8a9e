----------------------------- MODULE MCRoomPages -----------------------------
(***************************************************************************)
(* Model-checking instance of RoomPages: a user and two others.            *)
(***************************************************************************)
EXTENDS RoomPages, TLC

Symmetry == Permutations(Calls) \union Permutations(Users \ {Me})

\* Bounds.  The user changes the room at most once after the others have done what they do.
FewChanges == changes <= MaxChanges + 1

\* In the other room, and while something is in flight for what has closed, the user does not
\* begin anything else; a room is not deleted while a search is on.
Apart ==
  /\ address = "there" => ~panel.open
  /\ (\E c \in Calls : ~Free(c) /\ (call[c].gone \/ call[c].by = "left")) =>
       /\ ~panel.open /\ ~list.busy /\ ~list.deleting /\ ~list.submitting
       /\ list.applied = NoSearch
  /\ list.deleting => list.applied = NoSearch

\* Once the page is overtaken, its requests go one at a time.
OvertakenAlone == settled \/ Cardinality({c \in Calls : ~Free(c)}) <= 1
=============================================================================
