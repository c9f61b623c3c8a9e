----------------------------- MODULE MCRoomThread -----------------------------
(***************************************************************************)
(* Model-checking instance of RoomThread: one tab, of a user other than    *)
(* the owner.       Events go to each tab of the channel alike, and tabs do not  *)
(* act on each other.                                                      *)
(***************************************************************************)
EXTENDS RoomThread, TLC

CONSTANT ann

\* Bounds.  With the tab messages are sent and no more.
SendsOnly ==
  /\ \A r \in Requests : Busy(r) => req[r].op \in {"send", "subscribe", "list"}
  /\ \A m \in Msgs : Stored(m) => msg[m].version = 1 /\ ~msg[m].deleted

\* Without, all that is done to messages, in a public room without moderators: a private room
\* is to its messages what a public one is, and a moderator what a regular member is.
NoTab ==
  /\ channel = {} /\ \A t \in Tabs : ~view[t].open /\ inbox[t] = <<>>
  /\ \A r \in Requests : Busy(r) => req[r].op \notin {"subscribe", "list"}
  /\ room # "private" /\ \A u \in Users : role[u] # "mod"

Apart == SendsOnly \/ NoTab

TabUser == [t \in Tabs |-> ann]

Symmetry == Permutations(Msgs) \union Permutations(Requests)
=============================================================================
