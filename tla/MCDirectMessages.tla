--------------------------- MODULE MCDirectMessages ---------------------------
(***************************************************************************)
(* Model-checking instances of DirectMessages: room ids and request slots  *)
(* are each interchangeable.                                               *)
(***************************************************************************)
EXTENDS DirectMessages, TLC

\* Bounds.  Two requests are in flight; marks do not overlap then.
TwoAtATime ==
  /\ Cardinality({r \in Requests : Busy(r)}) <= 2
  /\ \A u \in Users : overlaps[u] \subseteq {"summary"}

\* Or three, of which marks may overlap.  The two stay friends then, the sender does one thing
\* at a time, and the mark of an opening waits for its page.
MarksOnly ==
  /\ relation = "friends" /\ \A u \in Users : overlaps[u] \subseteq {"mark"}
  /\ \A r, q \in Requests : Busy(r) /\ Busy(q) =>
       /\ req[r].op \in {"send", "delete"} /\ req[q].op \in {"send", "delete"} => r = q
       /\ req[r].op = "list" /\ req[q].op = "mark" => req[q].stage = "find"

OneKind == TwoAtATime \/ MarksOnly

Symmetry == Permutations(DmRooms) \union Permutations(Requests)
=============================================================================
