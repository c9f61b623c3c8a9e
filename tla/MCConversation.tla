--------------------------- MODULE MCConversation ---------------------------
(***************************************************************************)
(* Model-checking instances of Conversation, of its list and of its        *)
(* composer: the request slots are interchangeable.                        *)
(***************************************************************************)
EXTENDS Conversation, TLC

Editing == editing # 0 \/ \E op \in {"edit", "delete"} : Waiting(op)
Filing == file \/ Waiting("upload")
Composing == text # Empty \/ late > 0 \/ Waiting("send") \/ Editing \/ Filing

\* Bounds.  While the list is at stake nothing is written: a file may be sent, and a message
\* deleted.
NothingWritten == text = Empty /\ editing = 0

\* While the composer is, no page is: the first has come, or has failed, and was read before
\* anything was posted.
NoPages == /\ ~loadingOlder
           /\ phase = "loading" => live /\ ~Composing
           /\ phase = "loaded" => paged = History

\* Then a text is all that is sent while the channel is not there, and there is no file after a
\* drop.
FewConcerns == (channel # "in" => ~Editing /\ ~Filing) /\ (~live => ~Filing)

Symmetry == Permutations(Requests)
=============================================================================
