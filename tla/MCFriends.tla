------------------------------ MODULE MCFriends ------------------------------
(***************************************************************************)
(* Model-checking instance of Friends.  No operation reads or writes a row *)
(* of another pair, so two accounts are the whole of the interaction.      *)
(***************************************************************************)
EXTENDS Friends, TLC

Symmetry == Permutations(Users) \union Permutations(Ids) \union Permutations(Requests)
=============================================================================
