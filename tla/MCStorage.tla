------------------------------ MODULE MCStorage ------------------------------
(***************************************************************************)
(* Model-checking instance of Storage: users, rooms, files and request     *)
(* slots are each interchangeable.                                         *)
(***************************************************************************)
EXTENDS Storage, TLC

Symmetry ==
  Permutations(Users) \union Permutations(Rooms) \union Permutations(Files)
    \union Permutations(Requests)
=============================================================================
