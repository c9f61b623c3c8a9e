------------------------------- MODULE MCRooms -------------------------------
(***************************************************************************)
(* Model-checking instance of Rooms: the users other than the creator are  *)
(* interchangeable, and so are the request slots.                          *)
(***************************************************************************)
EXTENDS Rooms, TLC

Symmetry == Permutations(Users \ {Creator}) \union Permutations(Requests)
=============================================================================
