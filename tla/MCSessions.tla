------------------------------ MODULE MCSessions ------------------------------
(***************************************************************************)
(* Model-checking instance of Sessions: the session ids and the request    *)
(* slots are interchangeable.                                              *)
(***************************************************************************)
EXTENDS Sessions, TLC

Symmetry == Permutations(SessionIds) \union Permutations(Requests)
=============================================================================
