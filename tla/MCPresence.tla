------------------------------ MODULE MCPresence ------------------------------
(***************************************************************************)
(* Model-checking instance of Presence (no symmetry: it checks liveness).  *)
(***************************************************************************)
EXTENDS Presence
=============================================================================
