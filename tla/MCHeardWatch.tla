---------------------------- MODULE MCHeardWatch ----------------------------
(* The repeat listener alone, for configurations run by hand. *)
EXTENDS HeardWatch
=============================================================================
