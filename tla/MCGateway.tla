----------------------------- MODULE MCGateway -----------------------------
(* The Gateway client alone, for configurations run by hand. *)
EXTENDS Gateway
=============================================================================
