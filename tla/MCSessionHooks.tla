--------------------------- MODULE MCSessionHooks ---------------------------
(* Instance of SessionHooks for TLC. *)
EXTENDS SessionHooks
=============================================================================
