----------------------------- MODULE MCContexts -----------------------------
(* Contexts for TLC. *)
EXTENDS Contexts
=============================================================================
