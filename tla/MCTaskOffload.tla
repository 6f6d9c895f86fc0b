---------------------------- MODULE MCTaskOffload ----------------------------
(* A single offload. *)
EXTENDS TaskOffload

CONSTANTS o1, c1

MCOffloads == {o1}
MCCtxOf == [o \in MCOffloads |-> c1]
=============================================================================
