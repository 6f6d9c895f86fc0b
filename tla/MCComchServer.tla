---------------------------- MODULE MCComchServer ----------------------------
(* A server with three connections: k1 and its children are sound and on    *)
(* time, to k2 and its child everything may happen, and the client of k3    *)
(* may disconnect by itself.  Either the second child of k1 comes or k3:    *)
(* two children of a connection and three connections in one walk of stop() *)
(* both happen, but not together.                                           *)
EXTENDS ComchServer, TLC

CONSTANTS k1, k2, k3, a1, a2, b1

MCParentOf == (a1 :> k1) @@ (a2 :> k1) @@ (b1 :> k2)

OneOfTheTwo == child'[a2] = "none" \/ state'[k3] = "none"
=============================================================================
