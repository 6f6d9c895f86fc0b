---------------------------- MODULE MCConnections ----------------------------
(* The ways a fiber gets a connection and what comes over it: the queues of   *)
(* accepters, a client with two children, a receiver and a fiber that accepts *)
(* consumers, and the connection manager of RDMA.  They share no state, so    *)
(* each behaviour shows one of them.                                          *)
EXTENDS AccepterQueues, ComchClient, RdmaCm

CONSTANTS p1, p2

MCPayload == {p1, p2}

VARIABLE part

MCInit ==
    /\ Init /\ ClientInit /\ CmInit
    /\ part \in {"queues", "client", "cm"}

MCNext ==
    \/ part = "queues" /\ Next /\ UNCHANGED <<comchVars, cmVars, part>>
    \/ part = "client" /\ ClientNext /\ UNCHANGED <<vars, cmVars, part>>
    \/ part = "cm" /\ CmNext /\ UNCHANGED <<vars, comchVars, part>>

\* A client that the behaviour is not about never starts.
MCSpec ==
    /\ MCInit /\ [][MCNext]_<<vars, comchVars, cmVars, part>>
    /\ Fairness
    /\ part = "client" => ClientFairness
    /\ CmFairness
=============================================================================
