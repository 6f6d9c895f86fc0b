------------------------------ MODULE MCOffload ------------------------------
(* What an offload needs: three tasks in two contexts, one of them deferred;  *)
(* the pools and keys of an offloading context with three fibers, two key     *)
(* objects and up to three keys; five buffer objects for three elements.      *)
(* They share no state, so each behaviour shows one of them.                  *)
EXTENDS TaskOffload, OffloadContexts, Buffers

CONSTANTS o1, o2, o3, c1, c2

MCOffloads == {o1, o2, o3}
MCContexts == {c1, c2}
MCCtxOf == [o \in MCOffloads |-> IF o = o3 THEN c2 ELSE c1]
MCDeferred == {o2}

VARIABLE part

MCInit ==
    /\ Init /\ ContextInit /\ BufferInit
    /\ part \in {"task", "context", "buffers"}
    /\ part # "context" => class = "dma"

MCNext ==
    \/ part = "task" /\ Next /\ UNCHANGED <<allVars, bufferVars, part>>
    \/ part = "context" /\ ContextNext /\ UNCHANGED <<vars, bufferVars, part>>
    \/ part = "buffers" /\ BufferNext /\ UNCHANGED <<vars, allVars, part>>

\* Nothing is owed to the parts that a behaviour is not about.
MCSpec ==
    /\ MCInit /\ [][MCNext]_<<vars, allVars, bufferVars, part>>
    /\ Fairness /\ ContextFairness
=============================================================================
