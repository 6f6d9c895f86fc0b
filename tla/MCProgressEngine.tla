-------------------------- MODULE MCProgressEngine --------------------------
(* ProgressEngine for TLC: two fibers, one of which has a spare lease object. *)
EXTENDS ProgressEngine

CONSTANTS f1, f2, l1, l2, l3, c1, c2

MCOwnerOf ==
    [x \in Leases \cup Ctxs |-> IF x \in {l3, c2} THEN f2 ELSE f1]

MCCfgs == [polling : {"epoll", "busy"}, late_spawn : BOOLEAN, lease_first : BOOLEAN,
           wait_may_fail : BOOLEAN]

\* The bounds: one fiber with two leases where a rule may be broken, else two
\* fibers with a lease each.
Bounded ==
    IF LateSpawn \/ LeaseFirst \/ WaitMayFail THEN at[f2] = "unborn" ELSE ~lease[l2]
=============================================================================
