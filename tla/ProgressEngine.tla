--------------------------- MODULE ProgressEngine ---------------------------
(***************************************************************************)
(* The event loop (shoc/progress_engine.cpp, shoc/progress_engine.hpp):    *)
(* the run() coroutine and its notifications, the leases that keep it      *)
(* going, the contexts connected to it, and its destructor.                *)
(*                                                                         *)
(* One thread runs run() and the fibers.  A fiber runs on top of whoever   *)
(* resumed it, so there is a call stack; a context on it is the callback   *)
(* that has yet to tell the engine that this context has stopped.  run()   *)
(* itself is at the bottom, and what it does needs an empty stack.         *)
(***************************************************************************)
EXTENDS Naturals, FiniteSets, Sequences, SequencesExt

CONSTANTS
    Fibers,
    Leases,         \* progress_engine_lease objects
    Ctxs,
    None,
    OwnerOf,        \* the fiber a lease or a context belongs to
    Cfgs            \* the engines, and the programs around them, that are considered

ASSUME EngineConstants ==
    /\ OwnerOf \in [Leases \cup Ctxs -> Fibers]
    /\ IsFiniteSet(Leases) /\ IsFiniteSet(Fibers)
    /\ Fibers \cap Ctxs = {}
    /\ None \notin Fibers \cup Ctxs
    /\ Cfgs \subseteq [polling : {"busy", "epoll"}, late_spawn : BOOLEAN,
                       lease_first : BOOLEAN, wait_may_fail : BOOLEAN]

VARIABLES
    cfg,        \* cfg_, and what the program may do
    pc,         \* where run(), and after it the destructor, is
    ec,         \* the error code of the last wait
    armed,      \* a notification is requested of DOCA
    registered, \* registered_fibers_
    lease,      \* which leases have engine_ set
    ctx,        \* the state of every context
    registry,   \* connected_contexts_
    pending,    \* events DOCA has for doca_pe_progress
    at, on,     \* what every fiber waits for, and of which context
    stack       \* the call stack above run()

vars == <<cfg, pc, ec, armed, registered, lease, ctx, registry, pending, at, on,
          stack>>
runVars == <<cfg, pc, ec, armed>>
leaseVars == <<registered, lease>>
ctxVars == <<ctx, registry, pending>>
fiberVars == <<at, on, stack>>

Events == Ctxs \X {"state", "data"}

Init ==
    /\ cfg \in Cfgs
    /\ pc = "unstarted"
    /\ ec = "ok"
    /\ armed = FALSE
    /\ registered = 0
    /\ lease = [l \in Leases |-> FALSE]
    /\ ctx = [c \in Ctxs |-> "none"]
    /\ registry = {}
    /\ pending = {}
    /\ at = [f \in Fibers |-> "unborn"]
    /\ on = [f \in Fibers |-> None]
    /\ stack = <<>>

-----------------------------------------------------------------------------
(* Helpers *)

\* A coroutine that holds no lease may spawn a client fiber.
LateSpawn == cfg.late_spawn
\* A fiber may give up its last lease before it exits.
LeaseFirst == cfg.lease_first
\* Waiting for the event handle may fail.
WaitMayFail == cfg.wait_may_fail

Runs(f) == stack # <<>> /\ Head(stack) = f

Holds(f) == \E l \in Leases : OwnerOf[l] = f /\ lease[l]

\* run() is suspended, or has ended: the executor can do other things.
RunSuspended == pc \in {"waiting", "woken", "yielding", "ended"}

Waiters(kind, c) == {f \in Fibers : at[f] = kind /\ on[f] = c}

\* The fibers in woken are resumed one after the other, on top of below.
ResumeOn(woken, below) ==
    /\ at' = [f \in Fibers |-> IF f \in woken THEN "running" ELSE at[f]]
    /\ on' = [f \in Fibers |-> IF f \in woken THEN None ELSE on[f]]
    /\ \E order \in SetToSeqs(woken) : stack' = order \o below

\* The running fiber f waits for kind, of context c.
SuspendOn(f, kind, c) ==
    /\ at' = [at EXCEPT ![f] = kind]
    /\ on' = [on EXCEPT ![f] = c]
    /\ stack' = Tail(stack)

\* Context c is idle, and has no events any more: its callback wakes those who
\* wait for data, and then comes to signal_stopped_child.
BecomeIdle(c) ==
    /\ ctx' = [ctx EXCEPT ![c] = "idle"]
    /\ pending' = {e \in pending : e[1] # c}
    /\ ResumeOn(Waiters("data", c), <<c>> \o stack)

\* notifier_.cancel(): ends a wait that has not ended by itself.
Cancel ==
    IF pc = "waiting"
    THEN pc' = "woken" /\ ec' = "aborted" /\ UNCHANGED <<cfg, armed>>
    ELSE UNCHANGED runVars

\* Mutant: the cancellation is left to somebody else.
DeregisterSilently(gone, kept) ==
    /\ registered' = IF gone <= registered THEN registered - gone ELSE 0
    /\ lease' = kept
    /\ UNCHANGED runVars

\* Mutant: the run loop is cancelled although contexts exist.
DeregisterCancels(gone, kept) ==
    /\ registered' = IF gone <= registered THEN registered - gone ELSE 0
    /\ lease' = kept
    /\ IF gone > 0 /\ registered' = 0
       THEN Cancel
       ELSE UNCHANGED runVars

\* gone leases are cleared, and with the last of them, if there is no context,
\* the wait of run() is cancelled; kept is what the leases are then.
Deregister(gone, kept) ==
    /\ registered' = IF gone <= registered THEN registered - gone ELSE 0
    /\ lease' = kept
    /\ IF gone > 0 /\ registered' = 0 /\ registry = {}
       THEN Cancel
       ELSE UNCHANGED runVars

-----------------------------------------------------------------------------
(* Leases *)

\* A client fiber is called with a lease as its argument, and runs up to its
\* first co_await: from main before run(), by a client fiber or, with LateSpawn,
\* by some other coroutine.
Spawn(g) ==
    /\ at[g] = "unborn"
    /\ \/ stack = <<>> /\ pc = "unstarted"
       \/ stack # <<>> /\ Head(stack) \in Fibers /\ Holds(Head(stack))
       \/ stack = <<>> /\ RunSuspended /\ LateSpawn
    /\ \E l \in Leases :
         /\ OwnerOf[l] = g /\ ~lease[l]
         /\ lease' = [lease EXCEPT ![l] = TRUE]
         /\ registered' = registered + 1
    /\ ResumeOn({g}, stack)
    /\ UNCHANGED <<runVars, ctxVars>>

\* The running fiber keeps a lease until it exits.
KeepsLease(f, kept) == LeaseFirst \/ \E l \in Leases : OwnerOf[l] = f /\ kept[l]

\* Mutant: the copy is not registered.
CopyUncounted(f, l, m) ==
    /\ Runs(f)
    /\ OwnerOf[l] = f /\ OwnerOf[m] = f
    /\ lease[m] /\ ~lease[l]
    /\ lease' = [lease EXCEPT ![l] = TRUE]
    /\ UNCHANGED <<registered, runVars, ctxVars, fiberVars>>

\* l = m, where they differ: l is cleared, or registers as m has.
CopyAssign(f, l, m) ==
    /\ Runs(f)
    /\ OwnerOf[l] = f /\ OwnerOf[m] = f
    /\ lease[l] # lease[m]
    /\ LET copied == [lease EXCEPT ![l] = lease[m]]
       IN  /\ KeepsLease(f, copied)
           /\ IF lease[m]
              THEN lease' = copied /\ registered' = registered + 1 /\ UNCHANGED runVars
              ELSE Deregister(1, copied)
    /\ UNCHANGED <<ctxVars, fiberVars>>

\* l = std::move(m): l is cleared and takes what m has.
MoveAssign(f, l, m) ==
    /\ Runs(f)
    /\ OwnerOf[l] = f /\ OwnerOf[m] = f
    /\ l # m
    /\ LET moved == [lease EXCEPT ![l] = lease[m], ![m] = FALSE]
       IN  /\ KeepsLease(f, moved)
           /\ Deregister(IF lease[l] THEN 1 ELSE 0, moved)
    /\ UNCHANGED <<ctxVars, fiberVars>>

Clear(f, l) ==
    /\ Runs(f)
    /\ OwnerOf[l] = f
    /\ lease[l]
    /\ LET cleared == [lease EXCEPT ![l] = FALSE]
       IN  KeepsLease(f, cleared) /\ Deregister(1, cleared)
    /\ UNCHANGED <<ctxVars, fiberVars>>

\* A fiber exits: its scoped contexts have been stopped, then its leases go.
Exit(f) ==
    /\ Runs(f)
    /\ \A c \in Ctxs : OwnerOf[c] = f => ctx[c] \notin {"starting", "running"}
    /\ LET held == {l \in Leases : OwnerOf[l] = f /\ lease[l]}
       IN  Deregister(Cardinality(held), [l \in Leases |-> lease[l] /\ l \notin held])
    /\ SuspendOn(f, "exited", None)
    /\ UNCHANGED ctxVars
-----------------------------------------------------------------------------
(* Contexts *)

\* create_context through a lease: the context runs at once, or f waits.
CreateContext(f, c) ==
    /\ Runs(f)
    /\ Holds(f)
    /\ OwnerOf[c] = f
    /\ ctx[c] = "none"
    /\ registry' = registry \cup {c}
    /\ \/ ctx' = [ctx EXCEPT ![c] = "running"] /\ UNCHANGED fiberVars
       \/ ctx' = [ctx EXCEPT ![c] = "starting"] /\ SuspendOn(f, "start", c)
    /\ UNCHANGED <<runVars, leaseVars, pending>>

\* stop(): the context stops later, or is idle before stop() returns.
StopContext(c) ==
    /\ ctx[c] = "running"
    /\ \/ ctx' = [ctx EXCEPT ![c] = "stopping"] /\ UNCHANGED <<pending, fiberVars>>
       \/ BecomeIdle(c)
    /\ UNCHANGED registry

\* A fiber stops a context, its own or one it shares.
FiberStops(f, c) ==
    /\ Runs(f)
    /\ StopContext(c)
    /\ UNCHANGED <<runVars, leaseVars>>

\* co_await of a message or a result, or of the stop.
Await(f, kind, c) ==
    /\ Runs(f)
    /\ ctx[c] \in (IF kind = "stop" THEN {"stopping"} ELSE {"running", "stopping"})
    /\ kind = "stop" => Waiters("stop", c) = {}
    /\ SuspendOn(f, kind, c)
    /\ UNCHANGED <<runVars, leaseVars, ctxVars>>

\* co_await of anything else: a timer, a socket, yield().
AwaitOther(f) ==
    /\ Runs(f)
    /\ SuspendOn(f, "elsewhere", None)
    /\ UNCHANGED <<runVars, leaseVars, ctxVars>>

\* The executor resumes f.
Wake(f) ==
    /\ stack = <<>>
    /\ RunSuspended
    /\ at[f] = "elsewhere"
    /\ ResumeOn({f}, <<>>)
    /\ UNCHANGED <<runVars, leaseVars, ctxVars>>

\* Mutant: the engine is not told.
SignalNobody(c) ==
    /\ Runs(c)
    /\ ResumeOn(Waiters("stop", c), Tail(stack))
    /\ UNCHANGED <<runVars, leaseVars, ctxVars>>

\* The callback of c comes to signal_stopped_child, and resumes who awaits the
\* stop.
SignalStoppedChild(c) ==
    /\ Runs(c)
    /\ registry' = registry \ {c}
    /\ ResumeOn(Waiters("stop", c), Tail(stack))
    /\ UNCHANGED <<runVars, leaseVars, ctx, pending>>

\* DOCA has an event of c: the end of its start or stop, or data somebody waits
\* for.
Arrive(c, kind) ==
    /\ <<c, kind>> \notin pending
    /\ IF kind = "state"
       THEN ctx[c] \in {"starting", "stopping"}
       ELSE ctx[c] = "running" /\ Waiters("data", c) # {}
    /\ pc # "destroyed"
    /\ pending' = pending \cup {<<c, kind>>}
    /\ UNCHANGED <<runVars, leaseVars, ctx, registry, fiberVars>>

-----------------------------------------------------------------------------
(* run() and the destructor *)

\* Mutant: no notification is requested.
CheckUnarmed ==
    /\ stack = <<>>
    /\ pc \in {"unstarted", "yielding"}
    /\ IF registered > 0 \/ registry # {}
       THEN IF cfg.polling = "busy"
            THEN pc' = "progress" /\ UNCHANGED <<ec, armed>>
            ELSE pc' = "waiting" /\ UNCHANGED <<ec, armed>>
       ELSE pc' = "ended" /\ UNCHANGED <<ec, armed>>
    /\ UNCHANGED <<cfg, leaseVars, ctxVars, fiberVars>>

\* The loop's condition, and up to the wait or the first progress.
Check ==
    /\ stack = <<>>
    /\ pc \in {"unstarted", "yielding"}
    /\ IF registered > 0 \/ registry # {}
       THEN IF cfg.polling = "busy"
            THEN pc' = "progress" /\ UNCHANGED <<ec, armed>>
            ELSE pc' = "waiting" /\ armed' = TRUE /\ UNCHANGED ec
       ELSE pc' = "ended" /\ UNCHANGED <<ec, armed>>
    /\ UNCHANGED <<cfg, leaseVars, ctxVars, fiberVars>>

\* The event handle becomes readable, or the wait fails: the completion of the
\* wait is queued.
Notify ==
    /\ pc = "waiting"
    /\ \/ armed /\ pending # {} /\ ec' = "ok"
       \/ WaitMayFail /\ ec' = "failed"
    /\ pc' = "woken"
    /\ UNCHANGED <<cfg, armed, leaseVars, ctxVars, fiberVars>>

\* run() is resumed, and clears the notification.
Woken ==
    /\ stack = <<>>
    /\ pc = "woken"
    /\ pc' = "progress"
    /\ armed' = FALSE
    /\ UNCHANGED <<cfg, ec, leaseVars, ctxVars, fiberVars>>

InProgress == stack = <<>> /\ pc \in {"progress", "drain"}

\* doca_pe_progress takes the event <<c, kind>> and calls its callback.  A fiber
\* that waits for data is resumed in it, or posted to the executor.
Progress(c, kind) ==
    /\ InProgress
    /\ <<c, kind>> \in pending
    /\ \/ /\ kind = "state" /\ ctx[c] = "starting"
          /\ ctx' = [ctx EXCEPT ![c] = "running"]
          /\ pending' = pending \ {<<c, kind>>}
          /\ ResumeOn(Waiters("start", c), <<>>)
       \/ /\ kind = "state" /\ ctx[c] = "stopping"
          /\ BecomeIdle(c)
       \/ /\ kind = "data"
          /\ pending' = pending \ {<<c, kind>>}
          /\ \/ \E f \in Waiters("data", c) : ResumeOn({f}, <<>>)
             \/ \E f \in Waiters("data", c) :
                  /\ at' = [at EXCEPT ![f] = "elsewhere"]
                  /\ on' = [on EXCEPT ![f] = None]
                  /\ UNCHANGED stack
             \/ Waiters("data", c) = {} /\ UNCHANGED fiberVars
          /\ UNCHANGED ctx
    /\ UNCHANGED <<runVars, leaseVars, registry>>

\* doca_pe_progress has nothing left.
ProgressDone ==
    /\ InProgress
    /\ pending = {}
    /\ pc' = CASE pc = "drain" /\ ec = "dying" -> "destroyed"
               [] pc = "drain" /\ ec # "dying" -> "ended"
               [] pc = "progress" /\ ec = "aborted" -> "stop_all"
               [] pc = "progress" /\ ec = "failed" -> "ended"
               [] OTHER -> "yielding"
    /\ UNCHANGED <<cfg, ec, armed, leaseVars, ctxVars, fiberVars>>

\* stop_all, one context at a time.
StopAll(c) ==
    /\ stack = <<>>
    /\ pc = "stop_all"
    /\ StopContext(c)
    /\ UNCHANGED <<runVars, leaseVars>>

StopAllDone ==
    /\ stack = <<>>
    /\ pc = "stop_all"
    /\ \A c \in registry : ctx[c] # "running"
    /\ pc' = "drain"
    /\ UNCHANGED <<cfg, ec, armed, leaseVars, ctxVars, fiberVars>>

\* ~progress_engine, after run() has ended.
Destroy ==
    /\ stack = <<>>
    /\ pc = "ended"
    /\ IF registry = {}
       THEN pc' = "destroyed" /\ UNCHANGED <<ec, armed>>
       ELSE pc' = "stop_all" /\ ec' = "dying" /\ armed' = FALSE
    /\ UNCHANGED <<cfg, leaseVars, ctxVars, fiberVars>>

-----------------------------------------------------------------------------
RunSteps == Check \/ Notify \/ Woken \/ ProgressDone \/ StopAllDone
FiberSteps(f) ==
    \/ \E l, m \in Leases : CopyAssign(f, l, m) \/ MoveAssign(f, l, m)
    \/ \E l \in Leases : Clear(f, l)
    \/ \E c \in Ctxs :
         \/ CreateContext(f, c)
         \/ FiberStops(f, c)
         \/ \E kind \in {"data", "stop"} : Await(f, kind, c)
    \/ Exit(f)
    \/ AwaitOther(f)

Next ==
    \/ RunSteps
    \/ Destroy
    \/ \E c \in Ctxs :
         \/ StopAll(c)
         \/ SignalStoppedChild(c)
         \/ \E kind \in {"state", "data"} : Arrive(c, kind) \/ Progress(c, kind)
    \/ \E f \in Fibers : Spawn(f) \/ Wake(f) \/ FiberSteps(f)

Spec == Init /\ [][Next]_vars

\* Handlers queued in the executor run, callbacks return and fibers suspend;
\* DOCA ends what it has begun to start or to stop.
FairSpec ==
    /\ Spec
    /\ SF_vars(RunSteps)
    /\ \A c \in Ctxs :
         /\ WF_vars(SignalStoppedChild(c))
         /\ WF_vars(Arrive(c, "state"))
         /\ \A kind \in {"state", "data"} : SF_vars(Progress(c, kind))
    /\ \A f \in Fibers : SF_vars(Wake(f)) /\ SF_vars(AwaitOther(f))
-----------------------------------------------------------------------------
(* Properties *)

TypeOK ==
    /\ cfg \in Cfgs
    /\ pc \in {"unstarted", "waiting", "woken", "progress", "yielding", "stop_all", "drain",
               "ended", "destroyed"}
    /\ ec \in {"ok", "aborted", "failed", "dying"}
    /\ armed \in BOOLEAN
    /\ registered \in Nat
    /\ lease \in [Leases -> BOOLEAN]
    /\ ctx \in [Ctxs -> {"none", "starting", "running", "stopping", "idle"}]
    /\ registry \in SUBSET Ctxs
    /\ pending \in SUBSET Events
    /\ at \in [Fibers -> {"unborn", "running", "start", "data", "stop", "elsewhere", "exited"}]
    /\ on \in [Fibers -> Ctxs \cup {None}]
    /\ stack \in Seq(Fibers \cup Ctxs)

\* registered_fibers_ counts the leases that are held, through construction,
\* copies, moves, clear() and exit; deregister_fiber never finds it too small.
LeasesCounted == registered = Cardinality({l \in Leases : lease[l]})

\* While run() waits for a notification there is a context or a lease.
Wakeable == pc = "waiting" => registered > 0 \/ registry # {}

\* If fibers keep a lease until they exit, run() does not sleep when there is
\* nobody left who could wake it.
SleepJustified == ~LeaseFirst => Wakeable

\* run() goes on as long as there is a context or a fiber with a lease, if client
\* fibers are spawned under a lease and waiting does not fail.
RunsAsLongAsNeeded ==
    [][~LateSpawn /\ ~WaitMayFail /\ pc # "ended" /\ pc' = "ended"
         => registered = 0 /\ registry = {}]_vars

\* Once no context lives and no lease is held, run() returns, whatever the
\* engine's own bookkeeping was told of it and when, if fibers keep a lease until
\* they exit and no other comes late.
RunEnds ==
    /\ ~LeaseFirst /\ ~LateSpawn
    /\ pc # "unstarted"
    /\ \A l \in Leases : ~lease[l]
    /\ \A c \in Ctxs : ctx[c] \in {"none", "idle"}
    ~> pc \in {"ended", "destroyed"}

\* An event is handled, however the notifications, the waits and the progress
\* loops interleave, unless run() has ended before its time; and a fiber that was
\* posted to the executor runs, although run() does so too, if the engine outlives
\* it.
EventsHandled ==
    /\ ~LateSpawn /\ ~WaitMayFail =>
         \A e \in Events : e \in pending ~> e \notin pending
    /\ ~LateSpawn /\ ~LeaseFirst /\ ~WaitMayFail =>
         \A f \in Fibers : at[f] = "elsewhere" ~> at[f] = "running"
=============================================================================
