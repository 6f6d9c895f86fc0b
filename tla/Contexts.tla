------------------------------ MODULE Contexts ------------------------------
(***************************************************************************)
(* The life of the DOCA contexts of one parent (shoc/context.hpp,          *)
(* shoc/context.cpp): creation and start, stop, the registry of active     *)
(* children, and the fibers that wait for state changes.                   *)
(*                                                                         *)
(* Everything runs on one thread, and a fiber is resumed by a call from    *)
(* inside the handler that has its result, so what may happen next is      *)
(* decided by the call stack: its head is what runs now, and only when     *)
(* that suspends or returns does the frame below go on.                    *)
(***************************************************************************)
EXTENDS Naturals, Sequences

CONSTANTS
    Ctxs,           \* context objects
    Fibers,         \* coroutines that use them
    None,           \* a null coroutine handle, and the end iterator
    SharedStop,     \* contexts whose stop several fibers may wait for
    StartMayEnd     \* contexts that may go idle without having run

ASSUME ContextConstants ==
    /\ None \notin Ctxs \cup Fibers
    /\ SharedStop \subseteq Ctxs
    /\ StartMayEnd \subseteq Ctxs

VARIABLES
    state,      \* current_state_ of every context, "none" before its creation
    registry,   \* keys of active_contexts_
    coroStart,  \* coro_start_ of every context
    coroStop,   \* coro_stop_ of every context
    at,         \* what every fiber does: "running", or what it is suspended on
    on,         \* the context it is suspended on
    stack,      \* the call stack
    loop        \* what stop_all works on, when it is on the stack

vars == <<state, registry, coroStart, coroStop, at, on, stack, loop>>
\* What belongs to fibers that wait.
waiting == <<coroStart, coroStop, at, on>>

\* Stack frames: a fiber; the callback of a context that is now idle; stop_all;
\* and the end of a process that has used a freed element.
FiberFrame(f) == [op |-> "fiber", fiber |-> f]
IdleFrame(c) == [op |-> "idle", ctx |-> c]
LoopFrame == [op |-> "stop_all"]
CrashFrame == [op |-> "crash"]

Frames ==
    {FiberFrame(f) : f \in Fibers} \cup {IdleFrame(c) : c \in Ctxs} \cup
    {LoopFrame, CrashFrame}

\* The iterator next of stop_all, and the elements of the table that lie ahead of
\* it: an unordered_map has some order of iteration, which shows with each step.
\* Of its past: the contexts that were there at its start and still are, whether a
\* fiber has asked the one at next to stop, and whether it goes through the table as
\* it was, not rehashed nor left by the iterator.
LoopFrom(next, ahead, found) ==
    [next |-> next, ahead |-> ahead, found |-> found, taken |-> FALSE, intact |-> TRUE]

Init ==
    /\ state = [c \in Ctxs |-> "none"]
    /\ registry = {}
    /\ coroStart = [c \in Ctxs |-> None]
    /\ coroStop = [c \in Ctxs |-> None]
    /\ at = [f \in Fibers |-> "elsewhere"]
    /\ on = [f \in Fibers |-> None]
    /\ stack = <<>>
    /\ loop = LoopFrom(None, {}, {})

-----------------------------------------------------------------------------
(* Helpers *)

Runs(f) == stack # <<>> /\ Head(stack) = FiberFrame(f)

OnStack(frame) == \E i \in DOMAIN stack : stack[i] = frame

Looping == OnStack(LoopFrame)

\* f is resumed from where it is suspended, on top of the frames in below.
ResumeOn(f, below) ==
    /\ at' = [at EXCEPT ![f] = "running"]
    /\ on' = [on EXCEPT ![f] = None]
    /\ stack' = <<FiberFrame(f)>> \o below

\* The running fiber f suspends on what, of context c, and returns control.
SuspendOn(f, what, c) ==
    /\ at' = [at EXCEPT ![f] = what]
    /\ on' = [on EXCEPT ![f] = c]
    /\ stack' = Tail(stack)

\* Where an iteration over kids begins, the end iterator if there are none.
First(kids) == IF kids = {} THEN {None} ELSE kids

\* Insertion into the unordered_map.  If it is being iterated, c gets a place
\* before or behind the iterator, or the table is rehashed: then all have new
\* places, and iterators are invalid; those of the library in use still point to
\* their element, or to the end.
Insert(c) ==
    /\ registry' = registry \cup {c}
    /\ \/ UNCHANGED loop
       \/ /\ loop.next # None
          /\ loop' = [loop EXCEPT !.ahead = @ \cup {c}]
       \/ /\ Looping
          /\ \E ahead \in SUBSET (registry' \ {loop.next}) :
               loop' = [loop EXCEPT !.ahead = IF loop.next = None THEN {} ELSE ahead,
                                    !.intact = FALSE]

\* remove_stopped_context: the others keep their places.
Erase(c) ==
    /\ registry' = registry \ {c}
    /\ loop' = [loop EXCEPT !.ahead = @ \ {c}, !.found = @ \ {c}]

\* doca_ctx_stop of c: the context stops later, or at once with the state change
\* callback called from inside.
Stopping(c) ==
    \/ /\ state' = [state EXCEPT ![c] = "stopping"]
       /\ UNCHANGED stack
    \/ /\ state' = [state EXCEPT ![c] = "idle"]
       /\ stack' = <<IdleFrame(c)>> \o stack

\* The states in which DOCA lets a context be stopped.
Stoppable(c) == state[c] = "running" \/ (state[c] = "starting" /\ c \in StartMayEnd)

-----------------------------------------------------------------------------
(* What a running fiber does *)

\* co_await create_context: make, start and register the context.  If it does
\* not run at once, f suspends.
CreateContext(f, c) ==
    /\ Runs(f)
    /\ state[c] = "none"
    /\ Insert(c)
    /\ \/ /\ state' = [state EXCEPT ![c] = "running"]
          /\ UNCHANGED <<coroStart, at, on, stack>>
       \/ /\ state' = [state EXCEPT ![c] = "starting"]
          /\ coroStart' = [coroStart EXCEPT ![c] = f]
          /\ SuspendOn(f, "start", c)
    /\ UNCHANGED coroStop

\* stop() of one context; a stopped or stopping one is refused.
StopContext(f, c) ==
    /\ Runs(f)
    /\ Stoppable(c)
    /\ Stopping(c)
    /\ loop' = [loop EXCEPT !.taken = @ \/ c = loop.next]
    /\ UNCHANGED <<registry, waiting>>

\* co_await of what stop() has returned; ready if the context is idle.
AwaitStop(f, c) ==
    /\ Runs(f)
    /\ state[c] = "stopping"
    /\ c \in SharedStop \/ coroStop[c] = None
    /\ coroStop' = [coroStop EXCEPT ![c] = f]
    /\ SuspendOn(f, "stop", c)
    /\ UNCHANGED <<state, registry, coroStart, loop>>

\* co_await of something c supplies (a message, a connection, a result).
AwaitData(f, c) ==
    /\ Runs(f)
    /\ state[c] \in {"running", "stopping"}
    /\ SuspendOn(f, "data", c)
    /\ UNCHANGED <<state, registry, coroStart, coroStop, loop>>

\* Anything else a fiber may wait for, its end included.
Leave(f) ==
    /\ Runs(f)
    /\ SuspendOn(f, "elsewhere", None)
    /\ UNCHANGED <<state, registry, coroStart, coroStop, loop>>

-----------------------------------------------------------------------------
(* stop_all *)

\* ++next
Advanced(next) == [loop EXCEPT !.next = next, !.ahead = @ \ {next}, !.taken = FALSE]

\* Called by the engine or, for the children of a connection or client, by a
\* fiber.  They all do so once: run() leaves its loop, connections and clients are
\* no longer CONNECTED.
StopAll ==
    /\ ~Looping
    /\ stack # <<>> => Head(stack).op = "fiber"
    /\ \E next \in First(registry) : loop' = LoopFrom(next, registry \ {next}, registry)
    /\ stack' = <<LoopFrame>> \o stack
    /\ UNCHANGED <<state, registry, waiting>>

\* Mutant: the iterator is advanced after the stop.
StopAllRoundLate ==
    /\ stack # <<>>
    /\ Head(stack) = LoopFrame
    /\ loop.next \in registry
    /\ LET it == loop.next
       IN  IF Stoppable(it)
           THEN Stopping(it) /\ UNCHANGED loop
           ELSE /\ \E next \in First(loop.ahead) : loop' = Advanced(next)
                /\ UNCHANGED <<state, stack>>
    /\ UNCHANGED <<registry, waiting>>

\* Mutant: the iterator is advanced twice.
StopAllRoundTwice ==
    /\ stack # <<>>
    /\ Head(stack) = LoopFrame
    /\ loop.next \in registry
    /\ LET it == loop.next
       IN  /\ \E skipped \in First(loop.ahead) :
              \E next \in First(loop.ahead \ {skipped}) :
                loop' = [Advanced(next) EXCEPT !.ahead = @ \ {skipped}]
           /\ IF Stoppable(it) THEN Stopping(it) ELSE UNCHANGED <<state, stack>>
    /\ UNCHANGED <<registry, waiting>>

\* One round: advance the iterator, then stop the context it was at.
StopAllRound ==
    /\ stack # <<>>
    /\ Head(stack) = LoopFrame
    /\ loop.next \in registry
    /\ LET it == loop.next
       IN  /\ \E next \in First(loop.ahead) : loop' = Advanced(next)
           /\ IF Stoppable(it) THEN Stopping(it) ELSE UNCHANGED <<state, stack>>
    /\ UNCHANGED <<registry, waiting>>

\* One round with an iterator whose element a fiber has erased: what is read
\* from freed memory leads anywhere in the table, to its end, or nowhere.
StopAllAstray ==
    /\ stack # <<>>
    /\ Head(stack) = LoopFrame
    /\ loop.next \notin registry \cup {None}
    /\ \/ /\ \E next \in registry \cup {None}, ahead \in SUBSET registry :
               loop' = [Advanced(next) EXCEPT !.ahead = IF next = None THEN {} ELSE ahead \ {next},
                                              !.intact = FALSE]
          /\ UNCHANGED stack
       \/ /\ stack' = <<CrashFrame>> \o stack
          /\ UNCHANGED loop
    /\ UNCHANGED <<state, registry, waiting>>

StopAllEnd ==
    /\ stack # <<>>
    /\ Head(stack) = LoopFrame
    /\ loop.next = None
    /\ stack' = Tail(stack)
    /\ loop' = LoopFrom(None, {}, {})
    /\ UNCHANGED <<state, registry, waiting>>

-----------------------------------------------------------------------------
(* state_changed_callback, IDLE *)

\* The virtual state_changed wakes those who wait for data, one by one.
WakeDataAwaiter(f) ==
    /\ stack # <<>>
    /\ at[f] = "data"
    /\ Head(stack) = IdleFrame(on[f])
    /\ ResumeOn(f, stack)
    /\ UNCHANGED <<state, registry, coroStart, coroStop, loop>>

\* Mutant: the waiting coroutine is taken and not resumed.
SignalWithoutResume(c) ==
    /\ stack # <<>>
    /\ Head(stack) = IdleFrame(c)
    /\ Erase(c)
    /\ coroStop' = [coroStop EXCEPT ![c] = None]
    /\ stack' = Tail(stack)
    /\ UNCHANGED <<state, coroStart, at, on>>

\* Mutant: the callback does not wait for state_changed to wake everybody.
SignalBeforeData(c) ==
    /\ stack # <<>>
    /\ Head(stack) = IdleFrame(c)
    /\ Erase(c)
    /\ coroStop' = [coroStop EXCEPT ![c] = None]
    /\ IF coroStop[c] # None
       THEN ResumeOn(coroStop[c], Tail(stack))
       ELSE stack' = Tail(stack) /\ UNCHANGED <<at, on>>
    /\ UNCHANGED <<state, coroStart>>

\* Then the parent removes the context and the fiber in coro_stop_ is resumed.
SignalStopped(c) ==
    /\ stack # <<>>
    /\ Head(stack) = IdleFrame(c)
    /\ \A f \in Fibers : ~(at[f] = "data" /\ on[f] = c)
    /\ Erase(c)
    /\ coroStop' = [coroStop EXCEPT ![c] = None]
    /\ IF coroStop[c] # None
       THEN ResumeOn(coroStop[c], Tail(stack))
       ELSE stack' = Tail(stack) /\ UNCHANGED <<at, on>>
    /\ UNCHANGED <<state, coroStart>>

-----------------------------------------------------------------------------
(* The event loop, when the stack is empty *)

\* STARTING to RUNNING.
Started(c) ==
    /\ stack = <<>>
    /\ state[c] = "starting"
    /\ state' = [state EXCEPT ![c] = "running"]
    /\ coroStart' = [coroStart EXCEPT ![c] = None]
    /\ IF coroStart[c] # None
       THEN ResumeOn(coroStart[c], <<>>)
       ELSE UNCHANGED <<at, on, stack>>
    /\ UNCHANGED <<registry, coroStop, loop>>

\* STOPPING to IDLE, or the end of a start that came to nothing.
Stopped(c) ==
    /\ stack = <<>>
    /\ state[c] = "stopping" \/ (state[c] = "starting" /\ c \in StartMayEnd)
    /\ state' = [state EXCEPT ![c] = "idle"]
    /\ stack' = <<IdleFrame(c)>>
    /\ UNCHANGED <<registry, waiting, loop>>

\* Data arrives for f, or whatever else it waits for.
Wake(f) ==
    /\ stack = <<>>
    /\ at[f] = "elsewhere" \/ (at[f] = "data" /\ state[on[f]] # "idle")
    /\ ResumeOn(f, <<>>)
    /\ UNCHANGED <<state, registry, coroStart, coroStop, loop>>

-----------------------------------------------------------------------------
Callbacks ==
    \/ StopAllRound
    \/ StopAllAstray
    \/ StopAllEnd
    \/ \E f \in Fibers : WakeDataAwaiter(f)
    \/ \E c \in Ctxs : SignalStopped(c)

Next ==
    \/ \E f \in Fibers :
         \/ \E c \in Ctxs :
              \/ CreateContext(f, c)
              \/ StopContext(f, c)
              \/ AwaitStop(f, c)
              \/ AwaitData(f, c)
         \/ Leave(f)
         \/ Wake(f)
    \/ StopAll
    \/ Callbacks
    \/ \E c \in Ctxs : Started(c) \/ Stopped(c)

Spec == Init /\ [][Next]_vars

\* Callbacks return, fibers suspend, and DOCA delivers the state changes it has
\* promised once the event loop looks for them.
FairSpec ==
    /\ Spec
    /\ WF_vars(Callbacks)
    /\ \A f \in Fibers : SF_vars(Leave(f))
    /\ \A c \in Ctxs : SF_vars(Started(c)) /\ SF_vars(Stopped(c))
-----------------------------------------------------------------------------
(* Properties *)

TypeOK ==
    /\ state \in [Ctxs -> {"none", "starting", "running", "stopping", "idle"}]
    /\ registry \in SUBSET Ctxs
    /\ coroStart \in [Ctxs -> Fibers \cup {None}]
    /\ coroStop \in [Ctxs -> Fibers \cup {None}]
    /\ at \in [Fibers -> {"elsewhere", "running", "start", "stop", "data"}]
    /\ on \in [Fibers -> Ctxs \cup {None}]
    /\ stack \in Seq(Frames)
    /\ loop \in [next : Ctxs \cup {None}, ahead : SUBSET Ctxs,
                 found : SUBSET Ctxs, taken : BOOLEAN, intact : BOOLEAN]

\* The parent's registry holds the contexts that are not idle and, while its
\* callback has not come to signal_stopped_child, one that has just become so.
RegistryMatches ==
    \A c \in Ctxs :
        c \in registry <=> \/ state[c] \in {"starting", "running", "stopping"}
                           \/ OnStack(IdleFrame(c))

\* What the comment in stop_all says of its iterator: it remains valid when the
\* stop() that stop_all calls removes a context.  That stop() also resumes
\* fibers, and one of them may stop the context the iterator points to.
IteratorValid ==
    Looping => loop.next \in registry \cup {None}

\* What the iterator dance does achieve: the removals that stop_all causes itself,
\* however deep in callbacks, never take the element the iterator points to.  It
\* is only lost to a fiber that asks that very context to stop.
LostOnlyToFibers ==
    Looping => loop.next \in registry \cup {None} \/ loop.taken

\* stop_all passes nobody by: wherever new contexts are inserted and whichever
\* others leave meanwhile, a context that was in the registry when it began and
\* still runs is one the iterator has yet to reach.  This ends when the table is
\* rehashed or the iterator's element is erased, by fibers that it has resumed.
NobodyPassedBy ==
    Looping /\ loop.intact /\ loop.next \in registry \cup {None} =>
        \A c \in loop.found : state[c] = "running" =>
            c = loop.next \/ c \in loop.ahead

\* A fiber in co_await stop() waits for a context that is not idle, or whose
\* callback is about to resume it, unless another fiber has taken its place in
\* coro_stop_.
NoStopAwaiterLeft ==
    \A f \in Fibers : at[f] = "stop" /\ on[f] \notin SharedStop =>
        state[on[f]] = "stopping" \/ OnStack(IdleFrame(on[f]))

\* A fiber in co_await create_context() waits for a context that still starts,
\* unless that start has come to nothing, of which the fiber is not told.
NoStartAwaiterLeft ==
    \A f \in Fibers : at[f] = "start" /\ on[f] \notin StartMayEnd =>
        state[on[f]] = "starting"

\* With the same exceptions, who waits for a start or a stop, or for data of a
\* context that becomes idle, is resumed, unless the process has crashed in a
\* stop_all that has lost its iterator.
AwaitersResume ==
    \A f \in Fibers :
        \/ at[f] = "start" /\ on[f] \notin StartMayEnd
        \/ at[f] = "stop" /\ on[f] \notin SharedStop
        \/ at[f] = "data" /\ state[on[f]] = "idle"
        ~> at[f] = "running" \/ OnStack(CrashFrame)
=============================================================================
