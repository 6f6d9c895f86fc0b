------------------------------ MODULE PlainDoca ------------------------------
(***************************************************************************)
(* What the programs under samples/plain_doca have in common: they drive   *)
(* DOCA from C, without the coroutine library, to be measured against it.  *)
(*                                                                         *)
(* Every one of them sets up resources in order, with goto labels that     *)
(* release them when a later call fails, then turns a progress engine      *)
(* until its main context is idle, and releases everything.  All the work  *)
(* is done by callbacks that DOCA makes in between.  A process is single-  *)
(* threaded: a callback, or a whole set-up, is one step.                   *)
(***************************************************************************)
EXTENDS Resources

CONSTANTS
    BlockCounts,    \* the numbers of blocks that may be there to process
    Parallelisms    \* the numbers of reads that a dma client may run at a time

\* There is something to process, and somebody to do it (slots are numbered
\* modulo either).
ASSUME WorkAssumption ==
    BlockCounts \subseteq Nat \ {0} /\ Parallelisms \subseteq Nat \ {0}

VARIABLES
    program,    \* the program, or the pair of programs, that runs
    phase,      \* of each process: "start", "loop" or "ended"
    held,       \* of each process: what it has acquired and not yet released
    ctx,        \* DOCA's state of each context
    link,       \* the comch connection between client and server
    inbox,      \* of each process: comch events it has yet to be told of
    sends,      \* of each process: its comch send tasks in flight
    st,         \* the program's own structures
    misuse,     \* history: releases that are too early, too late or repeated
    faults      \* history: what failed, and in which process

vars == <<program, phase, held, ctx, link, inbox, sends, st, misuse, faults>>

Proc == {"client", "server"}

\* Each process has a main context, named after it, and perhaps one more for its
\* bulk transfers: the client's dma or consumer, the server's producer.
Worker(p) == IF p = "client" THEN "receiver" ELSE "producer"
Ctx == Proc \cup {Worker(p) : p \in Proc}

-----------------------------------------------------------------------------
(* Processes and contexts. *)

Blank ==
    /\ ctx = [c \in Ctx |-> "none"]
    /\ link = "none"
    /\ inbox = [p \in Proc |-> <<>>]
    /\ sends = [p \in Proc |-> <<>>]
    /\ held = [p \in Proc |-> {}]
    /\ misuse = {}
    /\ faults = {}

\* The program p starts: it ends at once if a call of its set-up fails, and
\* else its main context, named after p, has been asked to start.
SetsUp(p, outcomes) ==
    /\ phase[p] = "start"
    /\ \E o \in outcomes :
        /\ held' = [held EXCEPT ![p] = Tag(o.held, 0)]
        /\ misuse' = misuse \cup {<<p, r>> : r \in o.bad}
        /\ phase' = [phase EXCEPT ![p] = IF o.ok THEN "loop" ELSE "ended"]
        /\ ctx' = [ctx EXCEPT ![p] = IF o.ok THEN "starting" ELSE @]
        /\ faults' = IF o.ok THEN faults ELSE faults \cup {<<p, "set-up">>}
    /\ UNCHANGED <<link, inbox, sends, st>>

\* p releases seq, resources of its set-up, one after the other.
Releases(p, seq, optional) ==
    /\ held' = [held EXCEPT ![p] = @ \ Tag(Range(seq), 0)]
    /\ misuse' = misuse \cup {<<p, r>> : r \in Wrong(Names(held[p]), seq, optional)}

\* doca_ctx_stop of a context in state s (external): idle comes later.
Stop(s) == IF s \in {"starting", "running"} THEN "stopping" ELSE s

-----------------------------------------------------------------------------
(* DOCA's comch channel between one client and one server (external).  The
   events for a process are queued; a send task arrives at the other side before
   or without its sender's completion callback. *)

Peer(p) == IF p = "client" THEN "server" ELSE "client"

ServerRuns ==
    /\ ctx["server"] = "starting"
    /\ ctx' = [ctx EXCEPT !["server"] = "running"]
    /\ UNCHANGED <<phase, held, link, inbox, sends, st, misuse, faults>>

\* The client's context runs as soon as it is connected.
ClientConnects ==
    /\ ctx["client"] = "starting"
    /\ ctx["server"] = "running"
    /\ ctx' = [ctx EXCEPT !["client"] = "running"]
    /\ link' = "up"
    /\ inbox' = [inbox EXCEPT !["server"] = Append(@, "connection")]

\* Without a server, the client's context falls back to idle.
ClientRefused ==
    /\ ctx["client"] = "starting"
    /\ phase["server"] = "ended"
    /\ ctx' = [ctx EXCEPT !["client"] = "idle"]
    /\ UNCHANGED <<phase, held, link, inbox, sends, st, misuse, faults>>

\* The next event of p, which its callback takes off the queue.
Event(p, e) ==
    /\ phase[p] = "loop"
    /\ inbox[p] # <<>>
    /\ Head(inbox[p]) = e

\* The connection goes away; the side that did not ask for it is told.
Closed(side, queues) ==
    IF link # "up" THEN queues
    ELSE [queues EXCEPT ![side] = Append(@, IF side = "server" THEN "disconnection" ELSE "closed")]

\* The send functions: the task is allocated and submitted, or not.
Submits(p, able, outcomes, msg) ==
    \E o \in outcomes :
        /\ o.ok => able
        /\ held' = [held EXCEPT ![p] = @ \cup Tag(o.held, 0)]
        /\ sends' = IF o.ok THEN [sends EXCEPT ![p] = <<[msg |-> msg, arrived |-> FALSE]>>] ELSE sends
        /\ misuse' = misuse \cup {<<p, r>> : r \in o.bad}
        /\ faults' = IF o.ok THEN faults ELSE faults \cup {<<p, "refused">>}

Arrives(p) ==
    /\ sends[p] # <<>>
    /\ ~Head(sends[p]).arrived
    /\ link = "up"
    /\ sends' = [sends EXCEPT ![p] = <<[Head(@) EXCEPT !.arrived = TRUE]>>]
    /\ inbox' = [inbox EXCEPT ![Peer(p)] = Append(@, Head(sends[p]).msg)]
    /\ UNCHANGED <<phase, held, ctx, link, st, misuse, faults>>

\* What both send callbacks begin with: the task is freed.
SendDone(p) ==
    /\ phase[p] = "loop"
    /\ sends[p] # <<>>
    /\ sends' = [sends EXCEPT ![p] = <<>>]
    /\ held' = [held EXCEPT ![p] = @ \ Tag({"send"}, 0)]

SendCompletes(p) ==
    /\ SendDone(p)
    /\ Head(sends[p]).arrived
    /\ UNCHANGED faults

\* A task that has not arrived fails, at the latest when the link is closed.
SendFails(p) ==
    /\ SendDone(p)
    /\ ~Head(sends[p]).arrived
    /\ faults' = faults \cup {<<p, "send">>}

\* The server has gone, or has disconnected the client: DOCA stops the client.
ClientTold ==
    /\ Event("client", "closed")
    /\ inbox' = [inbox EXCEPT !["client"] = Tail(@)]
    /\ ctx' = [ctx EXCEPT !["client"] = Stop(@)]
    /\ UNCHANGED <<phase, held, link, sends, st, misuse, faults>>

\* A stopping client is idle once nothing is in flight and, if it has consumers,
\* these are.
ClientIdle(children) ==
    /\ ctx["client"] = "stopping"
    /\ sends["client"] = <<>>
    /\ children
    /\ ctx' = [ctx EXCEPT !["client"] = "idle"]
    /\ link' = IF link = "up" THEN "closed" ELSE link
    /\ inbox' = [Closed("server", inbox) EXCEPT !["client"] = <<>>]
    /\ UNCHANGED <<phase, held, sends, st, misuse, faults>>

\* The process ends, with or without an idle context; what it had open goes
\* down with it.
Ends(p, seq, optional) ==
    /\ phase[p] = "loop"
    /\ phase' = [phase EXCEPT ![p] = "ended"]
    /\ Releases(p, seq, optional)
    /\ link' = IF link = "up" THEN "closed" ELSE link
    /\ inbox' = [Closed(Peer(p), inbox) EXCEPT ![p] = <<>>]
    /\ sends' = [sends EXCEPT ![p] = <<>>]

\* The regular end of the main loop.
LoopEnds(p, seq, optional) ==
    /\ ctx[p] = "idle"
    /\ Ends(p, seq, optional)
    /\ UNCHANGED <<ctx, faults>>

\* epoll_wait fails, or the state of the context cannot be read.
LoopBreaks(p, cause, seq, optional) ==
    /\ Ends(p, seq, optional)
    /\ ctx' = [c \in Ctx |-> IF c \in {p, Worker(p)} THEN "none" ELSE ctx[c]]
    /\ faults' = faults \cup {<<p, cause>>}
=============================================================================
