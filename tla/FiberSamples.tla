---------------------------- MODULE FiberSamples ----------------------------
(***************************************************************************)
(* The C++ counterparts of two plain_doca programs, which keep a window of *)
(* offloads under way: samples/simple_compress.cpp, parallel_compress.cpp, *)
(* and samples/dma_client.cpp with dma_server.cpp.                         *)
(*                                                                         *)
(* A fiber runs from one co_await to the next in one step.  The library is *)
(* taken by what its modules show: an awaitable owns the receptable that   *)
(* the completion of its task is written to, a call without a free task    *)
(* hands out an error, and a fiber that waits on a connection is told of   *)
(* its end by an exception, which leaves the fiber and is logged by        *)
(* value_receptable::resume, so that it ends no other fiber.               *)
(***************************************************************************)
EXTENDS PlainDoca

\* A window: slots awaitables, of the offloads in pending, in a context with a
\* number of tasks; i is the next iteration.  serving is where handle_connection
\* is, and told whether it has been told that the transfer is complete.
Window(n, slots, tasks) ==
    [block_count |-> n, slots |-> slots, tasks |-> tasks, i |-> 0, at |-> "start",
     pending |-> [k \in 0..(slots - 1) |-> {}],
     inflight |-> {}, good |-> {}, dropped |-> {}, serving |-> "none", told |-> FALSE]

Slot(s) == s.i % s.slots

\* co_await of an awaitable suspends for as long as its task is under way.
Ready(s, slot) == s.pending[slot] \cap s.inflight = {}

\* pending[slot] = context->offload(...): the awaitable that was in the slot is
\* destroyed.
Launch(s) ==
    [s EXCEPT !.i = @ + 1,
              !.pending[Slot(s)] = {s.i},
              !.inflight = IF Cardinality(@) < s.tasks THEN @ \cup {s.i} ELSE @,
              !.dropped = @ \cup (s.pending[Slot(s)] \cap s.inflight)]

\* DOCA completes an offload (external).
Completion(b) ==
    /\ phase["client"] = "loop"
    /\ st' = [st EXCEPT !.inflight = @ \ {b}, !.good = @ \cup {b}]
    /\ UNCHANGED <<phase, held, ctx, link, inbox, sends, misuse, faults>>

FailedCompletion(b) ==
    /\ phase["client"] = "loop"
    /\ st' = [st EXCEPT !.inflight = @ \ {b}]
    /\ faults' = faults \cup {<<"client", "task">>}
    /\ UNCHANGED <<phase, held, ctx, link, inbox, sends, misuse>>

\* p begins; device::find and the constructors throw if something is missing.
Begin(p, context, able) ==
    /\ phase[p] = "start"
    /\ phase' = [phase EXCEPT ![p] = IF able THEN "loop" ELSE "ended"]
    /\ ctx' = IF able THEN [ctx EXCEPT ![context] = "starting"] ELSE ctx
    /\ faults' = IF able THEN faults ELSE faults \cup {<<p, "set-up">>}
    /\ UNCHANGED <<held, link, inbox, sends, st, misuse>>

-----------------------------------------------------------------------------
(* compress_file.  simple_compress awaits an offload in the iteration that
   makes it, which is a window of one. *)

compress_file ==
    {Window(n, 1, 16) : n \in BlockCounts} \cup {Window(n, 4, 4) : n \in BlockCounts}

CompressRunning ==
    /\ phase["client"] = "loop"
    /\ ctx["client"] = "starting"
    /\ ctx' = [ctx EXCEPT !["client"] = "running"]
    /\ st' = [st EXCEPT !.at = "window"]
    /\ UNCHANGED <<phase, held, link, inbox, sends, misuse, faults>>

CompressIteration ==
    /\ phase["client"] = "loop"
    /\ st.at = "window"
    /\ st.i < st.block_count
    /\ st.i >= st.slots => Ready(st, Slot(st))
    /\ st' = Launch(st)
    /\ UNCHANGED <<phase, held, ctx, link, inbox, sends, misuse, faults>>

\* All waiters are awaited, also those that never got an offload: await_ready is
\* noexcept and throws, which ends the program.
CompressDrained ==
    /\ phase["client"] = "loop"
    /\ st.at = "window"
    /\ st.i = st.block_count
    /\ \A k \in DOMAIN st.pending : Ready(st, k)
    /\ IF st.slots > st.block_count
       THEN /\ phase' = [phase EXCEPT !["client"] = "ended"]
            /\ UNCHANGED <<ctx, st>>
       ELSE /\ ctx' = [ctx EXCEPT !["client"] = Stop(@)]
            /\ st' = [st EXCEPT !.at = "stop"]
            /\ UNCHANGED phase
    /\ UNCHANGED <<held, link, inbox, sends, misuse, faults>>

CompressStopped ==
    /\ phase["client"] = "loop"
    /\ ctx["client"] = "stopping"
    /\ ctx' = [ctx EXCEPT !["client"] = "idle"]
    /\ phase' = [phase EXCEPT !["client"] = "ended"]
    /\ st' = [st EXCEPT !.at = "end"]
    /\ UNCHANGED <<held, link, inbox, sends, misuse, faults>>

CompressSteps ==
    \/ Begin("client", "client", TRUE)
    \/ CompressRunning \/ CompressIteration \/ CompressDrained \/ CompressStopped
    \/ \E b \in st.inflight : Completion(b)

CompressFailures ==
    \/ Begin("client", "client", FALSE)
    \/ \E b \in st.inflight : FailedCompletion(b)
-----------------------------------------------------------------------------
(* dma_receive, of which parallelism is a parameter. *)

dma_transfer ==
    {LET slots == IF p < n THEN p ELSE n IN Window(n, slots, slots + 1)
        : n \in BlockCounts, p \in Parallelisms}

client_created ==
    /\ phase["client"] = "loop"
    /\ ClientConnects
    /\ st' = [st EXCEPT !.at = "msg_recv"]
    /\ UNCHANGED <<phase, held, sends, misuse, faults>>

\* The extents are there: memory, maps, inventory and a dma context are created.
extents_received ==
    /\ Event("client", "extents")
    /\ st.at = "msg_recv"
    /\ inbox' = [inbox EXCEPT !["client"] = Tail(@)]
    /\ ctx' = [ctx EXCEPT !["receiver"] = "starting"]
    /\ st' = [st EXCEPT !.at = "create"]
    /\ UNCHANGED <<phase, held, link, sends, misuse, faults>>

dma_created ==
    /\ phase["client"] = "loop"
    /\ ctx["receiver"] = "starting"
    /\ ctx' = [ctx EXCEPT !["receiver"] = "running"]
    /\ st' = [st EXCEPT !.at = "window"]
    /\ UNCHANGED <<phase, held, link, inbox, sends, misuse, faults>>

\* The fiber ends: its variables go out of scope, pending and the memory that
\* was to be filled among them, and its contexts are stopped.
Return(cause) ==
    /\ phase' = [phase EXCEPT !["client"] = "ended"]
    /\ st' = [st EXCEPT !.at = "end", !.inflight = {},
                        !.dropped = @ \cup ((UNION Range(st.pending)) \cap st.inflight)]
    /\ misuse' = IF st.inflight = {} THEN misuse ELSE misuse \cup {<<"client", "local_mem">>}
    /\ ctx' = [ctx EXCEPT !["client"] = "idle", !["receiver"] = "idle"]
    /\ link' = IF link = "up" THEN "closed" ELSE link
    /\ inbox' = [Closed("server", inbox) EXCEPT !["client"] = <<>>]
    /\ sends' = [sends EXCEPT !["client"] = <<>>]
    /\ faults' = IF cause = "none" THEN faults ELSE faults \cup {<<"client", cause>>}
    /\ UNCHANGED held

\* Mutant: one iteration later still.
AwaitsLate(s) == s.i > s.slots + 1

\* One iteration of the loop, up to the next co_await.
AwaitsFirst(s) == s.i > s.slots

dma_iteration ==
    /\ phase["client"] = "loop"
    /\ st.at = "window"
    /\ st.i < st.block_count + st.slots
    /\ AwaitsFirst(st) => Ready(st, Slot(st))
    /\ IF AwaitsFirst(st) /\ ~(st.pending[Slot(st)] \subseteq st.good)
       THEN Return("none")
       ELSE /\ st' = IF st.i < st.block_count THEN Launch(st) ELSE [st EXCEPT !.i = @ + 1]
            /\ UNCHANGED <<phase, held, ctx, link, inbox, sends, misuse, faults>>

\* client->send("done"), after the loop.
send_done ==
    /\ phase["client"] = "loop"
    /\ st.at = "window"
    /\ st.i = st.block_count + st.slots
    /\ st' = [st EXCEPT !.at = "send"]
    /\ sends' = [sends EXCEPT !["client"] = <<[msg |-> "done", arrived |-> FALSE]>>]
    /\ UNCHANGED <<phase, held, ctx, link, inbox, misuse, faults>>

\* Whatever the status of the send, nobody looks at it.
done_sent ==
    /\ phase["client"] = "loop"
    /\ sends["client"] # <<>>
    /\ Head(sends["client"]).arrived
    /\ Return("none")

done_not_sent ==
    /\ phase["client"] = "loop"
    /\ sends["client"] # <<>>
    /\ ~Head(sends["client"]).arrived
    /\ Return("send")

\* The server has disconnected: a fiber in msg_recv() gets an exception, and one
\* that is elsewhere goes on.
client_disconnected ==
    /\ Event("client", "closed")
    /\ IF st.at = "msg_recv"
       THEN Return("exception")
       ELSE /\ inbox' = [inbox EXCEPT !["client"] = Tail(@)]
            /\ ctx' = [ctx EXCEPT !["client"] = Stop(@)]
            /\ UNCHANGED <<phase, held, link, sends, st, misuse, faults>>

\* The context has not started: nobody resumes the fiber that waits for it.
client_not_created ==
    /\ ctx["client"] = "starting"
    /\ phase["server"] = "ended"
    /\ ctx' = [ctx EXCEPT !["client"] = "idle"]
    /\ faults' = faults \cup {<<"client", "start">>}
    /\ UNCHANGED <<phase, held, link, inbox, sends, st, misuse>>

-----------------------------------------------------------------------------
(* dma_serve, which accepts for ever, and handle_connection. *)

\* A memory map that is exported, and the message that says so.
handle_connection ==
    /\ Event("server", "connection")
    /\ inbox' = [inbox EXCEPT !["server"] = Tail(@)]
    /\ held' = [held EXCEPT !["server"] = Tag({"mmap"}, 0)]
    /\ sends' = [sends EXCEPT !["server"] = <<[msg |-> "extents", arrived |-> FALSE]>>]
    /\ st' = [st EXCEPT !.serving = "send"]
    /\ UNCHANGED <<phase, ctx, link, misuse, faults>>

\* handle_connection returns: the memory map goes, and the connection with it.
Leave(queues, told) ==
    /\ held' = [held EXCEPT !["server"] = {}]
    /\ st' = [st EXCEPT !.serving = "end", !.told = told]
    /\ link' = IF link = "up" THEN "closed" ELSE link
    /\ inbox' = Closed("client", queues)

extents_sent ==
    /\ SendDone("server")
    /\ Head(sends["server"]).arrived
    /\ st' = [st EXCEPT !.serving = "msg_recv"]
    /\ UNCHANGED <<phase, ctx, link, inbox, misuse, faults>>

extents_not_sent ==
    /\ phase["server"] = "loop"
    /\ sends["server"] # <<>>
    /\ ~Head(sends["server"]).arrived
    /\ sends' = [sends EXCEPT !["server"] = <<>>]
    /\ Leave(inbox, FALSE)
    /\ faults' = faults \cup {<<"server", "send">>}
    /\ UNCHANGED <<phase, ctx, misuse>>

done_received ==
    /\ Event("server", "done")
    /\ st.serving = "msg_recv"
    /\ Leave([inbox EXCEPT !["server"] = Tail(@)], TRUE)
    /\ UNCHANGED <<phase, ctx, sends, misuse, faults>>

\* What handle_connection throws before its first co_await ends dma_serve, which
\* has called it, and with it the server.
Throw(cause) ==
    /\ phase' = [phase EXCEPT !["server"] = "ended"]
    /\ ctx' = [ctx EXCEPT !["server"] = "none"]
    /\ Leave([inbox EXCEPT !["server"] = <<>>], st.told)
    /\ sends' = [sends EXCEPT !["server"] = <<>>]
    /\ faults' = faults \cup {<<"server", cause>>}
    /\ UNCHANGED misuse

\* The client has gone: a handle_connection that waits for "done" gets an
\* exception, and dma_serve goes on accepting.
server_disconnected ==
    /\ Event("server", "disconnection")
    /\ st.serving # "send"
    /\ LET rest == [inbox EXCEPT !["server"] = Tail(@)] IN
       IF st.serving = "msg_recv"
       THEN /\ Leave(rest, st.told)
            /\ faults' = faults \cup {<<"server", "exception">>}
       ELSE inbox' = rest /\ UNCHANGED <<held, link, st, faults>>
    /\ UNCHANGED <<phase, ctx, sends, misuse>>

dma_serve ==
    \/ ServerRuns
    \/ handle_connection \/ extents_sent \/ done_received \/ server_disconnected
    \/ link = "closed" /\ extents_not_sent

DmaSteps ==
    \/ \E p \in Proc : Begin(p, p, TRUE) \/ Arrives(p)
    \/ client_created \/ extents_received \/ dma_created
    \/ dma_iteration \/ send_done \/ done_sent
    \/ link = "closed" /\ done_not_sent
    \/ client_disconnected \/ client_not_created
    \/ \E b \in st.inflight : Completion(b)
    \/ dma_serve

DmaFailures ==
    \/ \E p \in Proc : Begin(p, p, FALSE)
    \/ \E b \in st.inflight : FailedCompletion(b)
    \/ link = "up" /\ (done_not_sent \/ extents_not_sent)
    \/ Event("client", "extents") /\ Return("exception")
    \/ Event("server", "connection") /\ Throw("exception")
-----------------------------------------------------------------------------
(* The programs by themselves. *)

Init ==
    /\ Blank
    /\ \/ /\ program = "compress_fibers"
          /\ phase = [client |-> "start", server |-> "ended"]
          /\ st \in compress_file
       \/ /\ program = "dma_fibers"
          /\ phase = [p \in Proc |-> "start"]
          /\ st \in dma_transfer

Steps ==
    \/ program = "compress_fibers" /\ CompressSteps
    \/ program = "dma_fibers" /\ DmaSteps

Failures ==
    \/ program = "compress_fibers" /\ CompressFailures
    \/ program = "dma_fibers" /\ DmaFailures

Next == (Steps \/ Failures) /\ UNCHANGED program

Spec == Init /\ [][Next]_vars

\* "The awaitable must be kept alive long enough for the callback to write data
\* into it" (status_awaitable.hpp): however many blocks there are and in whichever
\* order their offloads end, the windows of the C++ programs reuse no slot before
\* that, but for slot 0 when dma_client.cpp comes to it for the second time.  Only
\* after a failure may its fiber leave others behind.
AwaitablesKept ==
    /\ program = "compress_fibers" => st.dropped = {}
    /\ program = "dma_fibers" /\ faults = {} => st.dropped \subseteq {0}

\* "first slots iterations fill pending, after that a pending task will be awaited
\* before another one is pushed" (dma_client.cpp:81): while nothing fails, no slot
\* is given another task before its last one is complete.
PendingAwaited == program = "dma_fibers" /\ faults = {} => st.dropped = {}

\* A client that ends without a failure has what it ran for, but for a
\* parallel_compress that has fewer blocks than waiters, which ends without a
\* result, and for the first block of dma_client, which it does not wait for.
CompleteFibers ==
    phase["client"] = "ended" /\ faults = {} =>
        /\ program = "compress_fibers" =>
              \/ st.at = "end" /\ st.good = 0..(st.block_count - 1)
              \/ st.slots > st.block_count
        /\ program = "dma_fibers" => st.good \cup {0} = 0..(st.block_count - 1)

\* dma_server.cpp keeps its memory map for as long as dma_client.cpp may read from
\* it, and is told that the client is done when every block has been copied, but
\* for the first one.
MappingKept ==
    program = "dma_fibers" =>
        /\ /\ st.inflight \ {0} # {}
           /\ phase["client"] # "ended" /\ phase["server"] # "ended"
           => <<"mmap", 0>> \in held["server"]
        /\ st.told => st.good \cup {0} = 0..(st.block_count - 1)
=============================================================================
