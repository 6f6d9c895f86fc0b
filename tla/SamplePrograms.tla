---------------------------- MODULE SamplePrograms ----------------------------
(***************************************************************************)
(* The programs of samples/plain_doca, and C++ programs of samples, one of *)
(* which is run.                                                           *)
(***************************************************************************)
EXTENDS FiberSamples

Compress == INSTANCE PlainCompress
Ping == INSTANCE PlainPing
Data == INSTANCE PlainData
Dma == INSTANCE PlainDma

SampleInit ==
    /\ Blank
    /\ \/ /\ program = "compress"
          /\ phase = [client |-> "start", server |-> "ended"]
          /\ st \in Compress!compression_state
       \/ /\ program = "ping"
          /\ phase = [p \in Proc |-> "start"]
          /\ st \in Ping!State
       \/ /\ program = "data"
          /\ phase = [p \in Proc |-> "start"]
          /\ st \in Data!State
       \/ /\ program = "dma"
          /\ phase = [p \in Proc |-> "start"]
          /\ st \in Dma!State
       \/ Init

SampleSteps ==
    /\ \/ program = "compress" /\ Compress!Steps
       \/ program = "ping" /\ Ping!Steps
       \/ program = "data" /\ Data!Steps
       \/ program = "dma" /\ Dma!Steps
       \/ Steps
    /\ UNCHANGED program

SampleFailures ==
    /\ \/ program = "compress" /\ Compress!Failures
       \/ program = "ping" /\ Ping!Failures
       \/ program = "data" /\ Data!Failures
       \/ program = "dma" /\ Dma!Failures
       \/ Failures
    /\ UNCHANGED program

SampleNext == SampleSteps \/ SampleFailures

SampleSpec == SampleInit /\ [][SampleNext]_vars /\ WF_vars(SampleSteps)

-----------------------------------------------------------------------------
(* Properties, besides AwaitablesKept of FiberSamples *)

Ended(p) == phase[p] = "ended"

\* The process has left its main loop while its contexts were still at work.
Broke(p) == faults \cap {<<p, "wait">>, <<p, "state">>} # {}

\* A client that ends has what it ran for, unless something failed: the answer
\* to its ping, every block of the stream or every block of the exported memory
\* (but for a parallelism larger than the number of blocks, which
\* dma_state_changed_callback does not compare).  compress_buffers returns its
\* result even then, and it is complete unless a task failed, or the state of the
\* context could not be read.  In any case the n-th receive of the stream is
\* filled with the n-th block.  Of the C++ programs, parallel_compress ends
\* without a result if it has fewer blocks than waiters, and dma_client may end
\* without the first block, which it does not wait for.
ResultComplete ==
    CASE program = "compress" ->
            st.result => \/ faults \cap {<<"client", "task">>, <<"client", "state">>} # {}
                         \/ st.out_regions = Compress!Blocks(0, st.block_count)
      [] program = "ping" -> Ended("client") /\ faults = {} => st.answered
      [] program = "data" ->
            /\ Ended("client") /\ faults = {} =>
                  st.result = "set" /\ Len(st.got) = st.block_count
            /\ \A i \in DOMAIN st.got : st.got[i] = [num |-> i - 1, data |-> <<i - 1>>]
      [] program = "dma" -> Ended("client") /\ faults = {} =>
                                \/ st.copied = 0..(st.block_count - 1)
                                \/ st.parallelism > st.block_count
      [] OTHER -> CompleteFibers

\* dma_server keeps its memory map for as long as dma_client may read from it,
\* whatever failed in either, as long as both processes are there; and when the
\* server is told that the client is done, every block has been copied.  So it
\* is in the C++ programs, but for the first block.
MappingOutlivesReads ==
    CASE program = "dma" ->
        /\ st.inflight # {} /\ ~Ended("client") /\ ~Ended("server") =>
                <<"mmap", 0>> \in held["server"]
        /\ st.done => st.copied = 0..(st.block_count - 1)
    [] OTHER -> MappingKept

\* Failures that nobody reports to anybody: the client waits for an event that
\* will not come.  (Whether the engine's lease, which the frame of a fiber holds,
\* is given back after an exception has left the fiber is up to Boost.Cobalt.)
Unreported ==
    CASE program = "compress" -> {<<"client", "refused">>}
      [] program = "ping" -> {<<"client", "refused">>, <<"client", "send">>, <<"server", "send">>}
      [] program = "data" -> {<<"client", "refused">>, <<"server", "refused">>,
                              <<"server", "send">>, <<"server", "task">>}
      [] program = "dma" -> {<<"server", "lookup">>}
      [] program = "compress_fibers" -> {}
      [] program = "dma_fibers" -> {<<"client", "start">>, <<"client", "exception">>}

\* The main loop of the client ends, whatever fails in the client or in the
\* server and whenever it does, but for a failure that its callback only logs.
ProgramEnds == <>(Ended("client") \/ faults \cap Unreported # {})

When(b, S) == IF b THEN S ELSE {}

\* The exceptions of NoMisuse, where the code does release or use something it
\* does not hold, or that something else still needs:
\* - compress: the output memory map, whose absence compress_buffers does not
\*   notice, is released although there is none;
\* - ping: a client that cannot look up its state uses the pointer all the same;
\* - data: the idle callback of the producer reads a connection state that has
\*   been freed, the user data of a connection whose first message cannot be sent
\*   points to one, a server that cannot start closes the device under its memory
\*   map, and after a failure the client frees storage it has not or no more;
\* - dma: the idle callback reads the context from a state it has just freed
\*   (and if that goes wrong, or comes too late, the device and the progress
\*   engine go before the context), main reads and frees a result there may not
\*   be, and a connection whose first message fails or cannot be sent is destroyed
\*   again when the client breaks off;
\* - dma_client.cpp: the memory to be filled may go before the last read ends.
KnownMisuse ==
    CASE program = "compress" -> {<<"client", "mmap_out">>}
      [] program = "ping" -> When(<<"client", "lookup">> \in faults, {<<"client", "client_state">>})
      [] program = "data" ->
            {<<"server", "conn_state">>}
            \cup When(<<"server", "set-up">> \in faults, {<<"server", "dev">>})
            \cup When(faults # {}, {<<"client", "storage">>})
      [] program = "dma" ->
            {<<"client", "dma_state">>, <<"client", "dev">>, <<"client", "pe">>}
            \cup When(faults # {}, {<<"client", "storage">>})
            \cup When(Broke("client"), {<<"server", "conn_state">>, <<"server", "mmap">>})
      [] program = "compress_fibers" -> {}
      [] program = "dma_fibers" -> {<<"client", "local_mem">>}

\* Whichever call of a set-up or of a callback fails, and in whichever order the
\* callbacks come, nothing is released twice, before what was made from it, or
\* without having been acquired, by a process that leaves its loop as it should;
\* but for KnownMisuse.
NoMisuse == {m \in misuse : ~Broke(m[1])} \subseteq KnownMisuse

\* What a client may leave behind: the dma context, which is destroyed through a
\* pointer that has been freed; and all that belongs to it if its idle callback
\* had not been made when the client was found idle.
LeftBehind ==
    IF program # "dma" THEN {}
    ELSE IF ctx["receiver"] = "idle" THEN {"dma"}
    ELSE {"dma", "dma_state", "inv", "local_mmap", "remote_mmap", "buf_in", "buf_out", "task"}

\* What the server holds from its set-up on.
ServerBase ==
    CASE program \in {"compress", "compress_fibers", "dma_fibers"} -> {}
      [] program = "ping" -> Range(Ping!ServerCleanUp)
      [] program = "data" -> Range(Data!ServerCleanUp) \cup {"server_state", "mmap", "inv"}
      [] program = "dma" -> Range(Dma!ServerCleanUp)

ServerQuiet ==
    /\ phase["server"] = "loop"
    /\ inbox["server"] = <<>>
    /\ sends["server"] = <<>>
    /\ program = "data" => st.send = <<>>

\* A client that ends has released what it acquired, whatever has failed, unless
\* it left its loop early; and a server that has heard of the end of its client
\* is back where it began, but for a producer that did not stop at once
\* (producer_state_changed_callback finds no pointer to it any more).
AllReleased ==
    Ended("client") =>
        /\ Names(held["client"]) \subseteq LeftBehind \/ Broke("client")
        /\ ServerQuiet =>
              Names(held["server"]) \ When(program = "data", {"producer"}) = ServerBase
=============================================================================
