---------------------------- MODULE PlainCompress ----------------------------
(***************************************************************************)
(* plain_doca/simple_compress.c and plain_doca/parallel_compress.c: a file *)
(* of blocks is compressed by the accelerator, one block at a time or four *)
(* at a time.  The two files differ only in their state-changed callback.  *)
(***************************************************************************)
EXTENDS PlainDoca, CompressResources

PARALLEL_OFFLOADS == 4

compression_state ==
    {[block_count |-> n, parallel |-> p, offloaded |-> 0, completed |-> 0,
      inflight |-> {}, out_regions |-> {}, result |-> FALSE]
        : n \in BlockCounts, p \in BOOLEAN}

-----------------------------------------------------------------------------
(* Callbacks. *)

Blocks(from, to) == from..(to - 1)

\* offload_next is called a number of times after some resources have been
\* freed; k of the calls succeed, and nobody looks at those that do not.  They
\* all fail if the context is not running or there is no output memory.
Offload(tries, freed, s) ==
    \E k \in 0..tries, o \in OffloadOutcomes :
        /\ o.ok <=> k = tries
        /\ k > 0 => ctx["client"] # "stopping" /\ <<"mmap_out", 0>> \in held["client"]
        /\ LET last == s.offloaded + k
               new == Blocks(s.offloaded, last)
           IN /\ st' = [s EXCEPT !.offloaded = last, !.inflight = @ \cup new]
              /\ held' = [held EXCEPT !["client"] = (@ \ freed)
                            \cup UNION {Tag({"buf_in", "buf_out", "task"}, b) : b \in new}
                            \cup (IF o.ok THEN {} ELSE Tag(o.held, last))]
        /\ misuse' = misuse \cup {<<"client", r>> : r \in o.bad}
        /\ faults' = IF o.ok THEN faults ELSE faults \cup {<<"client", "refused">>}

\* How many blocks the state-changed callback starts with.
FirstOffloads ==
    IF st.parallel
    THEN IF st.block_count < PARALLEL_OFFLOADS THEN st.block_count ELSE PARALLEL_OFFLOADS
    ELSE 1

compress_state_changed_callback ==
    /\ ctx["client"] = "starting"
    /\ ctx' = [ctx EXCEPT !["client"] = "running"]
    /\ Offload(FirstOffloads, {}, st)

Freed(num) == Tag({"buf_in", "buf_out", "task"}, num)

compress_completed_callback(num) ==
    /\ num \in st.inflight
    /\ LET s == [st EXCEPT !.completed = @ + 1, !.inflight = @ \ {num},
                           !.out_regions = @ \cup {num}]
       IN \/ /\ s.offloaded < s.block_count
             /\ Offload(1, Freed(num), s)
             /\ UNCHANGED ctx
          \/ /\ s.offloaded >= s.block_count
             /\ Offload(0, Freed(num), s)
             /\ ctx' = IF s.completed = s.block_count
                       THEN [ctx EXCEPT !["client"] = Stop(@)] ELSE ctx

\* Mutant: the context is left running.
ErrorIgnored(num) ==
    /\ num \in st.inflight
    /\ st' = [st EXCEPT !.inflight = @ \ {num}]
    /\ held' = [held EXCEPT !["client"] = @ \ Freed(num)]
    /\ faults' = faults \cup {<<"client", "task">>}
    /\ UNCHANGED <<ctx, misuse>>

compress_error_callback(num) ==
    /\ num \in st.inflight
    /\ st' = [st EXCEPT !.inflight = @ \ {num}]
    /\ held' = [held EXCEPT !["client"] = @ \ Freed(num)]
    /\ ctx' = [ctx EXCEPT !["client"] = Stop(@)]
    /\ faults' = faults \cup {<<"client", "task">>}
    /\ UNCHANGED misuse

-----------------------------------------------------------------------------
(* The main routine. *)

Start == SetsUp("client", SetUpOutcomes)

\* DOCA: a stopping context is idle once its tasks are done.
ContextIdle ==
    /\ ctx["client"] = "stopping"
    /\ st.inflight = {}
    /\ ctx' = [ctx EXCEPT !["client"] = "idle"]
    /\ UNCHANGED <<held, misuse, faults, st>>

\* The result is returned however the loop ended, but for a failing epoll_wait.
Ended ==
    /\ LoopEnds("client", CleanUp, Optional)
    /\ st' = [st EXCEPT !.result = TRUE]

Broken(cause) ==
    /\ LoopBreaks("client", cause, CleanUp, Optional)
    /\ st' = [st EXCEPT !.result = (cause = "state")]

Steps ==
    \/ Start
    \/ /\ phase["client"] = "loop"
       /\ \/ compress_state_changed_callback
          \/ \E num \in st.inflight : compress_completed_callback(num)
          \/ ContextIdle
       /\ UNCHANGED <<phase, link, inbox, sends>>
    \/ Ended

Failures ==
    \/ /\ phase["client"] = "loop"
       /\ \E num \in st.inflight : compress_error_callback(num)
       /\ UNCHANGED <<phase, link, inbox, sends>>
    \/ \E cause \in {"wait", "state"} : Broken(cause)
=============================================================================
