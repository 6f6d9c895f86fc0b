------------------------------- MODULE PlainDma -------------------------------
(***************************************************************************)
(* plain_doca/dma_client and plain_doca/dma_server.  The server exports    *)
(* its memory to a new client; the client reads it block by block, several *)
(* at a time, tells the server when it has them all, and stops.            *)
(***************************************************************************)
EXTENDS PlainDoca, DmaResources

State ==
    {[block_count |-> n, parallelism |-> p, offloaded |-> 0, completed |-> 0,
      inflight |-> {}, copied |-> {}, data |-> FALSE, conn |-> "none", done |-> FALSE]
        : n \in BlockCounts, p \in Parallelisms}

-----------------------------------------------------------------------------
(* The client's callbacks. *)

\* It does nothing.
client_state_changed_callback ==
    /\ phase["client"] = "loop"
    /\ ClientConnects
    /\ UNCHANGED <<phase, held, sends, st, misuse, faults>>

\* The only step to leave storage behind when it fails is the last.
client_msg_recv_callback ==
    /\ Event("client", "extents")
    /\ inbox' = [inbox EXCEPT !["client"] = Tail(@)]
    /\ \E o \in OpenOutcomes :
        /\ held' = [held EXCEPT !["client"] = @ \cup Tag(o.held, 0)]
        /\ misuse' = misuse \cup {<<"client", r>> : r \in o.bad}
        /\ st' = [st EXCEPT !.data = "storage" \in o.held]
        /\ ctx' = IF o.ok THEN [ctx EXCEPT !["receiver"] = "starting"]
                  ELSE [ctx EXCEPT !["client"] = Stop(@)]
        /\ faults' = IF o.ok THEN faults ELSE faults \cup {<<"client", "refused">>}
    /\ UNCHANGED <<phase, link, sends>>

\* The idle branch of dma_state_changed_callback, with h held.  The pointer to
\* the context is read from the state after the state has been freed: the
\* context is destroyed, or something else is attempted and it is not.
Idle(h, bad) ==
    /\ ctx' = [ctx EXCEPT !["receiver"] = "idle", !["client"] = Stop(@)]
    /\ misuse' = misuse \cup {<<"client", r>> : r \in bad \cup {"dma_state"}}
    /\ \E lost \in SUBSET {"dma"} :
        held' = [held EXCEPT !["client"] =
                    h \ Tag((Range(destroy_dma_state) \cup {"dma"}) \ lost, 0)]

\* doca_ctx_stop of the dma context: it may be idle at once if nothing is in
\* flight.
StopDma(s, h, bad) ==
    \/ /\ ctx' = [ctx EXCEPT !["receiver"] = Stop(@)]
       /\ held' = [held EXCEPT !["client"] = h]
       /\ misuse' = misuse \cup {<<"client", r>> : r \in bad}
    \/ /\ s.inflight = {}
       /\ ctx["receiver"] # "stopping"
       /\ Idle(h, bad)

\* k of several attempts to fetch the next block succeed, and if one does not
\* the context is stopped.  Blocks beyond the last one are refused by DOCA.
Fetch(tries, freed, s) ==
    \E k \in 0..tries, o \in FetchOutcomes :
        LET last == s.offloaded + k
            new == s.offloaded..(last - 1)
            after == [s EXCEPT !.offloaded = last, !.inflight = @ \cup new]
            h == (held["client"] \ freed)
                    \cup UNION {Tag({"buf_in", "buf_out", "task"}, b) : b \in new}
                    \cup (IF o.ok THEN {} ELSE Tag(o.held, last))
        IN /\ o.ok <=> k = tries
           /\ last <= s.block_count
           /\ k > 0 => ctx["receiver"] # "stopping"
           /\ st' = after
           /\ IF k = tries
              THEN /\ held' = [held EXCEPT !["client"] = h]
                   /\ ctx' = [ctx EXCEPT !["receiver"] = IF @ = "starting" THEN "running" ELSE @]
                   /\ UNCHANGED misuse
              ELSE StopDma(after, h, o.bad)
           /\ faults' = IF k < tries /\ last < s.block_count
                        THEN faults \cup {<<"client", "refused">>} ELSE faults

\* The running branch: nobody compares the parallelism with the number of blocks.
dma_running ==
    /\ phase["client"] = "loop"
    /\ ctx["receiver"] = "starting"
    /\ Fetch(st.parallelism, {}, st)
    /\ UNCHANGED <<phase, link, inbox, sends>>

dma_idle ==
    /\ phase["client"] = "loop"
    /\ ctx["receiver"] = "stopping"
    /\ st.inflight = {}
    /\ Idle(held["client"], {})
    /\ UNCHANGED <<phase, link, inbox, sends, st, faults>>

Freed(num) == Tag({"buf_in", "buf_out", "task"}, num)

\* The last block: send_done_message, whose failure is not reported.
AllCopied(s, freed) ==
    \E o \in DoneOutcomes :
        /\ o.ok => link = "up" /\ ctx["client"] = "running"
        /\ sends' = IF o.ok THEN [sends EXCEPT !["client"] = <<[msg |-> "done", arrived |-> FALSE]>>]
                    ELSE sends
        /\ StopDma(s, (held["client"] \ freed) \cup Tag(o.held, 0), o.bad)
        /\ st' = s
        /\ faults' = IF o.ok THEN faults ELSE faults \cup {<<"client", "refused">>}

dma_memcpy_completed_callback(num) ==
    /\ phase["client"] = "loop"
    /\ LET s == [st EXCEPT !.completed = @ + 1, !.inflight = @ \ {num}, !.copied = @ \cup {num}]
       IN CASE s.completed = s.block_count -> AllCopied(s, Freed(num))
            [] s.completed # s.block_count /\ s.offloaded < s.block_count ->
                 Fetch(1, Freed(num), s) /\ UNCHANGED sends
            [] OTHER -> Fetch(0, Freed(num), s) /\ UNCHANGED sends
    /\ UNCHANGED <<phase, link, inbox>>

\* A task that is flushed because the context is stopping is no fault of its own.
dma_memcpy_error_callback(num) ==
    /\ phase["client"] = "loop"
    /\ LET s == [st EXCEPT !.inflight = @ \ {num}]
       IN st' = s /\ StopDma(s, held["client"] \ Freed(num), {})
    /\ faults' = IF ctx["receiver"] = "stopping" THEN faults ELSE faults \cup {<<"client", "task">>}
    /\ UNCHANGED <<phase, link, inbox, sends>>

client_send_completed_callback ==
    /\ SendCompletes("client")
    /\ ctx' = [ctx EXCEPT !["client"] = Stop(@)]
    /\ UNCHANGED <<phase, link, inbox, st, misuse>>

client_send_error_callback ==
    /\ SendFails("client")
    /\ ctx' = [ctx EXCEPT !["client"] = Stop(@)]
    /\ UNCHANGED <<phase, link, inbox, st, misuse>>

-----------------------------------------------------------------------------
(* The server's callbacks. *)

\* Without the server's context there is no way to turn the client away.
NoServerContext ==
    /\ Event("server", "connection")
    /\ inbox' = [inbox EXCEPT !["server"] = Tail(@)]
    /\ faults' = faults \cup {<<"server", "lookup">>}
    /\ UNCHANGED <<phase, held, ctx, link, sends, st, misuse>>

\* What the user data of the connection points to: nothing, a connection state,
\* or one that is no more.
UserData(o) == IF o.ok THEN "held" ELSE IF "user_data" \in o.held THEN "freed" ELSE "none"

connection_callback ==
    /\ Event("server", "connection")
    /\ \E o \in ConnectionOutcomes :
        LET told == [inbox EXCEPT !["server"] = Tail(@)]
        IN /\ held' = [held EXCEPT !["server"] = @ \cup Tag(o.held \ {"user_data"}, 0)]
           /\ misuse' = misuse \cup {<<"server", r>> : r \in o.bad}
           /\ st' = [st EXCEPT !.conn = UserData(o)]
           /\ IF o.ok
              THEN /\ sends' = [sends EXCEPT !["server"] = <<[msg |-> "extents", arrived |-> FALSE]>>]
                   /\ inbox' = told
                   /\ UNCHANGED <<link, faults>>
              ELSE /\ link' = IF link = "up" THEN "closed" ELSE link
                   /\ inbox' = Closed("client", told)
                   /\ faults' = faults \cup {<<"server", "refused">>}
                   /\ UNCHANGED sends
    /\ UNCHANGED <<phase, ctx>>

\* The user data of the connection outlives what it points to.
disconnection_callback ==
    /\ Event("server", "disconnection")
    /\ inbox' = [inbox EXCEPT !["server"] = Tail(@)]
    /\ IF st.conn = "none"
       THEN UNCHANGED <<held, misuse, st>>
       ELSE /\ Releases("server", destroy_connection_state, {})
            /\ st' = [st EXCEPT !.conn = "freed"]
    /\ UNCHANGED <<phase, ctx, link, sends, faults>>

\* Mutant: the connection state goes with the message that was sent.
SentAndForgotten ==
    /\ phase["server"] = "loop"
    /\ sends["server"] # <<>>
    /\ Head(sends["server"]).arrived
    /\ sends' = [sends EXCEPT !["server"] = <<>>]
    /\ Releases("server", <<"send">> \o destroy_connection_state, {})
    /\ UNCHANGED <<phase, ctx, link, inbox, st, faults>>

send_task_completed_callback ==
    /\ SendCompletes("server")
    /\ UNCHANGED <<phase, ctx, link, inbox, st, misuse>>

\* The connection state is destroyed, and the client disconnected.
send_task_error_callback ==
    /\ phase["server"] = "loop"
    /\ sends["server"] # <<>>
    /\ ~Head(sends["server"]).arrived
    /\ sends' = [sends EXCEPT !["server"] = <<>>]
    /\ Releases("server", <<"send">> \o destroy_connection_state, {})
    /\ st' = [st EXCEPT !.conn = "freed"]
    /\ link' = IF link = "up" THEN "closed" ELSE link
    /\ inbox' = Closed("client", inbox)
    /\ faults' = faults \cup {<<"server", "send">>}
    /\ UNCHANGED <<phase, ctx>>

server_msg_recv_callback ==
    /\ Event("server", "done")
    /\ inbox' = [inbox EXCEPT !["server"] = Tail(@)]
    /\ st' = [st EXCEPT !.done = TRUE]
    /\ UNCHANGED <<phase, held, ctx, link, sends, misuse, faults>>

-----------------------------------------------------------------------------

CleanUp(p) == IF p = "client" THEN ClientCleanUp ELSE ServerCleanUp

\* The client's main routine reads the storage unless epoll_wait failed.
Optional(cause) == IF cause = "wait" THEN {"storage"} ELSE {}

\* The main loop ends, regularly or not.
Leaves(p) == LoopEnds(p, CleanUp(p), {}) /\ UNCHANGED st
Breaks(p, cause) == LoopBreaks(p, cause, CleanUp(p), Optional(cause)) /\ UNCHANGED st

\* Nothing ties the dma context to the client's.
Steps ==
    \/ SetsUp("client", ClientOutcomes) \/ SetsUp("server", ServerOutcomes)
    \/ ServerRuns \/ ClientRefused \/ ClientTold \/ ClientIdle(TRUE)
    \/ client_state_changed_callback
    \/ client_msg_recv_callback
    \/ dma_running \/ dma_idle
    \/ \E num \in st.inflight : dma_memcpy_completed_callback(num)
    \/ client_send_completed_callback
    \/ link = "closed" /\ client_send_error_callback
    \/ connection_callback \/ disconnection_callback
    \/ send_task_completed_callback
    \/ link = "closed" /\ send_task_error_callback
    \/ server_msg_recv_callback
    \/ \E p \in Proc : Arrives(p)
    \/ \E p \in Proc : Leaves(p)

Failures ==
    \/ \E num \in st.inflight : dma_memcpy_error_callback(num)
    \/ link = "up" /\ client_send_error_callback
    \/ NoServerContext
    \/ link = "up" /\ send_task_error_callback
    \/ \E p \in Proc, cause \in {"wait", "state"} : Breaks(p, cause)
=============================================================================
