------------------------------ MODULE PlainData ------------------------------
(***************************************************************************)
(* plain_doca/comch_data_client and plain_doca/comch_data_server.  The     *)
(* server tells a new client how many blocks there are; the client opens a *)
(* consumer and posts one receive after the other; the server's producer   *)
(* sends one block after the other; when it has them all, the client stops *)
(* the consumer and then itself.                                           *)
(***************************************************************************)
EXTENDS PlainDoca, DataResources

\* block_count is the server's; the other fields are those of consumer_state and
\* client_state, of connection_state, and DOCA's view of the two transfer tasks.
State ==
    {[block_count |-> n,
      result |-> "unset", consumer_off |-> 0, consumer_done |-> 0, got |-> <<>>,
      conn |-> "none", producer |-> FALSE, producer_off |-> 0,
      recv |-> <<>>, send |-> <<>>, spinning |-> FALSE]
        : n \in BlockCounts}

\* A receive task that waits for data.
Posted == st.recv # <<>> /\ Head(st.recv).data = <<>>

-----------------------------------------------------------------------------
(* The client's callbacks. *)

client_state_changed_callback ==
    /\ phase["client"] = "loop"
    /\ ClientConnects
    /\ UNCHANGED <<phase, held, sends, st, misuse, faults>>

\* client_msg_recv_callback and spawn_consumer.  Nobody is told of a failure.
\* After one in open_consumer, client_state->result is left with storage that
\* has been freed.
client_msg_recv_callback ==
    /\ Event("client", "extents")
    /\ inbox' = [inbox EXCEPT !["client"] = Tail(@)]
    /\ \E o \in SpawnOutcomes, c \in ConsumerOutcomes :
        /\ ~o.ok => c.ok
        /\ LET opened == o.ok /\ c.ok
               kept == CASE opened -> o.held \cup c.held
                         [] o.ok -> o.held \ (Range(destroy_consumer_state) \cup {"storage"})
                         [] OTHER -> o.held
           IN /\ held' = [held EXCEPT !["client"] = @ \cup Tag(kept, 0)]
              /\ ctx' = [ctx EXCEPT !["receiver"] = IF opened THEN "starting" ELSE @]
              /\ st' = [st EXCEPT !.result = CASE opened -> "set" [] o.ok -> "freed" [] OTHER -> @]
              /\ faults' = IF opened THEN faults ELSE faults \cup {<<"client", "refused">>}
              /\ misuse' = misuse \cup {<<"client", r>> : r \in o.bad \cup c.bad}
    /\ UNCHANGED <<phase, link, sends>>

\* receive_next_block, after something has been freed: one more receive, unless
\* all have been posted.
ReceiveNext(s, freed) ==
    IF s.consumer_off = s.block_count
    THEN /\ st' = s
         /\ held' = [held EXCEPT !["client"] = @ \ freed]
         /\ UNCHANGED <<misuse, faults>>
    ELSE \E o \in ReceiveOutcomes :
         /\ o.ok => ctx["receiver"] # "stopping" /\ link = "up"
         /\ st' = IF o.ok THEN [s EXCEPT !.consumer_off = @ + 1,
                                         !.recv = <<[num |-> s.consumer_off, data |-> <<>>]>>]
                  ELSE s
         /\ held' = [held EXCEPT !["client"] = (@ \ freed) \cup Tag(o.held, s.consumer_off)]
         /\ misuse' = misuse \cup {<<"client", r>> : r \in o.bad}
         /\ faults' = IF o.ok THEN faults ELSE faults \cup {<<"client", "refused">>}

\* The server is told of a consumer that runs, and of one that has stopped.
consumer_running ==
    /\ phase["client"] = "loop"
    /\ ctx["receiver"] = "starting"
    /\ ctx' = [ctx EXCEPT !["receiver"] = "running"]
    /\ inbox' = IF link = "up" THEN [inbox EXCEPT !["server"] = Append(@, "new_consumer")] ELSE inbox
    /\ ReceiveNext(st, {})
    /\ UNCHANGED <<phase, link, sends>>

consumer_idle ==
    /\ phase["client"] = "loop"
    /\ ctx["receiver"] = "stopping"
    /\ st.recv = <<>>
    /\ ctx' = [ctx EXCEPT !["receiver"] = "idle", !["client"] = Stop(@)]
    /\ inbox' = IF link = "up" THEN [inbox EXCEPT !["server"] = Append(@, "expired_consumer")] ELSE inbox
    /\ Releases("client", <<"consumer">> \o destroy_consumer_state, {})
    /\ UNCHANGED <<phase, link, sends, st, faults>>

consumer_recv_completed_callback ==
    /\ phase["client"] = "loop"
    /\ st.recv # <<>>
    /\ Head(st.recv).data # <<>>
    /\ LET task == Head(st.recv)
           s == [st EXCEPT !.recv = <<>>, !.consumer_done = @ + 1,
                           !.got = Append(@, [num |-> task.num, data |-> task.data])]
       IN /\ ReceiveNext(s, Tag({"buf_out", "task"}, task.num))
          /\ ctx' = IF s.consumer_done = s.block_count
                    THEN [ctx EXCEPT !["receiver"] = Stop(@)] ELSE ctx
    /\ UNCHANGED <<phase, link, inbox, sends>>

consumer_recv_error_callback ==
    /\ phase["client"] = "loop"
    /\ Posted
    /\ st' = [st EXCEPT !.recv = <<>>]
    /\ held' = [held EXCEPT !["client"] = @ \ Tag({"buf_out", "task"}, Head(st.recv).num)]
    /\ ctx' = [ctx EXCEPT !["receiver"] = Stop(@)]
    /\ faults' = faults \cup {<<"client", "task">>}
    /\ UNCHANGED <<phase, link, inbox, sends, misuse>>

-----------------------------------------------------------------------------
(* The server's callbacks, which wait while it tries to submit a task. *)

ServerEvent(e) ==
    /\ Event("server", e)
    /\ ~st.spinning

\* What the user data of the connection points to: nothing, a connection state,
\* or one that is no more.
UserData(o) == IF o.ok THEN "held" ELSE IF "user_data" \in o.held THEN "freed" ELSE "none"

connection_callback ==
    /\ ServerEvent("connection")
    /\ \E o \in ConnectionOutcomes :
        LET told == [inbox EXCEPT !["server"] = Tail(@)]
        IN /\ held' = [held EXCEPT !["server"] = @ \cup Tag(o.held \ {"user_data"}, 0)]
           /\ misuse' = misuse \cup {<<"server", r>> : r \in o.bad}
           /\ st' = [st EXCEPT !.conn = UserData(o), !.producer = o.ok]
           /\ ctx' = [ctx EXCEPT !["producer"] = IF "producer" \in o.held THEN "running" ELSE @]
           /\ IF o.ok
              THEN /\ sends' = [sends EXCEPT !["server"] = <<[msg |-> "extents", arrived |-> FALSE]>>]
                   /\ inbox' = told
                   /\ UNCHANGED <<link, faults>>
              ELSE /\ link' = IF link = "up" THEN "closed" ELSE link
                   /\ inbox' = Closed("client", told)
                   /\ faults' = faults \cup {<<"server", "refused">>}
                   /\ UNCHANGED sends
    /\ UNCHANGED phase

\* destroy_connection_state of what the user data points to: a producer that still
\* runs is not destroyed.
disconnection_callback ==
    /\ ServerEvent("disconnection")
    /\ inbox' = [inbox EXCEPT !["server"] = Tail(@)]
    /\ st' = [st EXCEPT !.conn = IF @ = "held" THEN "freed" ELSE @]
    /\ held' = [held EXCEPT !["server"] = @ \ Tag({"conn_state"}, 0)]
    /\ misuse' = IF st.conn = "freed" THEN misuse \cup {<<"server", "conn_state">>} ELSE misuse
    /\ UNCHANGED <<phase, ctx, link, sends, faults>>

\* send_next_data_buffer: doca_task_submit is repeated for as long as the
\* consumer has no receive posted.
SendNext(s, freed) ==
    \E o \in BufferOutcomes :
        /\ o.ok => ctx["producer"] = "running"
        /\ st' = IF o.ok THEN [s EXCEPT !.send = <<[num |-> s.producer_off, moved |-> FALSE]>>,
                                        !.spinning = TRUE]
                 ELSE s
        /\ held' = [held EXCEPT !["server"] = (@ \ freed) \cup Tag(o.held, s.producer_off)]
        /\ misuse' = misuse \cup {<<"server", r>> : r \in o.bad}
        /\ faults' = IF o.ok THEN faults ELSE faults \cup {<<"server", "refused">>}

\* Mutant: the offset does not move on with the block.
AcceptedUncounted ==
    /\ phase["server"] = "loop"
    /\ st.spinning
    /\ Posted
    /\ st' = [st EXCEPT !.spinning = FALSE]
    /\ UNCHANGED <<phase, held, ctx, link, inbox, sends, misuse, faults>>

Accepted ==
    /\ phase["server"] = "loop"
    /\ st.spinning
    /\ Posted
    /\ st' = [st EXCEPT !.spinning = FALSE, !.producer_off = @ + 1]
    /\ UNCHANGED <<phase, held, ctx, link, inbox, sends, misuse, faults>>

\* The connection is gone: the submission fails for good.
NotAccepted ==
    /\ phase["server"] = "loop"
    /\ st.spinning
    /\ link = "closed"
    /\ st' = [st EXCEPT !.spinning = FALSE, !.send = <<>>]
    /\ held' = [held EXCEPT !["server"] = @ \ Tag({"task", "buf_in"}, st.producer_off)]
    /\ faults' = faults \cup {<<"server", "refused">>}
    /\ UNCHANGED <<phase, ctx, link, inbox, sends, misuse>>

new_consumer_callback ==
    /\ ServerEvent("new_consumer")
    /\ inbox' = [inbox EXCEPT !["server"] = Tail(@)]
    /\ SendNext(st, {})
    /\ UNCHANGED <<phase, ctx, link, sends>>

\* doca_ctx_stop of the producer, after which conn_state->producer is NULL.  If
\* nothing is in flight, the context may be idle at once: its callback then finds
\* the pointer and destroys the producer, which it cannot do later.
StopProducer(s, freed) ==
    /\ st' = [s EXCEPT !.producer = FALSE]
    /\ \/ /\ s.producer /\ s.send = <<>>
          /\ held' = [held EXCEPT !["server"] = @ \ (freed \cup Tag({"producer"}, 0))]
          /\ ctx' = [ctx EXCEPT !["producer"] = "idle"]
       \/ /\ held' = [held EXCEPT !["server"] = @ \ freed]
          /\ ctx' = [ctx EXCEPT !["producer"] = IF s.producer THEN Stop(@) ELSE @]

expired_consumer_callback ==
    /\ ServerEvent("expired_consumer")
    /\ inbox' = [inbox EXCEPT !["server"] = Tail(@)]
    /\ StopProducer(st, {})
    /\ UNCHANGED <<phase, link, sends, misuse, faults>>

\* The callbacks of the producer read the connection state.
TouchesState == misuse' = IF st.conn = "held" THEN misuse ELSE misuse \cup {<<"server", "conn_state">>}

producer_idle ==
    /\ phase["server"] = "loop"
    /\ ~st.spinning
    /\ ctx["producer"] = "stopping"
    /\ st.send = <<>>
    /\ ctx' = [ctx EXCEPT !["producer"] = "idle"]
    /\ TouchesState
    /\ UNCHANGED <<phase, held, link, inbox, sends, st, faults>>

producer_send_completed_callback ==
    /\ phase["server"] = "loop"
    /\ ~st.spinning
    /\ st.send # <<>>
    /\ Head(st.send).moved
    /\ LET s == [st EXCEPT !.send = <<>>]
           freed == Tag({"buf_in", "task"}, Head(st.send).num)
       IN \/ /\ st.conn = "held" /\ s.producer_off < s.block_count
             /\ SendNext(s, freed)
             /\ UNCHANGED ctx
          \/ /\ st.conn = "held" => s.producer_off >= s.block_count
             /\ StopProducer(s, freed)
             /\ TouchesState
             /\ UNCHANGED faults
    /\ UNCHANGED <<phase, link, inbox, sends>>

producer_send_error_callback ==
    /\ phase["server"] = "loop"
    /\ ~st.spinning
    /\ st.send # <<>>
    /\ ~Head(st.send).moved
    /\ StopProducer([st EXCEPT !.send = <<>>], Tag({"buf_in", "task"}, Head(st.send).num))
    /\ TouchesState
    /\ faults' = faults \cup {<<"server", "task">>}
    /\ UNCHANGED <<phase, link, inbox, sends>>

\* The callbacks of the server's send task only free it.
send_task_completed_callback ==
    /\ ~st.spinning
    /\ SendCompletes("server")
    /\ UNCHANGED <<phase, ctx, link, inbox, st, misuse>>

send_task_error_callback ==
    /\ ~st.spinning
    /\ SendFails("server")
    /\ UNCHANGED <<phase, ctx, link, inbox, st, misuse>>

-----------------------------------------------------------------------------

\* DOCA: the block being sent fills the receive that is posted (external).
Transfer ==
    /\ link = "up"
    /\ st.send # <<>>
    /\ ~st.spinning
    /\ ~Head(st.send).moved
    /\ Posted
    /\ st' = [st EXCEPT !.send = <<[Head(@) EXCEPT !.moved = TRUE]>>,
                        !.recv = <<[Head(@) EXCEPT !.data = <<Head(st.send).num>>]>>]
    /\ UNCHANGED <<phase, held, ctx, link, inbox, sends, misuse, faults>>

CleanUp(p) == IF p = "client" THEN ClientCleanUp ELSE ServerCleanUp

\* The main loop ends, regularly or not.
Leaves(p) == LoopEnds(p, CleanUp(p), {}) /\ UNCHANGED st
Breaks(p, cause) == LoopBreaks(p, cause, CleanUp(p), {}) /\ UNCHANGED st

Steps ==
    \/ SetsUp("client", ClientOutcomes) \/ SetsUp("server", ServerOutcomes)
    \/ ServerRuns \/ ClientRefused \/ ClientTold \/ ClientIdle(ctx["receiver"] \in {"none", "idle"})
    \/ client_state_changed_callback
    \/ client_msg_recv_callback
    \/ consumer_running \/ consumer_idle
    \/ consumer_recv_completed_callback
    \/ link = "closed" /\ consumer_recv_error_callback
    \/ connection_callback \/ disconnection_callback
    \/ new_consumer_callback \/ expired_consumer_callback
    \/ Accepted \/ NotAccepted \/ Transfer
    \/ producer_idle
    \/ producer_send_completed_callback
    \/ link = "closed" /\ producer_send_error_callback
    \/ Arrives("server")
    \/ send_task_completed_callback
    \/ link = "closed" /\ send_task_error_callback
    \/ \E p \in Proc : Leaves(p)

Failures ==
    \/ link = "up" /\ consumer_recv_error_callback
    \/ link = "up" /\ producer_send_error_callback
    \/ link = "up" /\ send_task_error_callback
    \/ \E p \in Proc, cause \in {"wait", "state"} : Breaks(p, cause)
=============================================================================
