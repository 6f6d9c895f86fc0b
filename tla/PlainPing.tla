------------------------------ MODULE PlainPing ------------------------------
(***************************************************************************)
(* plain_doca/comch_client.c and plain_doca/comch_server.c: the client     *)
(* sends one message, the server answers every message, and the client     *)
(* stops when it has the answer.                                           *)
(***************************************************************************)
EXTENDS PlainDoca, PingResources

State == {[answered |-> FALSE]}

-----------------------------------------------------------------------------
(* The client's callbacks. *)

\* The context runs: send_ping, whose failure goes unnoticed.
state_changed_callback ==
    /\ phase["client"] = "loop"
    /\ ClientConnects
    /\ Submits("client", TRUE, PingOutcomes, "ping")
    /\ UNCHANGED <<phase, st>>

Answered ==
    /\ inbox' = [inbox EXCEPT !["client"] = Tail(@)]
    /\ st' = [st EXCEPT !.answered = TRUE]
    /\ ctx' = [ctx EXCEPT !["client"] = Stop(@)]
    /\ UNCHANGED <<phase, held, link, sends>>

\* The operating system cleans up after the client.
Crash ==
    /\ phase' = [phase EXCEPT !["client"] = "ended"]
    /\ held' = [held EXCEPT !["client"] = {}]
    /\ ctx' = [ctx EXCEPT !["client"] = "none"]
    /\ link' = IF link = "up" THEN "closed" ELSE link
    /\ inbox' = [Closed("server", inbox) EXCEPT !["client"] = <<>>]
    /\ sends' = [sends EXCEPT !["client"] = <<>>]
    /\ UNCHANGED st

client_msg_recv_callback ==
    /\ Event("client", "pong")
    /\ Answered
    /\ UNCHANGED <<misuse, faults>>

\* The pointer to the client's state cannot be read, and is used all the same.
ClientStateUnknown ==
    /\ Event("client", "pong")
    /\ Answered \/ Crash
    /\ misuse' = misuse \cup {<<"client", "client_state">>}
    /\ faults' = faults \cup {<<"client", "lookup">>}

\* On both sides the send callbacks only free the task.
send_task_completed_callback(p) ==
    /\ SendCompletes(p)
    /\ UNCHANGED <<phase, ctx, link, inbox, st, misuse>>

send_task_error_callback(p) ==
    /\ SendFails(p)
    /\ UNCHANGED <<phase, ctx, link, inbox, st, misuse>>

-----------------------------------------------------------------------------
(* The server's callbacks. *)

\* Connections come and go unnoticed.
connection_event_callback ==
    /\ Event("server", "connection") \/ Event("server", "disconnection")
    /\ inbox' = [inbox EXCEPT !["server"] = Tail(@)]
    /\ UNCHANGED <<phase, held, ctx, link, sends, st, misuse, faults>>

\* send_pong: a client that cannot be answered is disconnected.
server_msg_recv_callback ==
    /\ Event("server", "ping")
    /\ Submits("server", link = "up", PongOutcomes, "pong")
    /\ LET told == [inbox EXCEPT !["server"] = Tail(@)]
           failed == sends' = sends
       IN /\ link' = IF failed /\ link = "up" THEN "closed" ELSE link
          /\ inbox' = IF failed THEN Closed("client", told) ELSE told
    /\ UNCHANGED <<phase, ctx, st>>

-----------------------------------------------------------------------------

Start ==
    \/ SetsUp("client", ClientOutcomes)
    \/ SetsUp("server", ServerOutcomes)

CleanUp(p) == IF p = "client" THEN ClientCleanUp ELSE ServerCleanUp

\* The main loop ends, regularly or not.
Leaves(p) == LoopEnds(p, CleanUp(p), {}) /\ UNCHANGED st
Breaks(p, cause) == LoopBreaks(p, cause, CleanUp(p), {}) /\ UNCHANGED st

Steps ==
    \/ Start
    \/ ServerRuns \/ ClientRefused \/ ClientTold \/ ClientIdle(TRUE)
    \/ state_changed_callback
    \/ client_msg_recv_callback
    \/ connection_event_callback
    \/ server_msg_recv_callback
    \/ \E p \in Proc :
        \/ Arrives(p)
        \/ send_task_completed_callback(p)
        \/ link = "closed" /\ send_task_error_callback(p)
        \/ Leaves(p)

Failures ==
    \/ ClientStateUnknown
    \/ \E p \in Proc :
        \/ link = "up" /\ send_task_error_callback(p)
        \/ \E cause \in {"wait", "state"} : Breaks(p, cause)
=============================================================================
