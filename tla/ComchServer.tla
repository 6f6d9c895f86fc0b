----------------------------- MODULE ComchServer -----------------------------
(***************************************************************************)
(* The context hierarchy of a comch server (shoc/comch/server.cpp): the    *)
(* server, its connections, and the consumers and producers ("children")   *)
(* of a connection.  A stop request goes down the tree, and every parent   *)
(* goes only after its last child: children are asked to stop, a           *)
(* connection disconnects when its children are gone, the server stops     *)
(* when its connections are gone.  Whoever waits for a connection, for a   *)
(* message or for a remote consumer gets an error when nothing comes any   *)
(* more.                                                                   *)
(*                                                                         *)
(* DOCA answers doca_ctx_stop either with SUCCESS, the state change        *)
(* callback having run inside the call, or with IN_PROGRESS and an event   *)
(* later, or with an error.  Each action is one handler with everything it *)
(* calls; fibers resumed in its course act in steps of their own.          *)
(*                                                                         *)
(* server::stop walks through the registry of connections, which the       *)
(* disconnections it asks for change: every round of that walk is a step,  *)
(* and the fibers a round resumes act before the next.                     *)
(***************************************************************************)
EXTENDS Naturals, FiniteSets, Sequences

CONSTANTS
    Connections,        \* doca_comch_connection handles
    Children,           \* consumers and producers
    ParentOf,           \* the connection a child is created on
    Faults,             \* what DOCA may refuse to stop or disconnect
    RemoteDisconnects,  \* connections whose clients may disconnect by themselves
    LateConnections,    \* those that may come after a stop was requested
    LateChildren,       \* children some fiber may create on a connection that
                        \* is being disconnected
    None                \* the end iterator

ASSUME ServerConstants ==
    /\ ParentOf \in [Children -> Connections]
    /\ Faults \subseteq Connections \cup Children
    /\ RemoteDisconnects \subseteq Connections
    /\ LateConnections \subseteq Connections
    /\ LateChildren \subseteq Children
    /\ None \notin Connections

VARIABLES
    server,         \* current_state_ of the server context
    stopRequested,  \* stop_requested_
    open,           \* keys of open_connections_
    state,          \* state_ of every server_connection
    accepted,       \* connections some fiber has taken from connection_queues_
    accepting,      \* a fiber waits in connection_queues_
    receiving,      \* connections with a fiber in message_queues_ or in
                    \* remote_consumer_queues_, which are disconnected together
    active,         \* active_children_ of all connections
    child,          \* current_state_ of every child
    stopAwaiter,    \* the fiber in co_await server->stop()
    stopRefused,    \* history: DOCA has refused the last doca_ctx_stop
    goneAwaiter,    \* the fiber in co_await connection->disconnect()
    walks,          \* the calls of stop() that have not returned, the last one first
    lost,           \* history: the element of an iterator was gone when it was used
    crashed         \* so was an object, and that has ended the process

vars == <<server, stopRequested, open, state, accepted, accepting, receiving,
          active, child, stopAwaiter, stopRefused, goneAwaiter, walks, lost, crashed>>
\* What changes when the server context does, and with the end of connections.
serverVars == <<server, accepting, stopAwaiter, stopRefused>>
endVars == <<open, receiving, goneAwaiter>>
walkVars == <<walks, lost, crashed>>

Init ==
    /\ server = "running"
    /\ stopRequested = FALSE
    /\ open = {}
    /\ state = [c \in Connections |-> "none"]
    /\ accepted = {}
    /\ accepting = FALSE
    /\ receiving = {}
    /\ active = {}
    /\ child = [k \in Children |-> "none"]
    /\ stopAwaiter = "none"
    /\ stopRefused = FALSE
    /\ goneAwaiter = [c \in Connections |-> "none"]
    /\ walks = <<>>
    /\ lost = FALSE
    /\ crashed = FALSE

-----------------------------------------------------------------------------
(* Helpers *)

Of(kids, c) == {k \in kids : ParentOf[k] = c}

\* The iterator next of stop(), the connections behind it, and whether fibers
\* that the last round has resumed are still at work.
Walk(next, ahead, awake) == [next |-> next, ahead |-> ahead, awake |-> awake]

\* Where an iteration over kids may go on: its order shows with each step.
First(kids) == IF kids = {} THEN {None} ELSE kids

\* Who has control: a fiber, resumed by the event loop or inside a walk; the
\* event loop; or the innermost walk.
FiberRuns == ~crashed /\ (walks # <<>> => Head(walks).awake)
EventLoop == ~crashed /\ walks = <<>>
WalkRuns == ~crashed /\ walks # <<>> /\ ~Head(walks).awake

\* Mutant: the waiting coroutine is not resumed.
WokenNever(a) == a

Woken(a) == IF a = "suspended" THEN "none" ELSE a

\* The state change callback for IDLE: state_changed disconnects the queues of
\* connections, the server is taken from the engine's registry, and the awaiter
\* of the stop is resumed.
GoIdle ==
    /\ server' = "idle"
    /\ accepting' = FALSE
    /\ stopAwaiter' = Woken(stopAwaiter)

\* do_stop_if_able: DOCA stops the server at once, or later, or refuses.
DoStopIfAble(left) ==
    IF left = {} /\ server = "running"
    THEN \/ GoIdle /\ stopRefused' = FALSE
         \/ server' = "stopping" /\ stopRefused' = FALSE /\ UNCHANGED <<accepting, stopAwaiter>>
         \/ stopRefused' = TRUE /\ UNCHANGED <<server, accepting, stopAwaiter>>
    ELSE UNCHANGED serverVars

\* Mutant: the connection stays in the registry.
SignalWithoutErase(gone) ==
    /\ open' = open
    /\ receiving' = receiving \ gone
    /\ goneAwaiter' = [c \in Connections |->
                         IF c \in gone THEN Woken(goneAwaiter[c]) ELSE goneAwaiter[c]]

\* signal_disconnect of the connections in gone: both queues are disconnected,
\* which resumes everybody in them, the server forgets the connection, and the
\* awaiter of the disconnection is resumed.
SignalDisconnect(gone) ==
    /\ open' = open \ gone
    /\ receiving' = receiving \ gone
    /\ goneAwaiter' = [c \in Connections |->
                         IF c \in gone THEN Woken(goneAwaiter[c]) ELSE goneAwaiter[c]]

\* Mutant: the server does not follow its last connection.
SignalWithoutStop(gone) ==
    /\ SignalDisconnect(gone)
    /\ UNCHANGED serverVars

\* The same, followed by the stop of the server if that was what it waited for.
SignalDisconnectAndStop(gone) ==
    /\ SignalDisconnect(gone)
    /\ IF stopRequested /\ gone # {}
       THEN DoStopIfAble(open \ gone)
       ELSE UNCHANGED serverVars

\* server_connection::disconnect of c.  The children in sync stop at once, those
\* in refused not at all.  Without children, c disconnects unless DOCA refuses.
\* If it had some and they all stopped at once, the last one has made it
\* disconnect, and then disconnect() tries once more: refused, or again
\* successful, that adds no outcome to those of the first attempt.
Disconnecting(c, sync, refused, gone) ==
    LET asked == {k \in Of(active, c) : child[k] = "running"}
    IN  /\ sync \subseteq asked
        /\ refused \subseteq (asked \ sync) \cap Faults
        /\ gone \subseteq {c}
        /\ IF Of(active \ sync, c) = {} THEN gone = {c} \/ c \in Faults ELSE gone = {}
        /\ active' = active \ sync
        /\ child' = [k \in Children |->
                       IF k \in sync THEN "idle"
                       ELSE IF k \in asked \ refused THEN "stopping" ELSE child[k]]
        /\ state' = [state EXCEPT ![c] = IF gone = {} THEN "disconnecting" ELSE "disconnected"]

\* Mutant: the first child to stop makes the connection disconnect.
FirstChildGone(k) ==
    LET c == ParentOf[k]
    IN  /\ child' = [child EXCEPT ![k] = "idle"]
        /\ active' = active \ {k}
        /\ IF state[c] = "disconnecting"
           THEN state' = [state EXCEPT ![c] = "disconnected"] /\ SignalDisconnectAndStop({c})
           ELSE UNCHANGED state /\ SignalDisconnectAndStop({})

\* Mutant: the registry is updated and nothing else.
ChildForgotten(k) ==
    /\ child' = [child EXCEPT ![k] = "idle"]
    /\ active' = active \ {k}
    /\ UNCHANGED <<state, serverVars, endVars>>

\* signal_stopped_child: the last child of a disconnecting connection makes it
\* disconnect.
ChildGone(k) ==
    LET c == ParentOf[k]
        able == state[c] = "disconnecting" /\ Of(active \ {k}, c) = {}
    IN  /\ child' = [child EXCEPT ![k] = "idle"]
        /\ active' = active \ {k}
        /\ \/ /\ able
              /\ state' = [state EXCEPT ![c] = "disconnected"]
              /\ SignalDisconnectAndStop({c})
           \/ /\ ~able \/ c \in Faults
              /\ UNCHANGED state
              /\ SignalDisconnectAndStop({})

-----------------------------------------------------------------------------
(* Client fibers *)

\* Connections in connection_queues_.
Queued == {c \in Connections : state[c] # "none"} \ accepted

\* server::accept handing out a connection.
Accept(c) ==
    /\ FiberRuns
    /\ c \in Queued
    /\ accepted' = accepted \cup {c}
    /\ UNCHANGED <<stopRequested, state, active, child, serverVars, endVars, walkVars>>

\* server::accept with nothing in the queue; on an idle server an error.
AwaitAccept ==
    /\ FiberRuns
    /\ Queued = {}
    /\ server # "idle"
    /\ accepting' = TRUE
    /\ UNCHANGED <<server, stopRequested, state, accepted, active, child,
                   stopAwaiter, stopRefused, endVars, walkVars>>

\* msg_recv or accept_consumer with nothing in the queue; on a connection that
\* is disconnected an error.
Receive(c) ==
    /\ FiberRuns
    /\ c \in accepted
    /\ state[c] \in {"connected", "disconnecting"}
    /\ receiving' = receiving \cup {c}
    /\ UNCHANGED <<stopRequested, open, state, accepted, active, child,
                   goneAwaiter, serverVars, walkVars>>

\* create_consumer and create_producer; DOCA wants a connection that is there.
CreateChild(k) ==
    /\ FiberRuns
    /\ ParentOf[k] \in accepted
    /\ child[k] = "none"
    /\ \/ state[ParentOf[k]] = "connected"
       \/ state[ParentOf[k]] = "disconnecting" /\ k \in LateChildren
    /\ child' = [child EXCEPT ![k] = "running"]
    /\ active' = active \cup {k}
    /\ UNCHANGED <<stopRequested, state, accepted, serverVars, endVars, walkVars>>

\* The scope of a consumer or producer ends.
StopChild(k) ==
    /\ FiberRuns
    /\ child[k] = "running"
    /\ \/ ChildGone(k)
       \/ /\ child' = [child EXCEPT ![k] = "stopping"]
          /\ UNCHANGED <<state, active, serverVars, endVars>>
    /\ UNCHANGED <<stopRequested, accepted, walkVars>>

\* disconnect(), called or at the end of a scoped_server_connection, either of
\* which has a reference that keeps the connection alive.
Disconnect(c) ==
    /\ FiberRuns
    /\ c \in accepted
    /\ state[c] = "connected"
    /\ \E sync \in SUBSET Of(active, c), refused \in SUBSET Faults, gone \in SUBSET {c} :
         /\ Disconnecting(c, sync, refused, gone)
         /\ SignalDisconnectAndStop(gone)
    /\ UNCHANGED <<stopRequested, accepted, walkVars>>

\* co_await connection->disconnect() after the call; on a connection that is
\* gone it returns at once.
AwaitDisconnect(c) ==
    /\ FiberRuns
    /\ c \in accepted
    /\ goneAwaiter[c] = "none"
    /\ state[c] = "disconnecting"
    /\ goneAwaiter' = [goneAwaiter EXCEPT ![c] = "suspended"]
    /\ UNCHANGED <<stopRequested, open, state, accepted, receiving, active, child,
                   serverVars, walkVars>>

\* server::stop begins its walk through open_connections_.
Stop ==
    /\ FiberRuns
    /\ server # "idle"
    /\ stopRequested' = TRUE
    /\ \E next \in First(open) : walks' = <<Walk(next, open \ {next}, FALSE)>> \o walks
    /\ UNCHANGED <<state, accepted, active, child, lost, crashed, serverVars, endVars>>

\* co_await server->stop() after the call; on an idle server it returns at once.
AwaitStop ==
    /\ FiberRuns
    /\ stopRequested
    /\ stopAwaiter = "none"
    /\ server # "idle"
    /\ stopAwaiter' = "suspended"
    /\ UNCHANGED <<server, stopRequested, state, accepted, accepting, active, child,
                   stopRefused, endVars, walkVars>>

-----------------------------------------------------------------------------
(* The walk of server::stop *)

\* One round: the iterator is advanced, then the connection it was at asked to
\* disconnect.  The second attempt of disconnect() finds the connection freed if
\* the registry has dropped it and its fiber, resumed by a child or a queue, has
\* done so too.
StopRound ==
    /\ WalkRuns
    /\ Head(walks).next \in open
    /\ LET c == Head(walks).next
           rest == Head(walks).ahead \cap open
       IN  \E next \in First(rest), awake \in BOOLEAN :
             /\ walks' = <<Walk(next, rest \ {next}, awake)>> \o Tail(walks)
             /\ \/ /\ state[c] = "connected"
                   /\ \E sync \in SUBSET Of(active, c), refused \in SUBSET Faults,
                      gone \in SUBSET {c} :
                        /\ Disconnecting(c, sync, refused, gone)
                        /\ SignalDisconnectAndStop(gone)
                        /\ awake = (sync # {} \/ receiving' # receiving \/ server' = "idle")
                        /\ crashed' \in {FALSE, sync # {} /\ gone # {} /\ c \in accepted}
                \/ /\ state[c] # "connected"
                   /\ ~awake
                   /\ UNCHANGED <<state, active, child, crashed, serverVars, endVars>>
    /\ UNCHANGED <<stopRequested, accepted, lost>>

\* One round with an iterator whose element a resumed fiber has made disappear:
\* it goes on anywhere, or nowhere.
StopAstray ==
    /\ WalkRuns
    /\ Head(walks).next \notin open \cup {None}
    /\ lost' = TRUE
    /\ \/ /\ \E next \in open \cup {None}, ahead \in SUBSET open :
              walks' = <<Walk(next, IF next = None THEN {} ELSE ahead \ {next}, FALSE)>> \o Tail(walks)
          /\ UNCHANGED crashed
       \/ /\ crashed' = TRUE
          /\ UNCHANGED walks
    /\ UNCHANGED <<stopRequested, state, accepted, active, child, serverVars, endVars>>

\* The walk is over: do_stop_if_able.  If the server is idle by then, nobody may
\* have kept it alive.
StopEnd ==
    /\ WalkRuns
    /\ Head(walks).next = None
    /\ walks' = Tail(walks)
    /\ DoStopIfAble(open)
    /\ crashed' \in {FALSE, server = "idle"}
    /\ UNCHANGED <<stopRequested, state, accepted, active, child, lost, endVars>>

\* The fibers resumed in a round are suspended again, or have ended.
Suspend ==
    /\ FiberRuns
    /\ walks # <<>>
    /\ walks' = [walks EXCEPT ![1].awake = FALSE]
    /\ UNCHANGED <<stopRequested, state, accepted, active, child, lost, crashed, serverVars,
                   endVars>>

-----------------------------------------------------------------------------
(* Events *)

\* connection_callback; it does not ask whether the server is to stop.  A fiber
\* that waits is given the connection.
ConnectionEvent(c) ==
    /\ EventLoop
    /\ server = "running"
    /\ stopRequested => c \in LateConnections
    /\ state[c] = "none"
    /\ state' = [state EXCEPT ![c] = "connected"]
    /\ open' = open \cup {c}
    /\ accepted' = accepted \cup IF accepting THEN {c} ELSE {}
    /\ accepting' = FALSE
    /\ UNCHANGED <<server, stopRequested, receiving, active, child, stopAwaiter,
                   stopRefused, goneAwaiter, walkVars>>

\* resolve_connection.
Known(c) == c \in open

\* disconnection_callback: the client is gone; a connection that has left the
\* registry is not found any more.
DisconnectionEvent(c) ==
    /\ EventLoop
    /\ Known(c)
    /\ c \in RemoteDisconnects
    /\ state' = [state EXCEPT ![c] = "disconnected"]
    /\ SignalDisconnectAndStop({c})
    /\ UNCHANGED <<stopRequested, accepted, active, child, walkVars>>

\* msg_recv_callback and new_consumer_callback for a fiber that waits.
Supply(c) ==
    /\ EventLoop
    /\ Known(c)
    /\ c \in receiving
    /\ receiving' = receiving \ {c}
    /\ UNCHANGED <<stopRequested, open, state, accepted, active, child,
                   goneAwaiter, serverVars, walkVars>>

\* State change of a child to IDLE.
ChildIdle(k) ==
    /\ EventLoop
    /\ child[k] = "stopping"
    /\ ChildGone(k)
    /\ UNCHANGED <<stopRequested, accepted, walkVars>>

\* State change of the server to IDLE.
ServerIdle ==
    /\ EventLoop
    /\ server = "stopping"
    /\ GoIdle
    /\ UNCHANGED <<stopRequested, state, accepted, active, child, stopRefused, endVars, walkVars>>

-----------------------------------------------------------------------------
Next ==
    \/ \E c \in Connections :
         \/ Accept(c)
         \/ Receive(c)
         \/ Supply(c)
         \/ Disconnect(c)
         \/ AwaitDisconnect(c)
         \/ ConnectionEvent(c)
         \/ DisconnectionEvent(c)
    \/ \E k \in Children :
         \/ CreateChild(k)
         \/ StopChild(k)
         \/ ChildIdle(k)
    \/ AwaitAccept
    \/ Stop
    \/ StopRound
    \/ StopAstray
    \/ StopEnd
    \/ Suspend
    \/ AwaitStop
    \/ ServerIdle

Spec == Init /\ [][Next]_vars

\* DOCA delivers the state changes it has promised: between two calls of fibers the
\* event loop gets its turn, again and again.  Fibers owe nothing, but that one
\* resumed by stop() gives control back to it.
Fairness ==
    /\ WF_vars(StopRound \/ StopAstray \/ StopEnd)
    /\ SF_vars(Suspend)
    /\ \A k \in Children : SF_vars(ChildIdle(k))
    /\ SF_vars(ServerIdle)

FairSpec == Spec /\ Fairness

-----------------------------------------------------------------------------
(* Properties *)

TypeOK ==
    /\ server \in {"running", "stopping", "idle"}
    /\ stopRequested \in BOOLEAN
    /\ open \in SUBSET Connections
    /\ state \in [Connections -> {"none", "connected", "disconnecting", "disconnected"}]
    /\ accepted \in SUBSET Connections
    /\ accepting \in BOOLEAN
    /\ receiving \in SUBSET Connections
    /\ active \in SUBSET Children
    /\ child \in [Children -> {"none", "running", "stopping", "idle"}]
    /\ stopAwaiter \in {"none", "suspended"}
    /\ stopRefused \in BOOLEAN
    /\ goneAwaiter \in [Connections -> {"none", "suspended"}]
    /\ walks \in Seq([next : Connections \cup {None}, ahead : SUBSET Connections,
                      awake : BOOLEAN])
    /\ lost \in BOOLEAN
    /\ crashed \in BOOLEAN

\* The registries agree with the objects in them: open_connections_ holds the
\* connections that are not yet disconnected, active_children_ the children
\* that are not yet idle, whatever DOCA refuses and whoever disconnects.
RegistriesAgree ==
    /\ open = {c \in Connections : state[c] \in {"connected", "disconnecting"}}
    /\ active = {k \in Children : child[k] \in {"running", "stopping"}}

\* do_stop_if_able lets the server context stop only when it was asked to and
\* the last connection is gone.
ServerStopsLast ==
    server # "running" => stopRequested /\ open = {}

\* Nobody is left behind: a fiber in co_await connection->disconnect() or in
\* co_await server->stop() is suspended only while what it waits for has not
\* happened, and one that waits for a connection, a message or a remote consumer
\* only while it may still come.
NoAwaiterLeft ==
    /\ \A c \in Connections : goneAwaiter[c] = "suspended" => state[c] = "disconnecting"
    /\ receiving \subseteq open
    /\ stopAwaiter = "suspended" => stopRequested /\ server # "idle"
    /\ accepting => server # "idle"

\* The order DOCA demands (and the README of the repository states): as long as
\* a consumer or producer is not idle, its connection is there and the server
\* runs.  A client that disconnects by itself takes its connection out of this
\* order: the children of that connection are not asked to stop.
ChildrenStopFirst ==
    \A k \in Children :
        child[k] \in {"running", "stopping"} /\ ParentOf[k] \notin RemoteDisconnects =>
            /\ state[ParentOf[k]] \in {"connected", "disconnecting"}
            /\ server = "running"

\* A connection that DOCA disconnects when asked, and whose children it stops
\* when asked, none of them created after the request.
Sound(c) ==
    c \notin Faults /\ \A k \in Of(Children, c) : k \notin Faults \cup LateChildren

\* Whoever waits, waits for something that is on its way: a sound connection
\* that is to disconnect has children, all of them stopping, and a server that
\* is to stop has connections, all of them disconnecting but for those that
\* came late.  While a walk of stop() is on, those it has yet to come to are not,
\* unless a fiber has taken away the element it would have come to next.
WaitHasCause ==
    /\ \A c \in Connections : Sound(c) /\ state[c] = "disconnecting" =>
         /\ Of(active, c) # {}
         /\ \A k \in Of(active, c) : child[k] = "stopping"
    /\ stopRequested /\ server = "running" =>
         /\ open # {} \/ stopRefused \/ walks # <<>>
         /\ \A c \in open \ LateConnections :
              \/ state[c] = "disconnecting"
              \/ \E i \in DOMAIN walks : c = walks[i].next \/ c \in walks[i].ahead
              \/ lost

\* disconnect() of a sound connection is followed by its end, its awaiter
\* resumed; and stop() percolates down until the server stops, its awaiter
\* resumed, unless DOCA refuses or it waits for a connection that is not sound or
\* came late, or what it works on is freed under its hands.
StopCompletes ==
    /\ \A c \in Connections :
         Sound(c) /\ state[c] = "disconnecting" ~>
             (state[c] = "disconnected" /\ goneAwaiter[c] # "suspended") \/ crashed
    /\ stopRequested ~> \/ server = "idle" /\ stopAwaiter # "suspended"
                        \/ stopRefused
                        \/ \E c \in open : c \in LateConnections \/ ~Sound(c)
                        \/ lost \/ crashed
=============================================================================
