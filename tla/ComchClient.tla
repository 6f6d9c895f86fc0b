----------------------------- MODULE ComchClient -----------------------------
(***************************************************************************)
(* A comch client (shoc/comch/client.cpp): one connection, the consumers   *)
(* and producers created on it ("children"), and the fibers that wait for  *)
(* its messages or for remote consumers.                                   *)
(*                                                                         *)
(* The remote consumers and those who wait for them are kept by            *)
(* RemoteConsumers, which is composed with the client here.                *)
(*                                                                         *)
(* The client has two states: that of the DOCA context, and state_, which  *)
(* says whether the connection may be used.  stop() is only heard while    *)
(* state_ is CONNECTED; doca_ctx_stop waits until the children are gone.   *)
(* Each action is one handler with everything it calls; fibers resumed in  *)
(* its course act in steps of their own.                                   *)
(***************************************************************************)
EXTENDS Naturals, FiniteSets, Sequences

CONSTANTS
    Children,       \* consumers and producers
    Fibers,         \* receivers of messages
    Ids,            \* remote consumers, as in RemoteConsumers
    MaxUses,
    Accepters

ASSUME ClientConstants == MaxUses \in Nat

VARIABLES
    ctx,            \* current_state_
    state,          \* state_
    active,         \* active_children_
    child,          \* current_state_ of every child
    waiting,        \* fibers in message_queues_
    refusing,       \* disconnected_ of both queues, which change together
    index, uses, queue, accepters, accepted, expired, gone, \* remote_consumer_queues_
    stopRequested,  \* history: stop() was called
    stopAwaiter,    \* the fiber in co_await stop()
    sends,          \* history: the state of the context at the last send task
    upset           \* history: what has come between: "refused" (DOCA did not
                    \* stop a context), "left" (the server ended the connection),
                    \* "late" (a child was created after the request to stop),
                    \* "early" (the last request to stop met a client that starts)

Remote == INSTANCE RemoteConsumers WITH disconnected <- refusing

remoteVars == <<index, uses, queue, accepters, accepted, refusing, expired, gone>>
childVars == <<active, child>>
queueVars == <<waiting, remoteVars>>
clientVars == <<ctx, state, childVars, stopRequested, stopAwaiter, sends, upset>>
comchVars == <<clientVars, queueVars>>

ClientInit ==
    /\ ctx = "starting"
    /\ state = "DISCONNECTED"
    /\ active = {}
    /\ child = [k \in Children |-> "none"]
    /\ waiting = {}
    /\ Remote!Init
    /\ stopRequested = FALSE
    /\ stopAwaiter = "none"
    /\ sends = "none"
    /\ upset = {}

-----------------------------------------------------------------------------
(* Helpers *)

\* Mutant: the queues are left as they are.
GoIdleQuietly ==
    /\ ctx' = "idle"
    /\ state' = "DISCONNECTED"
    /\ stopAwaiter' = IF stopAwaiter = "suspended" THEN "resumed" ELSE stopAwaiter
    /\ UNCHANGED queueVars

\* The callback of the change to IDLE: both queues are disconnected, which
\* resumes everybody in them, then state_ follows and the awaiter is resumed.
GoIdle ==
    /\ ctx' = "idle"
    /\ waiting' = {}
    /\ Remote!Disconnect
    /\ state' = "DISCONNECTED"
    /\ stopAwaiter' = IF stopAwaiter = "suspended" THEN "resumed" ELSE stopAwaiter

\* Mutant: the children are not asked for.
DisconnectAnyway(left, seen) ==
    /\ upset' = seen
    /\ \/ GoIdle
       \/ ctx' = "stopping" /\ state' = "DISCONNECTING" /\ UNCHANGED <<queueVars, stopAwaiter>>

\* Mutant: state_ changes only together with the context.
DisconnectForgotten(left, seen) ==
    /\ upset' = seen
    /\ IF left = {} /\ ctx = "running"
       THEN GoIdle
       ELSE UNCHANGED <<ctx, state, queueVars, stopAwaiter>>

\* disconnect_if_able with left as the remaining children; seen is the history.
\* Where the last of them has stopped inside stop_all this is called twice; the
\* second doca_ctx_stop finds the context stopping, idle or, after an error,
\* running.
DisconnectIfAble(left, seen) ==
    IF left = {} /\ ctx = "running"
    THEN \/ GoIdle /\ upset' = seen
         \/ /\ ctx' = "stopping" /\ state' = "DISCONNECTING" /\ upset' = seen
            /\ UNCHANGED <<queueVars, stopAwaiter>>
         \/ /\ state' = "DISCONNECTING" /\ upset' = seen \cup {"refused"}
            /\ UNCHANGED <<ctx, queueVars, stopAwaiter>>
    ELSE /\ state' = "DISCONNECTING" /\ upset' = seen
         /\ UNCHANGED <<ctx, queueVars, stopAwaiter>>

\* signal_stopped_child.
ChildGone(k) ==
    /\ child' = [child EXCEPT ![k] = "idle"]
    /\ active' = active \ {k}
    /\ IF state = "DISCONNECTING"
       THEN DisconnectIfAble(active \ {k}, upset)
       ELSE UNCHANGED <<ctx, state, queueVars, stopAwaiter, upset>>

-----------------------------------------------------------------------------
(* Client fibers *)

\* stop(): the running children are asked to stop, and those in sync do so at
\* once; the ones in refused do not.  In any other state_ nothing happens.
Stop ==
    /\ stopRequested' = TRUE
    /\ IF state = "CONNECTED"
       THEN LET asked == {k \in active : child[k] = "running"}
            IN  \E sync, refused \in SUBSET asked :
                  /\ sync \cap refused = {}
                  /\ active' = active \ sync
                  /\ child' = [k \in Children |->
                                 IF k \in sync THEN "idle"
                                 ELSE IF k \in asked \ refused THEN "stopping" ELSE child[k]]
                  /\ DisconnectIfAble(active \ sync,
                        (upset \ {"early"}) \cup IF refused # {} THEN {"refused"} ELSE {})
       ELSE /\ upset' = upset \cup IF ctx = "starting" THEN {"early"} ELSE {}
            /\ UNCHANGED <<ctx, state, childVars, queueVars, stopAwaiter>>
    /\ UNCHANGED sends

\* co_await of what stop() has returned.
AwaitStop ==
    /\ stopRequested
    /\ stopAwaiter = "none"
    /\ stopAwaiter' = IF ctx = "idle" THEN "resumed" ELSE "suspended"
    /\ UNCHANGED <<ctx, state, childVars, queueVars, stopRequested, sends, upset>>

\* Mutant: only the absence of a connection is noticed.
SendUnchecked ==
    /\ ctx # "starting"
    /\ state # "DISCONNECTED"
    /\ sends' = ctx
    /\ UNCHANGED <<ctx, state, childVars, queueVars, stopRequested, stopAwaiter, upset>>

\* send() makes a task only while state_ is CONNECTED.
Send ==
    /\ ctx # "starting"
    /\ state = "CONNECTED"
    /\ sends' = ctx
    /\ UNCHANGED <<ctx, state, childVars, queueVars, stopRequested, stopAwaiter, upset>>

\* msg_recv() with nothing in the queue; once the queue is disconnected it
\* answers with an error.
Receive(f) ==
    /\ ctx # "starting"
    /\ f \notin waiting
    /\ ~refusing
    /\ waiting' = waiting \cup {f}
    /\ UNCHANGED <<clientVars, remoteVars>>

AcceptConsumer(f) ==
    /\ ctx # "starting"
    /\ Remote!Accept(f)
    /\ UNCHANGED <<clientVars, waiting>>

\* create_consumer and create_producer, which do not look at state_.
CreateChild(k) ==
    /\ ctx = "running"
    /\ child[k] = "none"
    /\ child' = [child EXCEPT ![k] = "running"]
    /\ active' = active \cup {k}
    /\ upset' = upset \cup IF state = "CONNECTED" THEN {} ELSE {"late"}
    /\ UNCHANGED <<ctx, state, queueVars, stopRequested, stopAwaiter, sends>>

\* The scope of a consumer or producer ends.
StopChild(k) ==
    /\ child[k] = "running"
    /\ \/ ChildGone(k)
       \/ /\ child' = [child EXCEPT ![k] = "stopping"]
          /\ UNCHANGED <<ctx, state, active, queueVars, stopAwaiter, upset>>
    /\ UNCHANGED <<stopRequested, sends>>

-----------------------------------------------------------------------------
(* Events *)

\* STARTING to RUNNING, or to IDLE if there is no such server.
Started ==
    /\ ctx = "starting"
    /\ \/ /\ ctx' = "running"
          /\ state' = "CONNECTED"
          /\ UNCHANGED <<queueVars, stopAwaiter>>
       \/ GoIdle
    /\ UNCHANGED <<childVars, stopRequested, sends, upset>>

\* RUNNING to STOPPING, from outside.
ServerGone ==
    /\ ctx = "running"
    /\ ctx' = "stopping"
    /\ state' = "DISCONNECTING"
    /\ upset' = upset \cup {"left"}
    /\ UNCHANGED <<childVars, queueVars, stopRequested, stopAwaiter, sends>>

\* STOPPING to IDLE.
Stopped ==
    /\ ctx = "stopping"
    /\ GoIdle
    /\ UNCHANGED <<childVars, stopRequested, sends, upset>>

\* msg_recv_callback for a fiber that waits.
MsgRecv(f) ==
    /\ ctx \in {"running", "stopping"}
    /\ f \in waiting
    /\ waiting' = waiting \ {f}
    /\ UNCHANGED <<clientVars, remoteVars>>

NewConsumer(i) ==
    /\ ctx \in {"running", "stopping"}
    /\ Remote!Supply(i)
    /\ UNCHANGED <<clientVars, waiting>>

ExpiredConsumer(i) ==
    /\ ctx \in {"running", "stopping"}
    /\ Remote!Expire(i)
    /\ UNCHANGED <<clientVars, waiting>>

ChildIdle(k) ==
    /\ child[k] = "stopping"
    /\ ChildGone(k)
    /\ UNCHANGED <<stopRequested, sends>>

-----------------------------------------------------------------------------
ClientNext ==
    \/ Stop \/ AwaitStop \/ Send
    \/ Started \/ ServerGone \/ Stopped
    \/ \E f \in Fibers : Receive(f) \/ MsgRecv(f)
    \/ \E f \in Accepters : AcceptConsumer(f)
    \/ \E i \in Ids : NewConsumer(i) \/ ExpiredConsumer(i)
    \/ \E k \in Children : CreateChild(k) \/ StopChild(k) \/ ChildIdle(k)

ClientSpec == ClientInit /\ [][ClientNext]_comchVars

\* DOCA delivers the state changes it has promised; fibers owe nothing.
ClientFairness ==
    /\ WF_comchVars(Started)
    /\ WF_comchVars(Stopped)
    /\ \A k \in Children : WF_comchVars(ChildIdle(k))

ClientFairSpec == ClientSpec /\ ClientFairness

-----------------------------------------------------------------------------
(* Properties *)

ClientTypeOK ==
    /\ ctx \in {"starting", "running", "stopping", "idle"}
    /\ state \in {"CONNECTED", "DISCONNECTING", "DISCONNECTED"}
    /\ active \in SUBSET Children
    /\ child \in [Children -> {"none", "running", "stopping", "idle"}]
    /\ waiting \in SUBSET Fibers
    /\ Remote!TypeOK
    /\ stopRequested \in BOOLEAN
    /\ stopAwaiter \in {"none", "suspended", "resumed"}
    /\ sends \in {"none", "starting", "running", "stopping", "idle"}
    /\ upset \in SUBSET {"refused", "left", "late", "early"}

\* No fiber stays in msg_recv, accept_consumer or co_await stop() of a client
\* that has become idle, by whatever way it did.
NobodyLeft ==
    ctx = "idle" => waiting = {} /\ accepters = <<>> /\ stopAwaiter # "suspended"

\* ExpiryKnown of RemoteConsumers, along the life of a client: a fiber's remote
\* consumer says that it has expired exactly if DOCA has reported it.
ExpiryKnown == Remote!ExpiryKnown

\* state_ is never ahead of the context: a send task is made only in a running
\* context, and a client that takes itself for connected has one.
SendsWhileRunning ==
    /\ sends \in {"none", "running"}
    /\ state = "CONNECTED" => ctx = "running"

\* The client goes after its children: unless the server ends the connection,
\* doca_ctx_stop takes effect only when no consumer or producer is left.
ChildrenStopFirst ==
    ctx \in {"stopping", "idle"} /\ "left" \notin upset =>
        \A k \in Children : child[k] \in {"none", "idle"}

\* stop() is followed by the stop, with the same exceptions and that of a client
\* that is starting and does not listen.
StopCompletes ==
    stopRequested ~> ctx = "idle" \/ upset \cap {"refused", "late", "early"} # {}
=============================================================================
