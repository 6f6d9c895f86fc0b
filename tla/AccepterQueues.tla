--------------------------- MODULE AccepterQueues ---------------------------
(***************************************************************************)
(* shoc/common/accepter_queues.hpp with the awaitables it hands out        *)
(* (shoc/coro/value_awaitable.hpp).                                        *)
(*                                                                         *)
(* Event callbacks call supply and disconnect, client fibers call accept   *)
(* and, then or later, co_await what it returned.  There is one thread;    *)
(* supply and disconnect resume a suspended fiber synchronously, so client *)
(* code runs inside them.  supply touches nothing after resume() and is    *)
(* one step.  disconnect goes on with its loop after every resume() and is *)
(* one step per iteration: between two of them the resumed fiber may call  *)
(* accept and co_await again.                                              *)
(***************************************************************************)
EXTENDS Naturals, Sequences

CONSTANTS
    Payload,        \* messages, connections or consumers
    Empty,          \* std::monostate: the receptable has no value yet
    NotConnected,   \* doca_exception(DOCA_ERROR_NOT_CONNECTED)
    MaxAccepts,     \* bound on calls of accept
    MaxSupplies     \* bound on calls of supply

ASSUME QueueConstants ==
    /\ Empty \notin Payload
    /\ NotConnected \notin Payload
    /\ Empty # NotConnected
    /\ MaxAccepts \in Nat
    /\ MaxSupplies \in Nat

VARIABLES
    pendingData,       \* pending_data_
    pendingAccepters,  \* pending_accepters_, receptables by number of their accept
    disconnected,      \* disconnected_
    draining,          \* the loop of disconnect is on the stack
    receptable,        \* value_ of the receptable of the i-th accept
    awaiter,           \* what the fiber that called the i-th accept does with it
    supplied           \* history: every payload passed to supply

vars == <<pendingData, pendingAccepters, disconnected, draining,
          receptable, awaiter, supplied>>

Init ==
    /\ pendingData = <<>>
    /\ pendingAccepters = <<>>
    /\ disconnected = FALSE
    /\ draining = FALSE
    /\ receptable = <<>>
    /\ awaiter = <<>>
    /\ supplied = <<>>

-----------------------------------------------------------------------------
(* Client fibers *)

\* accept(): queued data first, even on disconnected queues.
AcceptPending ==
    /\ pendingData # <<>>
    /\ receptable' = Append(receptable, Head(pendingData))
    /\ pendingData' = Tail(pendingData)
    /\ UNCHANGED pendingAccepters

AcceptDisconnected ==
    /\ pendingData = <<>>
    /\ disconnected
    /\ receptable' = Append(receptable, NotConnected)
    /\ UNCHANGED <<pendingData, pendingAccepters>>

\* Mutant: accept does not look at disconnected_.
AcceptQueuedAnyway ==
    /\ pendingData = <<>>
    /\ receptable' = Append(receptable, Empty)
    /\ pendingAccepters' = Append(pendingAccepters, Len(receptable) + 1)
    /\ UNCHANGED pendingData

\* Mutant: the new receptable is not queued.
AcceptForgotten ==
    /\ pendingData = <<>>
    /\ ~disconnected
    /\ receptable' = Append(receptable, Empty)
    /\ UNCHANGED <<pendingData, pendingAccepters>>

AcceptQueued ==
    /\ pendingData = <<>>
    /\ ~disconnected
    /\ receptable' = Append(receptable, Empty)
    /\ pendingAccepters' = Append(pendingAccepters, Len(receptable) + 1)
    /\ UNCHANGED pendingData

Accept ==
    /\ Len(receptable) < MaxAccepts
    /\ AcceptPending \/ AcceptDisconnected \/ AcceptQueued
    /\ awaiter' = Append(awaiter, "held")
    /\ UNCHANGED <<disconnected, draining, supplied>>

\* co_await: await_ready, then either await_resume or await_suspend.
CoAwait(i) ==
    /\ awaiter[i] = "held"
    /\ awaiter' = [awaiter EXCEPT ![i] =
                     IF receptable[i] # Empty THEN "resumed" ELSE "suspended"]
    /\ UNCHANGED <<pendingData, pendingAccepters, disconnected, draining,
                   receptable, supplied>>

-----------------------------------------------------------------------------
(* Event callbacks *)

\* value_receptable::resume(): without a waiter it does nothing.
Resume(i) == [awaiter EXCEPT ![i] = IF @ = "suspended" THEN "resumed" ELSE @]

\* Mutant: the newest accepter is fed.
FeedBack(value) ==
    /\ pendingAccepters # <<>>
    /\ LET last == Len(pendingAccepters)
       IN  /\ receptable' = [receptable EXCEPT ![pendingAccepters[last]] = value]
           /\ pendingAccepters' = SubSeq(pendingAccepters, 1, last - 1)
           /\ awaiter' = Resume(pendingAccepters[last])

\* Sets the value of the front accepter, pops it and resumes it.
FeedFront(value) ==
    /\ pendingAccepters # <<>>
    /\ receptable' = [receptable EXCEPT ![Head(pendingAccepters)] = value]
    /\ pendingAccepters' = Tail(pendingAccepters)
    /\ awaiter' = Resume(Head(pendingAccepters))

QueueData(p) ==
    /\ pendingAccepters = <<>>
    /\ pendingData' = Append(pendingData, p)
    /\ UNCHANGED <<pendingAccepters, receptable, awaiter>>

Supply(p) ==
    /\ ~draining
    /\ Len(supplied) < MaxSupplies
    /\ \/ QueueData(p)
       \/ FeedFront(p) /\ UNCHANGED pendingData
    /\ supplied' = Append(supplied, p)
    /\ UNCHANGED <<disconnected, draining>>

Disconnect ==
    /\ ~draining
    /\ disconnected' = TRUE
    /\ draining' = TRUE
    /\ UNCHANGED <<pendingData, pendingAccepters, receptable, awaiter, supplied>>

DrainOne ==
    /\ draining
    /\ FeedFront(NotConnected)
    /\ UNCHANGED <<pendingData, disconnected, draining, supplied>>

DrainEnd ==
    /\ draining
    /\ pendingAccepters = <<>>
    /\ draining' = FALSE
    /\ UNCHANGED <<pendingData, pendingAccepters, disconnected,
                   receptable, awaiter, supplied>>

-----------------------------------------------------------------------------
Next ==
    \/ Accept
    \/ \E i \in DOMAIN awaiter : CoAwait(i)
    \/ \E p \in Payload : Supply(p)
    \/ Disconnect
    \/ DrainOne
    \/ DrainEnd

Spec == Init /\ [][Next]_vars

\* disconnect is synchronous code: once entered, its loop runs to the end.
\* Clients need not make progress, so nothing else is fair.
Fairness == WF_vars(DrainOne \/ DrainEnd)

FairSpec == Spec /\ Fairness

-----------------------------------------------------------------------------
(* Properties *)

AwaiterState == {"held", "suspended", "resumed"}

\* Types of the queues, the flags and the receptables.
TypeOK ==
    /\ pendingData \in Seq(Payload)
    /\ pendingAccepters \in Seq(Nat)
    /\ disconnected \in BOOLEAN
    /\ draining \in BOOLEAN
    /\ receptable \in Seq(Payload \cup {Empty, NotConnected})
    /\ awaiter \in Seq(AwaiterState)
    /\ supplied \in Seq(Payload)

\* Data and accepters never wait for each other: the class doc's "two
\* interlocking queues", of which accept and supply each look at only one.
QueuesExclusive == pendingData = <<>> \/ pendingAccepters = <<>>

\* A fiber suspended on an accept can still be found by supply or disconnect:
\* its receptable is empty and queued, exactly once.
WaitersQueued ==
    \A i \in DOMAIN awaiter : awaiter[i] = "suspended" =>
        /\ receptable[i] = Empty
        /\ \E k \in DOMAIN pendingAccepters :
             /\ pendingAccepters[k] = i
             /\ \A m \in DOMAIN pendingAccepters : pendingAccepters[m] = i => m = k

\* Once disconnect has returned nobody waits, whatever the fibers it resumed
\* did meanwhile, and nobody ever waits again.
DisconnectDrains ==
    disconnected /\ ~draining =>
        /\ pendingAccepters = <<>>
        /\ \A i \in DOMAIN awaiter : awaiter[i] # "suspended"

\* A receptable is written once: what a fiber was given is never replaced.
ResultsStick ==
    [][\A i \in DOMAIN receptable :
         receptable[i] # Empty => receptable'[i] = receptable[i]]_vars

\* The queues implement the ordered channel: what has left pendingData or
\* passed it by has been delivered.
Channel == INSTANCE AcceptChannel WITH
    Waiting <- Empty,
    taken <- Len(supplied) - Len(pendingData),
    outcome <- receptable,
    closed <- disconnected

\* Exactly-once delivery in order of supply to accepters in order of accept;
\* an accepter is refused only after disconnect and when no data is left.
ImplementsChannel == Channel!Spec
=============================================================================
