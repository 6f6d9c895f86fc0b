---------------------------- MODULE AcceptChannel ----------------------------
(***************************************************************************)
(* What accepter_queues promises to its users, without its two queues: an  *)
(* ordered channel.  Payloads are delivered once each, in the order they   *)
(* were supplied, to the requests in the order they were made; a request   *)
(* is refused only on a closed channel that holds nothing, and closing the *)
(* channel refuses every request that still waits.                         *)
(***************************************************************************)
EXTENDS Naturals, Sequences

CONSTANTS
    Payload,        \* what is supplied and accepted
    Waiting,        \* outcome of a request that has none yet
    NotConnected    \* outcome of a refused request

VARIABLES
    supplied,       \* every payload supplied so far, in order
    taken,          \* how many of them have been delivered
    outcome,        \* outcome of every request so far, in order of request
    closed

vars == <<supplied, taken, outcome, closed>>

Init ==
    /\ supplied = <<>>
    /\ taken = 0
    /\ outcome = <<>>
    /\ closed = FALSE

FirstWaiting(i) ==
    /\ i \in DOMAIN outcome
    /\ outcome[i] = Waiting
    /\ \A j \in DOMAIN outcome : j < i => outcome[j] # Waiting

\* A payload nobody waits for is kept.
Store(p) ==
    /\ \A i \in DOMAIN outcome : outcome[i] # Waiting
    /\ supplied' = Append(supplied, p)
    /\ UNCHANGED <<taken, outcome, closed>>

\* A payload arrives, the oldest request gets the oldest undelivered payload.
Deliver(p) ==
    /\ supplied' = Append(supplied, p)
    /\ taken' = taken + 1
    /\ \E i \in DOMAIN outcome :
         /\ FirstWaiting(i)
         /\ outcome' = [outcome EXCEPT ![i] = supplied'[taken + 1]]
    /\ UNCHANGED closed

\* A request finds a payload, must wait for one, or is refused.
Take ==
    /\ taken < Len(supplied)
    /\ outcome' = Append(outcome, supplied[taken + 1])
    /\ taken' = taken + 1
    /\ UNCHANGED <<supplied, closed>>

Wait ==
    /\ taken = Len(supplied)
    /\ ~closed
    /\ outcome' = Append(outcome, Waiting)
    /\ UNCHANGED <<supplied, taken, closed>>

Refuse ==
    /\ taken = Len(supplied)
    /\ closed
    /\ outcome' = Append(outcome, NotConnected)
    /\ UNCHANGED <<supplied, taken, closed>>

Close ==
    /\ closed' = TRUE
    /\ UNCHANGED <<supplied, taken, outcome>>

\* Closing refuses the waiting requests, oldest first.
Fail ==
    /\ closed
    /\ \E i \in DOMAIN outcome :
         /\ FirstWaiting(i)
         /\ outcome' = [outcome EXCEPT ![i] = NotConnected]
    /\ UNCHANGED <<supplied, taken, closed>>

Next ==
    \/ \E p \in Payload : Store(p) \/ Deliver(p)
    \/ Take
    \/ Wait
    \/ Refuse
    \/ Close
    \/ Fail

Spec == Init /\ [][Next]_vars
=============================================================================
