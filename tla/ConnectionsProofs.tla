-------------------------- MODULE ConnectionsProofs --------------------------
(***************************************************************************)
(* Proofs about the contexts that hold connections: every comch client     *)
(* with any number of children, fibers and remote consumers (ComchClient), *)
(* and every RDMA context with any number of fibers, ports and connections *)
(* (RdmaCm).                                                               *)
(***************************************************************************)
EXTENDS ComchClient, RdmaCm, TLAPS

-----------------------------------------------------------------------------
(* The remote consumers.  Of what a client does they see four operations. *)

\* No consumer's end is reported before the consumer was announced.
GoneWereUsed == \A i \in Ids : \A n \in 1..MaxUses : <<i, n>> \in gone => n <= uses[i]

RemoteInv == Remote!TypeOK /\ ExpiryKnown /\ GoneWereUsed

RemoteStep ==
    \/ UNCHANGED remoteVars
    \/ Remote!Disconnect
    \/ \E f \in Accepters : Remote!Accept(f)
    \/ \E i \in Ids : Remote!Supply(i) \/ Remote!Expire(i)

\* A step of the client is one operation of its remote_consumer_queues, or none.
LEMMA ClientRemoteStep == [ClientNext]_comchVars => RemoteStep
<1> SUFFICES ASSUME [ClientNext]_comchVars PROVE RemoteStep
  OBVIOUS
<1>1. ASSUME NEW left, NEW seen, DisconnectIfAble(left, seen) PROVE RemoteStep
  BY <1>1 DEF DisconnectIfAble, GoIdle, RemoteStep, queueVars
<1>2. ASSUME NEW k, ChildGone(k) PROVE RemoteStep
  BY <1>1, <1>2 DEF ChildGone, RemoteStep, queueVars
<1>3. CASE Stop
  BY <1>1, <1>3, ZenonT(40) DEF Stop, RemoteStep, queueVars
<1>4. CASE AwaitStop \/ Send \/ ServerGone \/ Started \/ Stopped
  BY <1>4 DEF AwaitStop, Send, ServerGone, Started, Stopped, GoIdle, RemoteStep, queueVars
<1>5. CASE \E f \in Fibers : Receive(f) \/ MsgRecv(f)
  BY <1>5 DEF Receive, MsgRecv, RemoteStep
<1>6. CASE \E f \in Accepters : AcceptConsumer(f)
  BY <1>6 DEF AcceptConsumer, RemoteStep
<1>7. CASE \E i \in Ids : NewConsumer(i) \/ ExpiredConsumer(i)
  BY <1>7 DEF NewConsumer, ExpiredConsumer, RemoteStep
<1>8. CASE \E k \in Children : CreateChild(k) \/ StopChild(k) \/ ChildIdle(k)
  BY <1>2, <1>8 DEF CreateChild, StopChild, ChildIdle, RemoteStep, queueVars
<1>9. CASE UNCHANGED comchVars
  BY <1>9 DEF comchVars, queueVars, RemoteStep
<1> QED
  BY <1>3, <1>4, <1>5, <1>6, <1>7, <1>8, <1>9 DEF ClientNext

\* Every operation of remote_consumer_queues keeps index_ and expired_ true to
\* what DOCA has reported.
LEMMA RemoteInvStep == RemoteInv /\ RemoteStep => RemoteInv'
<1> SUFFICES ASSUME RemoteInv, RemoteStep PROVE RemoteInv'
  OBVIOUS
<1> USE ClientConstants DEF RemoteInv, ExpiryKnown, GoneWereUsed, Remote!TypeOK,
        Remote!ExpiryKnown, Remote!InUse, Remote!Consumers
<1>1. CASE UNCHANGED remoteVars
  BY <1>1 DEF remoteVars
<1>2. CASE Remote!Disconnect
  BY <1>2 DEF Remote!Disconnect
<1>3. ASSUME NEW f \in Accepters, Remote!Accept(f) PROVE RemoteInv'
  <2>1. queue # <<>> => Head(queue) \in Remote!Consumers /\ Tail(queue) \in Seq(Remote!Consumers)
    OBVIOUS
  <2>2. Append(accepters, f) \in Seq(Accepters)
    OBVIOUS
  <2>3. Remote!TypeOK'
    BY <1>3, <2>1, <2>2, ZenonT(40) DEF Remote!Accept
  <2>4. (ExpiryKnown /\ GoneWereUsed)'
    BY <1>3 DEF Remote!Accept
  <2> QED
    BY <2>3, <2>4
<1>4. ASSUME NEW i \in Ids, Remote!Supply(i) PROVE RemoteInv'
  <2> DEFINE new == <<i, uses[i] + 1>>
  <2>1. new \in Ids \X (1..MaxUses) /\ new \notin gone
    BY <1>4 DEF Remote!Supply
  <2>2. Remote!TypeOK'
    <3> HIDE DEF new
    <3>1. Append(queue, new) \in Seq(Remote!Consumers)
      BY <2>1
    <3>2. accepters # <<>> => Tail(accepters) \in Seq(Accepters)
      OBVIOUS
    <3>3. (queue \in Seq(Remote!Consumers) /\ accepters \in Seq(Accepters)
           /\ accepted \subseteq Remote!Consumers)'
      <4> HIDE DEF Remote!Consumers
      <4> QED
        BY <1>4, <2>1, <3>1, <3>2, ZenonT(40) DEF Remote!Supply, new, Remote!Consumers
    <3>4. (index \in [Ids -> 0..MaxUses] /\ uses \in [Ids -> 0..MaxUses])'
      <4>1. uses[i] + 1 \in 0..MaxUses
        BY <2>1 DEF new
      <4>2. /\ index' = [index EXCEPT ![i] = uses[i] + 1]
            /\ uses' = [uses EXCEPT ![i] = uses[i] + 1]
        BY <1>4 DEF Remote!Supply
      <4> HIDE DEF ExpiryKnown, GoneWereUsed
      <4> QED
        BY <4>1, <4>2
    <3>5. UNCHANGED <<refusing, expired, gone>>
      BY <1>4 DEF Remote!Supply
    <3> QED
      BY <3>3, <3>4, <3>5, ZenonT(40)
  <2>3. ExpiryKnown'
    BY <1>4, <2>1 DEF Remote!Supply
  <2>4. GoneWereUsed'
    BY <1>4 DEF Remote!Supply
  <2> QED
    BY <2>2, <2>3, <2>4, SMTT(30)
<1>5. ASSUME NEW i \in Ids, Remote!Expire(i) PROVE RemoteInv'
  <2>1. index[i] = uses[i] /\ uses[i] \in 1..MaxUses
    BY <1>5 DEF Remote!Expire
  <2>2. Remote!TypeOK'
    BY <1>5, <2>1 DEF Remote!Expire
  <2>3. ExpiryKnown'
    BY <1>5, <2>1 DEF Remote!Expire
  <2>4. GoneWereUsed'
    BY <1>5, <2>1 DEF Remote!Expire
  <2> QED
    BY <2>2, <2>3, <2>4, SMTT(30)
<1> QED
  BY <1>1, <1>2, <1>3, <1>4, <1>5, ZenonT(40) DEF RemoteStep

\* Nothing has been reported and nothing is indexed.
LEMMA RemoteInvInit == ClientInit => RemoteInv
<1> SUFFICES ASSUME ClientInit PROVE RemoteInv
  OBVIOUS
<1>1. Remote!TypeOK
  <2>1. <<>> \in Seq(Remote!Consumers) /\ <<>> \in Seq(Accepters)
    OBVIOUS
  <2>2. 0 \in 0..MaxUses
    BY ClientConstants
  <2> QED
    BY <2>1, <2>2, ZenonT(40) DEF ClientInit, Remote!Init, Remote!TypeOK
<1>2. ExpiryKnown /\ GoneWereUsed
  BY DEF ClientInit, Remote!Init, ExpiryKnown, GoneWereUsed, Remote!ExpiryKnown, Remote!InUse
<1> QED
  BY <1>1, <1>2 DEF RemoteInv

\* ExpiryKnown holds throughout: what a fiber's remote consumer says of its expiry
\* is what DOCA has reported, in whatever order the ids come, go and come back.
THEOREM ExpiryIsKnown == ClientSpec => []ExpiryKnown
<1>1. RemoteInv => ExpiryKnown
  BY DEF RemoteInv
<1> QED
  BY <1>1, RemoteInvInit, RemoteInvStep, ClientRemoteStep, PTL DEF ClientSpec

-----------------------------------------------------------------------------
(* The client and its children. *)

ClientTypes ==
    /\ ctx \in {"starting", "running", "stopping", "idle"}
    /\ active \in SUBSET Children
    /\ child \in [Children -> {"none", "running", "stopping", "idle"}]

\* active_children_ holds the children that have not stopped.
Registered == active = {k \in Children : child[k] \in {"running", "stopping"}}

\* Nobody joins a queue of an idle client.
IdleRefuses == ctx = "idle" => refusing

\* There is nothing to have children before the context runs.
ChildrenComeLater == ctx = "starting" => \A k \in Children : child[k] = "none"

ClientInv ==
    /\ ClientTypes
    /\ Registered
    /\ IdleRefuses
    /\ ChildrenComeLater
    /\ NobodyLeft
    /\ SendsWhileRunning
    /\ ChildrenStopFirst

\* A client that has been constructed has no children and no waiters.
LEMMA ClientInvInit == ClientInit => ClientInv
  BY DEF ClientInit, Remote!Init, ClientInv, ClientTypes, Registered, IdleRefuses,
     ChildrenComeLater, NobodyLeft, SendsWhileRunning, ChildrenStopFirst

\* The callback of the change to IDLE, of a context that has no children left or
\* whose server has gone.
LEMMA GoIdleKeeps ==
    ASSUME ClientInv, GoIdle, (ClientTypes /\ Registered)',
           UNCHANGED sends,
           "left" \notin upset' => \A k \in Children : child'[k] \in {"none", "idle"}
    PROVE  ClientInv'
  BY DEF ClientInv, ClientTypes, GoIdle, Remote!Disconnect, IdleRefuses, ChildrenComeLater,
     NobodyLeft, SendsWhileRunning, ChildrenStopFirst

\* disconnect_if_able, after the registry was brought up to date.
LEMMA DisconnectKeeps ==
    ASSUME ClientInv, NEW seen, DisconnectIfAble(active', seen),
           (ClientTypes /\ Registered)', UNCHANGED sends,
           "left" \in upset => "left" \in seen,
           ctx # "starting",
           \A k \in Children : child[k] \in {"none", "idle"} => child'[k] = child[k]
    PROVE  ClientInv'
<1>1. CASE active' = {} /\ GoIdle
  <2>1. \A k \in Children : child'[k] \in {"none", "idle"}
    BY <1>1 DEF Registered, ClientTypes
  <2> QED
    BY <1>1, <2>1, GoIdleKeeps
<1>2. CASE /\ active' = {} /\ ctx = "running"
           /\ ctx' = "stopping" /\ state' = "DISCONNECTING"
           /\ UNCHANGED <<queueVars, stopAwaiter>>
  BY <1>2 DEF ClientInv, ClientTypes, Registered, IdleRefuses, ChildrenComeLater, NobodyLeft,
     SendsWhileRunning, ChildrenStopFirst
<1>3. CASE /\ state' = "DISCONNECTING"
           /\ upset' \in {seen, seen \cup {"refused"}}
           /\ UNCHANGED <<ctx, queueVars, stopAwaiter>>
  BY <1>3 DEF ClientInv, ClientTypes, IdleRefuses, ChildrenComeLater, NobodyLeft,
     SendsWhileRunning, ChildrenStopFirst, queueVars, remoteVars
<1> QED
  BY <1>1, <1>2, <1>3 DEF DisconnectIfAble

\* client::signal_stopped_child: the last child of a client that disconnects
\* lets it stop.
LEMMA ChildGoneKeeps ==
    ASSUME ClientInv, NEW k \in Children, ChildGone(k), child[k] \in {"running", "stopping"},
           UNCHANGED sends
    PROVE  ClientInv'
<1>1. (ClientTypes /\ Registered)'
  BY DEF ChildGone, DisconnectIfAble, GoIdle, ClientInv, ClientTypes, Registered
<1>2. /\ ctx # "starting"
      /\ \A j \in Children : child[j] \in {"none", "idle"} => child'[j] = child[j]
  BY DEF ChildGone, ClientInv, ClientTypes, ChildrenComeLater
<1>3. CASE state = "DISCONNECTING"
  BY <1>1, <1>2, <1>3, DisconnectKeeps DEF ChildGone
<1>4. CASE state # "DISCONNECTING"
  BY <1>1, <1>2, <1>4 DEF ChildGone, ClientInv, IdleRefuses, ChildrenComeLater, NobodyLeft,
     SendsWhileRunning, ChildrenStopFirst, queueVars, remoteVars
<1> QED
  BY <1>3, <1>4

\* Every callback and every call of client.cpp keeps the client's invariant.
LEMMA ClientInvStep == ClientInv /\ [ClientNext]_comchVars => ClientInv'
<1> SUFFICES ASSUME ClientInv, [ClientNext]_comchVars PROVE ClientInv'
  OBVIOUS
<1>1. CASE Stop
  <2>1. CASE state = "CONNECTED"
    <3> DEFINE asked == {k \in active : child[k] = "running"}
    <3>1. PICK sync \in SUBSET asked, refused \in SUBSET asked :
            /\ active' = active \ sync
            /\ child' = [k \in Children |->
                           IF k \in sync THEN "idle"
                           ELSE IF k \in asked \ refused THEN "stopping" ELSE child[k]]
            /\ DisconnectIfAble(active',
                  (upset \ {"early"}) \cup IF refused # {} THEN {"refused"} ELSE {})
      BY <1>1, <2>1, ZenonT(40) DEF Stop
    <3>2. ctx' \in {"starting", "running", "stopping", "idle"}
      BY <3>1 DEF DisconnectIfAble, GoIdle, ClientInv, ClientTypes
    <3>3. (ClientTypes /\ Registered)'
      BY <3>1, <3>2 DEF ClientInv, ClientTypes, Registered
    <3>4. \A k \in Children : child[k] \in {"none", "idle"} => child'[k] = child[k]
      BY <3>1 DEF ClientInv, ClientTypes
    <3>5. ctx # "starting" /\ UNCHANGED sends
      BY <1>1, <2>1 DEF Stop, ClientInv, SendsWhileRunning
    <3> QED
      BY <3>1, <3>3, <3>4, <3>5, DisconnectKeeps
  <2>2. CASE state # "CONNECTED"
    <3>1. /\ UNCHANGED <<ctx, state, childVars, queueVars, stopAwaiter, sends>>
          /\ upset \subseteq upset'
      BY <1>1, <2>2 DEF Stop
    <3> QED
      BY <3>1 DEF ClientInv, ClientTypes, Registered, IdleRefuses, ChildrenComeLater,
         NobodyLeft, SendsWhileRunning, ChildrenStopFirst, childVars, queueVars, remoteVars
  <2> QED
    BY <2>1, <2>2
<1>2. CASE AwaitStop \/ Send \/ ServerGone
  BY <1>2 DEF AwaitStop, Send, ServerGone, ClientInv, ClientTypes, Registered, IdleRefuses,
     ChildrenComeLater, NobodyLeft, SendsWhileRunning, ChildrenStopFirst, childVars,
     queueVars, remoteVars
<1>3. CASE Started
  <2>1. CASE GoIdle
    BY <1>3, <2>1, GoIdleKeeps DEF Started, ClientInv, ClientTypes, Registered, GoIdle,
       ChildrenComeLater, childVars
  <2>2. CASE ctx' = "running" /\ UNCHANGED <<queueVars, stopAwaiter>>
    BY <1>3, <2>2 DEF Started, ClientInv, ClientTypes, Registered, IdleRefuses,
       ChildrenComeLater, NobodyLeft, SendsWhileRunning, ChildrenStopFirst, childVars
  <2> QED
    BY <1>3, <2>1, <2>2 DEF Started
<1>4. CASE Stopped
  BY <1>4, GoIdleKeeps DEF Stopped, ClientInv, ClientTypes, Registered, GoIdle,
     ChildrenStopFirst, childVars
<1>5. CASE \E f \in Fibers : Receive(f) \/ MsgRecv(f)
  BY <1>5 DEF Receive, MsgRecv, ClientInv, ClientTypes, Registered, IdleRefuses,
     ChildrenComeLater, NobodyLeft, SendsWhileRunning, ChildrenStopFirst, clientVars,
     childVars, remoteVars
<1>6. CASE \E f \in Accepters : AcceptConsumer(f)
  BY <1>6 DEF AcceptConsumer, Remote!Accept, ClientInv, ClientTypes, Registered, IdleRefuses,
     ChildrenComeLater, NobodyLeft, SendsWhileRunning, ChildrenStopFirst, clientVars,
     childVars
<1>7. CASE \E i \in Ids : NewConsumer(i) \/ ExpiredConsumer(i)
  BY <1>7 DEF NewConsumer, ExpiredConsumer, Remote!Supply, Remote!Expire, ClientInv,
     ClientTypes, Registered, IdleRefuses, ChildrenComeLater, NobodyLeft,
     SendsWhileRunning, ChildrenStopFirst, clientVars, childVars
<1>8. ASSUME NEW k \in Children, CreateChild(k) PROVE ClientInv'
  BY <1>8 DEF CreateChild, ClientInv, ClientTypes, Registered, IdleRefuses,
     ChildrenComeLater, NobodyLeft, SendsWhileRunning, ChildrenStopFirst
<1>9. ASSUME NEW k \in Children, StopChild(k) PROVE ClientInv'
  <2>1. CASE ChildGone(k)
    BY <1>9, <2>1, ChildGoneKeeps DEF StopChild
  <2>2. CASE ~ChildGone(k)
    <3>1. /\ child[k] = "running"
          /\ child' = [child EXCEPT ![k] = "stopping"]
          /\ UNCHANGED <<ctx, state, active, queueVars, stopAwaiter, upset, sends>>
      BY <1>9, <2>2 DEF StopChild
    <3> QED
      BY <3>1 DEF ClientInv, ClientTypes, Registered, IdleRefuses, ChildrenComeLater,
         NobodyLeft, SendsWhileRunning, ChildrenStopFirst, queueVars, remoteVars
  <2> QED
    BY <2>1, <2>2
<1>10. ASSUME NEW k \in Children, ChildIdle(k) PROVE ClientInv'
  BY <1>10, ChildGoneKeeps DEF ChildIdle
<1>11. CASE UNCHANGED comchVars
  BY <1>11 DEF comchVars, ClientInv, ClientTypes, Registered, IdleRefuses, ChildrenComeLater,
     NobodyLeft, SendsWhileRunning, ChildrenStopFirst, clientVars, childVars, queueVars,
     remoteVars
<1> QED
  BY <1>1, <1>2, <1>3, <1>4, <1>5, <1>6, <1>7, <1>8, <1>9, <1>10, <1>11 DEF ClientNext

\* The client's invariant holds from its constructor on.
LEMMA ClientInvariant == ClientSpec => []ClientInv
  BY ClientInvInit, ClientInvStep, PTL DEF ClientSpec

\* NobodyLeft holds throughout: whichever way the context becomes idle, at once, by
\* a failed start, after a stop or because the server has gone, nobody stays
\* suspended in it, and nobody can join afterwards.
THEOREM NobodyIsLeft == ClientSpec => []NobodyLeft
<1>1. ClientInv => NobodyLeft
  BY DEF ClientInv
<1> QED
  BY <1>1, ClientInvariant, PTL

\* SendsWhileRunning holds throughout: state_ and the state of the context agree
\* whenever send() trusts the one for the other.
THEOREM SendsOnlyWhileRunning == ClientSpec => []SendsWhileRunning
<1>1. ClientInv => SendsWhileRunning
  BY DEF ClientInv
<1> QED
  BY <1>1, ClientInvariant, PTL

\* ChildrenStopFirst holds throughout: stop_all, signal_stopped_child and
\* disconnect_if_able together stop the client after its consumers and producers,
\* in whatever order these stop and whether they do so at once or later.
THEOREM ChildrenAreFirst == ClientSpec => []ChildrenStopFirst
<1>1. ClientInv => ChildrenStopFirst
  BY DEF ClientInv
<1> QED
  BY <1>1, ClientInvariant, PTL

-----------------------------------------------------------------------------
(* Why a client whose stop was requested has not stopped yet: the safety half of
   StopCompletes.  What is left to fairness is that DOCA makes the callbacks it
   owes. *)

\* DOCA owes a callback for everything that a requested stop waits for: the change
\* of the context to IDLE, or that of a child which is the last but for others
\* that are stopping too.
StopHasCause ==
    stopRequested /\ upset \cap {"refused", "late", "early"} = {} =>
        \/ ctx \in {"stopping", "idle"}
        \/ /\ active # {}
           /\ \A k \in active : child[k] = "stopping"

\* A client that disconnects and runs waits for its children, and has asked them.
WaitsForChildren ==
    ctx = "running" /\ state = "DISCONNECTING" /\ upset \cap {"refused", "late"} = {} =>
        /\ active # {}
        /\ \A k \in active : child[k] = "stopping"

CauseInv ==
    /\ WaitsForChildren
    /\ state \in {"CONNECTED", "DISCONNECTING", "DISCONNECTED"}
    /\ state = "DISCONNECTED" => ctx \in {"starting", "idle"}
    /\ stopRequested /\ "early" \notin upset => ctx # "starting" /\ state # "CONNECTED"

\* Every callback and every call keeps what a requested stop waits for.
LEMMA CauseInvStep == ClientInv /\ CauseInv /\ [ClientNext]_comchVars => CauseInv'
<1> SUFFICES ASSUME ClientInv, CauseInv, [ClientNext]_comchVars PROVE CauseInv'
  OBVIOUS
<1>1. CASE Stop
  <2>1. CASE state = "CONNECTED"
    <3> DEFINE asked == {k \in active : child[k] = "running"}
    <3>1. PICK sync \in SUBSET asked, refused \in SUBSET asked :
            /\ active' = active \ sync
            /\ child' = [k \in Children |->
                           IF k \in sync THEN "idle"
                           ELSE IF k \in asked \ refused THEN "stopping" ELSE child[k]]
            /\ DisconnectIfAble(active',
                  (upset \ {"early"}) \cup IF refused # {} THEN {"refused"} ELSE {})
      BY <1>1, <2>1, ZenonT(40) DEF Stop
    <3>2. refused = {} => \A k \in active' : child'[k] = "stopping"
      BY <3>1 DEF ClientInv, ClientTypes, Registered
    <3>3. refused # {} => "refused" \in upset'
      BY <3>1 DEF DisconnectIfAble
    <3>4. ctx = "running"
      BY <2>1 DEF ClientInv, SendsWhileRunning
    <3> QED
      BY <3>1, <3>2, <3>3, <3>4 DEF DisconnectIfAble, GoIdle, CauseInv, WaitsForChildren
  <2>2. CASE state # "CONNECTED"
    <3>1. /\ UNCHANGED <<ctx, state, childVars>>
          /\ upset' = upset \cup IF ctx = "starting" THEN {"early"} ELSE {}
      BY <1>1, <2>2 DEF Stop
    <3> QED
      BY <2>2, <3>1 DEF CauseInv, WaitsForChildren, childVars
  <2> QED
    BY <2>1, <2>2
<1>2. CASE AwaitStop \/ Send \/ ServerGone
  BY <1>2 DEF AwaitStop, Send, ServerGone, CauseInv, WaitsForChildren, childVars
<1>3. CASE Started \/ Stopped
  BY <1>3 DEF Started, Stopped, GoIdle, CauseInv, WaitsForChildren, childVars
<1>4. CASE \E f \in Fibers : Receive(f) \/ MsgRecv(f)
  BY <1>4 DEF Receive, MsgRecv, CauseInv, WaitsForChildren, clientVars, childVars
<1>5. CASE \E f \in Accepters : AcceptConsumer(f)
  BY <1>5 DEF AcceptConsumer, CauseInv, WaitsForChildren, clientVars, childVars
<1>6. CASE \E i \in Ids : NewConsumer(i) \/ ExpiredConsumer(i)
  BY <1>6 DEF NewConsumer, ExpiredConsumer, CauseInv, WaitsForChildren, clientVars, childVars
<1>7. ASSUME NEW k \in Children, CreateChild(k) PROVE CauseInv'
  BY <1>7 DEF CreateChild, CauseInv, WaitsForChildren, ClientInv, SendsWhileRunning
<1>8. ASSUME NEW k \in Children, ChildGone(k), UNCHANGED stopRequested PROVE CauseInv'
  <2>1. /\ active' = active \ {k}
        /\ \A j \in active' : child'[j] = child[j]
    BY <1>8 DEF ChildGone, ClientInv, ClientTypes
  <2>2. CASE state = "DISCONNECTING"
    <3>1. DisconnectIfAble(active', upset)
      BY <1>8, <2>2 DEF ChildGone
    <3> QED
      BY <1>8, <2>1, <2>2, <3>1 DEF DisconnectIfAble, GoIdle, CauseInv, WaitsForChildren
  <2>3. CASE state # "DISCONNECTING"
    BY <1>8, <2>3 DEF ChildGone, CauseInv, WaitsForChildren
  <2> QED
    BY <2>2, <2>3
<1>9. ASSUME NEW k \in Children, StopChild(k), ~ChildGone(k) PROVE CauseInv'
  BY <1>9 DEF StopChild, CauseInv, WaitsForChildren, ClientInv, ClientTypes
<1>10. CASE UNCHANGED comchVars
  BY <1>10 DEF comchVars, clientVars, childVars, CauseInv, WaitsForChildren
<1> QED
  BY <1>1, <1>2, <1>3, <1>4, <1>5, <1>6, <1>7, <1>8, <1>9, <1>10 DEF ClientNext, StopChild, ChildIdle

\* StopHasCause holds throughout: stop_all, signal_stopped_child and
\* disconnect_if_able leave no client with its stop requested and nothing under
\* way that would bring it about, unless DOCA refuses, a child is created after the
\* request, or the request comes before the client runs.
THEOREM StopAlwaysHasCause == ClientSpec => []StopHasCause
<1>1. ClientInit => CauseInv
  BY DEF ClientInit, CauseInv, WaitsForChildren
<1>2. ClientInv /\ CauseInv => StopHasCause
  BY DEF ClientInv, ClientTypes, CauseInv, WaitsForChildren, StopHasCause
<1> QED
  BY <1>1, <1>2, ClientInvariant, CauseInvStep, PTL DEF ClientSpec

-----------------------------------------------------------------------------
(* RdmaCm, for any fibers, ports and connections.

   ReceptablesMatch is not inductive: it needs to be known that a context makes
   one attempt as a client, that only a change of role parts it from its fiber,
   and that a connection somebody owns is no attempt any more. *)

\* What is known of a connection attempt: a context makes one at most, as a
\* client, and accepts others as a server.
Attempts ==
    /\ \A c \in Conns : conn[c].phase = "connecting" =>
         /\ role # "none" /\ (role = "server" => mixed)
         /\ conn[c].port = None /\ conn[c].data # None
    /\ \A c, d \in Conns :
         conn[c].phase = "connecting" /\ conn[d].phase = "connecting" => c = d
    /\ \A c \in Conns : conn[c].phase = "accepted" => role = "server" /\ conn[c].port # None

\* A fiber owns only connections that are no longer attempts.
OwnedAreOver == \A c \in Conns : conn[c].phase \in Pending \cup {"none"} => owner[c] = None

\* Who is left in listen() waits for a port.
StrandedListen == \A f \in stranded : call[f] \in Ports

CmInv == CmTypeOK /\ ReceptablesMatch /\ Attempts /\ OwnedAreOver /\ StrandedListen

\* Nobody has called connect() or listen() yet.
LEMMA CmInvInit == CmInit => CmInv
<1> SUFFICES ASSUME CmInit PROVE CmInv
  OBVIOUS
<1>1. CmTypeOK
  BY ZenonT(40) DEF CmInit, CmTypeOK
<1>2. ReceptablesMatch
  BY CmConstants DEF CmInit, ReceptablesMatch
<1>3. Attempts /\ OwnedAreOver /\ StrandedListen
  BY DEF CmInit, Attempts, OwnedAreOver, StrandedListen, Pending
<1> QED
  BY <1>1, <1>2, <1>3 DEF CmInv

\* rdma_context::connect: the attempt carries the receptable of the fiber.
LEMMA ConnectKeeps ==
    ASSUME CmInv, NEW f \in Callers, NEW c \in Conns, Connect(f, c)
    PROVE  CmInv'
<1>1. CmTypeOK'
  BY DEF Connect, CmInv, CmTypeOK, Pending
<1>2. \A d \in Conns :
          conn'[d] = IF d = c THEN [phase |-> "connecting", port |-> None, data |-> f] ELSE conn[d]
  BY DEF Connect, CmInv, CmTypeOK
<1>3. \A g \in Callers : call'[g] = IF g = f THEN "connect" ELSE call[g]
  BY DEF Connect, CmInv, CmTypeOK
<1>4. f \notin stranded
  BY CmConstants DEF Connect, CmInv, StrandedListen
<1>5. ReceptablesMatch'
  BY <1>2, <1>3, <1>4, CmConstants DEF Connect, CmInv, ReceptablesMatch, Attempts
<1>6. Attempts'
  BY <1>2, CmConstants DEF Connect, CmInv, Attempts
<1>7. OwnedAreOver'
  BY <1>2 DEF Connect, CmInv, OwnedAreOver
<1>8. StrandedListen'
  BY <1>3, <1>4 DEF Connect, CmInv, CmTypeOK, StrandedListen
<1> QED
  BY <1>1, <1>5, <1>6, <1>7, <1>8 DEF CmInv

\* rdma_context::listen: the port gets the receptable of the fiber.
LEMMA ListenKeeps ==
    ASSUME CmInv, NEW f \in Callers, NEW p \in Ports, Listen(f, p)
    PROVE  CmInv'
<1>1. CmTypeOK'
  BY DEF Listen, CmInv, CmTypeOK
<1>2. \A q \in Ports : listeners'[q] = IF q = p THEN f ELSE listeners[q]
  BY DEF Listen, CmInv, CmTypeOK
<1>3. \A g \in Callers : call'[g] = IF g = f THEN p ELSE call[g]
  BY DEF Listen, CmInv, CmTypeOK
<1>4. f \notin stranded
  BY CmConstants DEF Listen, CmInv, StrandedListen
<1>5. ReceptablesMatch'
  <2>1. ASSUME NEW g \in Callers, NEW q \in Ports
        PROVE  listeners'[q] = g <=> call'[g] = q /\ g \notin stranded
    <3>1. /\ listeners[q] = g <=> call[g] = q /\ g \notin stranded
          /\ listeners[p] = None /\ call[f] = None /\ g # None /\ q # None
      BY CmConstants DEF Listen, CmInv, ReceptablesMatch
    <3> QED
      BY <1>2, <1>3, <1>4, <3>1
  <2>2. ASSUME NEW g \in Callers, NEW c \in Conns,
               conn[c].phase = "connecting", conn[c].data = g
        PROVE  call'[g] = "connect"
    BY <1>3, <2>2, CmConstants DEF Listen, CmInv, ReceptablesMatch
  <2>3. ASSUME NEW g \in Callers, call'[g] = "connect", g \notin stranded, ~mixed
        PROVE  \E c \in Conns : conn[c].phase = "connecting" /\ conn[c].data = g
    BY <1>3, <2>3, CmConstants DEF CmInv, ReceptablesMatch
  <2>4. UNCHANGED <<conn, stranded>> /\ role' = "server" /\ (mixed => mixed')
    BY ZenonT(40) DEF Listen
  <2> QED
    BY <2>1, <2>2, <2>3, <2>4 DEF ReceptablesMatch
<1>6. Attempts'
  BY ZenonT(40) DEF Listen, CmInv, CmTypeOK, Attempts
<1>7. OwnedAreOver' /\ StrandedListen'
  BY <1>3, <1>4 DEF Listen, CmInv, CmTypeOK, OwnedAreOver, StrandedListen
<1> QED
  BY <1>1, <1>5, <1>6, <1>7 DEF CmInv

\* rdma_context::connection_request: accepted for the listener of the port, or rejected.
LEMMA RequestKeeps ==
    ASSUME CmInv, NEW c \in Conns, NEW p \in Ports, Request(c, p)
    PROVE  CmInv'
<1>1. CmTypeOK'
  BY SMTT(30) DEF Request, CmInv, CmTypeOK, Pending
<1>2. \A d \in Conns \ {c} : conn'[d] = conn[d]
  BY DEF Request, CmInv, CmTypeOK
<1>3. \/ conn'[c].phase = "closed"
      \/ conn'[c] = [phase |-> "accepted", port |-> p, data |-> None]
  BY DEF Request, CmInv, CmTypeOK
<1>4. role = "server" /\ conn[c].phase = "none"
  BY DEF Request, CmInv, ReceptablesMatch
<1>5. ReceptablesMatch'
  <2>1. CASE UNCHANGED <<listeners, stranded>>
    BY <1>2, <1>3, <1>4, <2>1 DEF Request, CmInv, ReceptablesMatch
  <2>2. CASE /\ listeners[p] # None
             /\ listeners' = [listeners EXCEPT ![p] = None]
             /\ stranded' = stranded \cup {listeners[p]}
    <3>1. listeners[p] \in Callers /\ call[listeners[p]] = p
      BY <2>2 DEF CmInv, CmTypeOK, ReceptablesMatch
    <3>2. \A q \in Ports : listeners'[q] = IF q = p THEN None ELSE listeners[q]
      BY <2>2 DEF CmInv, CmTypeOK
    <3> QED
      BY <1>2, <1>3, <1>4, <2>2, <3>1, <3>2, CmConstants DEF Request, CmInv, ReceptablesMatch
  <2> QED
    BY <2>1, <2>2 DEF Request
<1>6. Attempts'
  BY <1>2, <1>3, <1>4, CmConstants DEF Request, CmInv, Attempts
<1>7. OwnedAreOver'
  BY <1>2, <1>4 DEF Request, CmInv, OwnedAreOver
<1>8. StrandedListen'
  BY DEF Request, CmInv, CmTypeOK, ReceptablesMatch, StrandedListen
<1> QED
  BY <1>1, <1>5, <1>6, <1>7, <1>8 DEF CmInv

\* A connection that is no attempt goes from one such phase to another.
LEMMA CloseKeeps ==
    ASSUME CmInv, NEW c \in Conns, Disconnected(c) \/ Drop(c)
    PROVE  CmInv'
<1>1. CmTypeOK'
  BY DEF Disconnected, Drop, CmInv, CmTypeOK, Pending
<1>2. /\ \A d \in Conns \ {c} : conn'[d] = conn[d]
      /\ conn'[c].phase = "closed"
  BY DEF Disconnected, Drop, CmInv, CmTypeOK
<1>3. conn[c].phase \notin Pending
  BY DEF Disconnected, Drop, CmInv, OwnedAreOver, Pending
<1>4. ReceptablesMatch'
  BY <1>2, <1>3 DEF Disconnected, Drop, CmInv, ReceptablesMatch, Pending
<1>5. Attempts' /\ StrandedListen'
  BY <1>2, <1>3 DEF Disconnected, Drop, CmInv, Attempts, StrandedListen, Pending
<1>6. OwnedAreOver'
  BY <1>2 DEF Disconnected, Drop, CmInv, CmTypeOK, OwnedAreOver, Pending
<1> QED
  BY <1>1, <1>4, <1>5, <1>6 DEF CmInv

\* What take_connection_receptable does to the fiber it finds: none for a server
\* that cannot tell the port.
LEMMA EndKeeps ==
    ASSUME CmInv, NEW c \in Conns, conn[c].phase \in Pending,
           NEW port \in PortsOf(c), NEW phase \in {"established", "closed"},
           Forget(c, port, phase), Resolve(TakeReceptable(c, port)),
           UNCHANGED <<role, listening, mixed>>,
           owner' \in [Conns -> Callers \cup {None}],
           \A d \in Conns \ {c} : owner'[d] = owner[d]
    PROVE  CmInv'
<1> DEFINE f == TakeReceptable(c, port)
<1>1. port \in Ports \cup {None} /\ role # "none"
  BY DEF PortsOf, CmInv, CmTypeOK, Attempts, Pending
<1>2. CmTypeOK'
  <2>1. listeners' \in [Ports -> Callers \cup {None}]
    BY <1>1, SMTT(30) DEF Forget, CmInv, CmTypeOK
  <2>2. conn' \in [Conns -> [phase : Pending \cup {"none", "established", "closed"},
                             port : Ports \cup {None}, data : Callers \cup {None}]]
    <3> DEFINE Rec == [phase : Pending \cup {"none", "established", "closed"},
                       port : Ports \cup {None}, data : Callers \cup {None}]
               new == [phase |-> phase, port |-> conn[c].port,
                       data |-> IF role = "client" THEN None ELSE conn[c].data]
    <3>1. conn \in [Conns -> Rec]
      BY DEF CmInv, CmTypeOK
    <3>2. new \in Rec
      BY <3>1
    <3>3. conn'[c] = new
      BY <3>1, ZenonT(40) DEF Forget
    <3>4. /\ conn' = [d \in Conns |-> conn'[d]]
          /\ \A d \in Conns \ {c} : conn'[d] = conn[d]
      BY <3>1, ZenonT(40) DEF Forget
    <3> HIDE DEF Rec, new
    <3>5. conn' \in [Conns -> Rec]
      BY <3>1, <3>2, <3>3, <3>4
    <3> QED
      BY <3>5 DEF Rec
  <2>3. call' \in [Callers -> {"connect", None} \cup Ports]
    BY DEF Resolve, CmInv, CmTypeOK
  <2> QED
    BY <2>1, <2>2, <2>3 DEF Resolve, CmInv, CmTypeOK
<1>3. /\ \A d \in Conns \ {c} : conn'[d] = conn[d]
      /\ conn'[c].phase = phase
  BY DEF Forget, CmInv, CmTypeOK
<1>4. /\ \A g \in Callers : call'[g] = IF g = f THEN None ELSE call[g]
      /\ UNCHANGED stranded
  BY SMTT(30) DEF Resolve
<1>5. \/ /\ role = "client" /\ conn[c].phase = "connecting"
         /\ f = conn[c].data /\ call[f] = "connect" /\ f \notin stranded
         /\ UNCHANGED listeners
      \/ /\ role = "server" /\ port \in Ports
         /\ f = listeners[port] /\ (f \in Callers => call[f] = port /\ f \notin stranded)
         /\ \A q \in Ports : listeners'[q] = IF q = port THEN None ELSE listeners[q]
      \/ /\ role = "server"
         /\ f = None
         /\ UNCHANGED listeners
  <2>1. CASE role = "client"
    <3>1. conn[c].phase = "connecting" /\ f = conn[c].data /\ UNCHANGED listeners
      BY <2>1 DEF CmInv, Attempts, Pending, TakeReceptable, Forget
    <3>2. f \in Callers /\ call[f] = "connect"
      BY <3>1 DEF CmInv, CmTypeOK, Attempts, ReceptablesMatch
    <3> QED
      BY <2>1, <3>1, <3>2, CmConstants DEF CmInv, StrandedListen
  <2>2. CASE role = "server" /\ port # None
    BY <1>1, <2>2 DEF CmInv, CmTypeOK, ReceptablesMatch, TakeReceptable, Forget
  <2>3. CASE role = "server" /\ port = None
    BY <2>3, SMTT(30) DEF TakeReceptable, Forget
  <2> QED
    BY <1>1, <2>1, <2>2, <2>3, SMTT(30) DEF CmInv, CmTypeOK
<1> HIDE DEF f
<1>6. ASSUME NEW g \in Callers, NEW q \in Ports
      PROVE  listeners'[q] = g <=> call'[g] = q /\ g \notin stranded
  <2>1. /\ listeners[q] = g <=> call[g] = q /\ g \notin stranded
        /\ g # None /\ q # None /\ q # "connect"
    BY CmConstants, SMTT(30) DEF CmInv, ReceptablesMatch
  <2> QED
    BY <1>4, <1>5, <2>1, SMTT(30)
<1>7. ASSUME NEW g \in Callers, NEW d \in Conns,
             conn'[d].phase = "connecting", conn'[d].data = g
      PROVE  call'[g] = "connect"
  <2>1. d # c /\ conn[d].phase = "connecting" /\ conn[d].data = g
    BY <1>3, <1>7, SMTT(30)
  <2>2. call[g] = "connect" /\ conn[c].phase # "connecting" /\ role # "client"
    BY <2>1 DEF CmInv, ReceptablesMatch, Attempts, Pending
  <2> QED
    BY <1>4, <1>5, <2>2, CmConstants
<1>8. ASSUME NEW g \in Callers, call'[g] = "connect", g \notin stranded, ~mixed
      PROVE  \E d \in Conns : conn'[d].phase = "connecting" /\ conn'[d].data = g
  <2>1. g # f /\ call[g] = "connect"
    BY <1>4, <1>8, CmConstants, SMTT(30)
  <2>2. PICK d \in Conns : conn[d].phase = "connecting" /\ conn[d].data = g
    BY <1>8, <2>1, SMTT(30) DEF CmInv, ReceptablesMatch
  <2>3. role = "client" /\ conn[c].phase = "connecting"
    BY <1>1, <1>5, <1>8, <2>2, SMTT(30) DEF CmInv, Attempts
  <2>4. c = d /\ f = conn[c].data
    BY <1>5, <2>2, <2>3, SMTT(30) DEF CmInv, Attempts
  <2> QED
    BY <2>1, <2>2, <2>4, SMTT(30)
<1>9. ReceptablesMatch'
  BY <1>4, <1>6, <1>7, <1>8, SMTT(30) DEF CmInv, ReceptablesMatch
<1>10. Attempts'
  BY <1>3, SMTT(30) DEF CmInv, Attempts
<1>11. OwnedAreOver'
  BY <1>3 DEF CmInv, OwnedAreOver, Pending
<1>12. StrandedListen'
  BY <1>4, <1>5, CmConstants DEF CmInv, CmTypeOK, StrandedListen
<1> QED
  BY <1>2, <1>9, <1>10, <1>11, <1>12 DEF CmInv

\* Every call and every callback of the connection manager keeps the invariant.
LEMMA CmInvStep == CmInv /\ [CmNext]_cmVars => CmInv'
<1> SUFFICES ASSUME CmInv, [CmNext]_cmVars PROVE CmInv'
  OBVIOUS
<1>1. ASSUME NEW c \in Conns, Established(c) PROVE CmInv'
  <2>1. PICK port \in PortsOf(c) :
          /\ Forget(c, port, "established")
          /\ Resolve(TakeReceptable(c, port))
          /\ owner' = [owner EXCEPT ![c] = TakeReceptable(c, port)]
    BY <1>1, ZenonT(40) DEF Established
  <2>2. TakeReceptable(c, port) \in Callers \cup {None}
    BY DEF TakeReceptable, PortsOf, CmInv, CmTypeOK
  <2> QED
    BY <1>1, <2>1, <2>2, EndKeeps DEF Established, CmInv, CmTypeOK
<1>2. ASSUME NEW c \in Conns, Failure(c) PROVE CmInv'
  BY <1>2, EndKeeps DEF Failure, CmInv, CmTypeOK
<1>3. CASE UNCHANGED cmVars
  BY <1>3 DEF cmVars, CmInv, CmTypeOK, ReceptablesMatch, Attempts, OwnedAreOver, StrandedListen
<1> QED
  BY SMTT(30), <1>1, <1>2, <1>3, ConnectKeeps, ListenKeeps, RequestKeeps, CloseKeeps,
     SMTT(30) DEF CmNext

\* The invariant of the connection manager holds from the beginning.
LEMMA CmInvariant == CmSpec => []CmInv
  BY CmInvInit, CmInvStep, PTL DEF CmSpec

\* ReceptablesMatch holds throughout: where a connection callback looks for a
\* receptable there is one of a fiber that waits for it, for any number of fibers,
\* ports and connections.
THEOREM ReceptablesAlwaysMatch == CmSpec => []ReceptablesMatch
<1>1. CmInv => ReceptablesMatch
  BY DEF CmInv
<1> QED
  BY <1>1, CmInvariant, PTL

\* Delivered holds of every step: a callback resumes nobody but the fiber whose
\* connection it is, or the one that listens to its port.
THEOREM DeliveredToOwner == CmSpec => Delivered
<1> DEFINE Step ==
      \A f \in Callers, c \in Conns :
         /\ conn[c].phase \in Pending /\ conn'[c].phase \notin Pending
         /\ call'[f] # call[f] /\ ~mixed
         => Own(c, f)
<1>1. CmInv /\ [CmNext]_cmVars => [Step]_cmVars
  <2> SUFFICES ASSUME CmInv, CmNext, NEW f \in Callers, NEW c \in Conns,
                      conn[c].phase \in Pending, conn'[c].phase \notin Pending,
                      call'[f] # call[f], ~mixed
               PROVE  Own(c, f)
    BY SMTT(30)
  <2>1. PICK d \in Conns :
          \/ Established(d) \/ Failure(d) \/ Disconnected(d) \/ Drop(d)
          \/ \E p \in Ports : Request(d, p)
          \/ \E g \in Callers : Connect(g, d)
          \/ \E g \in Callers, p \in Ports : Listen(g, p)
    BY DEF CmNext
  <2>2. d = c /\ (Established(c) \/ Failure(c))
    BY <2>1, SMTT(30) DEF Established, Failure, Disconnected, Drop, Request, Connect, Listen,
       Forget, CmInv, CmTypeOK, Pending
  <2>3. PICK port \in PortsOf(c) : Resolve(TakeReceptable(c, port))
    BY <2>2 DEF Established, Failure
  <2>4. f = TakeReceptable(c, port)
    BY <2>3 DEF Resolve, CmInv, CmTypeOK
  <2>5. f # None
    BY CmConstants
  <2>6. CASE role = "client"
    BY <2>4, <2>6 DEF TakeReceptable, Own, CmInv, Attempts, Pending
  <2>7. CASE role = "server" /\ port # None
    <3>1. conn[c].phase = "accepted" /\ conn[c].port # None
      BY <2>7 DEF CmInv, Attempts, Pending
    <3>2. port = conn[c].port /\ port \in Ports
      BY <2>7, <3>1 DEF PortsOf, CmInv, CmTypeOK
    <3> QED
      BY <2>4, <2>7, <3>1, <3>2 DEF TakeReceptable, Own, CmInv, ReceptablesMatch
  <2> QED
    BY <2>4, <2>5, <2>6, <2>7 DEF TakeReceptable
<1> QED
  BY <1>1, CmInvariant, PTL DEF CmSpec, Delivered
=============================================================================
