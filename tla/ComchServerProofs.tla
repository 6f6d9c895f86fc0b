-------------------------- MODULE ComchServerProofs --------------------------
(***************************************************************************)
(* Proofs about ComchServer for any set of connections and children.       *)
(*                                                                         *)
(* TypeOK, RegistriesAgree, ServerStopsLast and NoAwaiterLeft form an      *)
(* inductive invariant whatever DOCA and the clients do, once it is added  *)
(* that a walk of stop() at its end has nothing before it.  The order in   *)
(* which the hierarchy stops rests on it, and so does that every wait has  *)
(* a cause.                                                                *)
(***************************************************************************)
EXTENDS ComchServer, TLAPS

\* stop() walks only after the request, and an end iterator has nothing before it.
WalksEnd ==
    /\ walks # <<>> => stopRequested
    /\ \A i \in DOMAIN walks : walks[i].next = None => walks[i].ahead = {}

IInv == TypeOK /\ RegistriesAgree /\ ServerStopsLast /\ NoAwaiterLeft /\ WalksEnd

Walks == [next : Connections \cup {None}, ahead : SUBSET Connections, awake : BOOLEAN]

\* The walks of stop().
WalksOK ==
    /\ walks \in Seq(Walks)
    /\ lost \in BOOLEAN
    /\ crashed \in BOOLEAN
    /\ WalksEnd

-----------------------------------------------------------------------------
(* Walks *)

\* A walk before the others.
LEMMA Pushed ==
    ASSUME NEW W, NEW ws \in Seq(W), NEW w \in W
    PROVE  /\ <<w>> \o ws \in Seq(W)
           /\ <<w>> \o ws # <<>>
           /\ Head(<<w>> \o ws) = w
           /\ DOMAIN (<<w>> \o ws) = 1 .. Len(ws) + 1
           /\ (<<w>> \o ws)[1] = w
           /\ \A i \in 1 .. Len(ws) : (<<w>> \o ws)[i + 1] = ws[i]
           /\ \A i \in 2 .. Len(ws) + 1 : (<<w>> \o ws)[i] = ws[i - 1] /\ i - 1 \in DOMAIN ws
OBVIOUS

\* The walks but for the innermost.
LEMMA Popped ==
    ASSUME NEW W, NEW ws \in Seq(W), ws # <<>>
    PROVE  /\ Tail(ws) \in Seq(W)
           /\ Head(ws) = ws[1]
           /\ Head(ws) \in W
           /\ 1 \in DOMAIN ws
           /\ Len(Tail(ws)) = Len(ws) - 1
           /\ \A i \in DOMAIN Tail(ws) : i + 1 \in DOMAIN ws /\ Tail(ws)[i] = ws[i + 1]
           /\ \A i \in DOMAIN ws : i # 1 => i - 1 \in DOMAIN Tail(ws) /\ Tail(ws)[i - 1] = ws[i]
OBVIOUS

\* A new walk, or the innermost with its iterator elsewhere.
LEMMA WalkPut ==
    ASSUME WalksOK, NEW ws \in Seq(Walks),
           \A i \in DOMAIN ws : ws[i].next = None => ws[i].ahead = {},
           NEW w \in Walks, w.next = None => w.ahead = {}, walks' = <<w>> \o ws,
           stopRequested' = TRUE, lost' \in BOOLEAN, crashed' \in BOOLEAN
    PROVE  WalksOK'
<1>1. walks' \in Seq(Walks) /\ walks' # <<>>
  BY Pushed
<1>2. ASSUME NEW i \in DOMAIN walks', walks'[i].next = None PROVE walks'[i].ahead = {}
  <2>1. CASE i = 1
    BY <1>2, <2>1, Pushed
  <2>2. CASE i # 1
    <3>1. i \in 2 .. Len(ws) + 1
      BY <1>2, <2>2, Pushed
    <3>2. walks'[i] = ws[i - 1] /\ i - 1 \in DOMAIN ws
      BY <3>1, Pushed
    <3> QED BY <1>2, <3>2
  <2> QED BY <2>1, <2>2
<1> QED BY <1>1, <1>2 DEF WalksOK, WalksEnd

\* The walks that are left have the property of all.
LEMMA TailEnds ==
    ASSUME WalksOK, walks # <<>>
    PROVE  /\ Tail(walks) \in Seq(Walks)
           /\ \A i \in DOMAIN Tail(walks) : Tail(walks)[i].next = None => Tail(walks)[i].ahead = {}
BY Popped DEF WalksOK, WalksEnd

\* The connections behind an iterator are known, whichever comes next.
LEMMA FirstOf ==
    ASSUME ServerConstants, NEW kids \in SUBSET Connections, NEW next \in First(kids),
           NEW awake \in BOOLEAN
    PROVE  /\ Walk(next, kids \ {next}, awake) \in Walks
           /\ next = None => kids \ {next} = {}
           /\ Walk(next, kids \ {next}, awake).next = next
           /\ Walk(next, kids \ {next}, awake).ahead = kids \ {next}
<1>1. next \in Connections \cup {None} /\ (next = None => kids = {})
  BY DEF First, ServerConstants
<1> QED BY <1>1 DEF Walk, Walks

\* Every step keeps the walks in order.
LEMMA NextWalks ==
    ASSUME ServerConstants, WalksOK, open \in SUBSET Connections,
           stopRequested \in BOOLEAN, [Next]_vars
    PROVE  WalksOK'
<1>a. ASSUME UNCHANGED <<stopRequested, walkVars>> PROVE WalksOK'
  BY <1>a DEF WalksOK, WalksEnd, walkVars
<1>1. ASSUME Stop PROVE WalksOK'
  <2>1. PICK next \in First(open) : walks' = <<Walk(next, open \ {next}, FALSE)>> \o walks
    BY <1>1 DEF Stop
  <2>2. stopRequested' = TRUE /\ lost' = lost /\ crashed' = crashed
    BY <1>1 DEF Stop
  <2>3. /\ walks \in Seq(Walks)
        /\ \A i \in DOMAIN walks : walks[i].next = None => walks[i].ahead = {}
        /\ lost \in BOOLEAN /\ crashed \in BOOLEAN
    BY DEF WalksOK, WalksEnd
  <2> DEFINE w == Walk(next, open \ {next}, FALSE)
  <2>4. w \in Walks /\ w.next = next /\ w.ahead = open \ {next}
    BY <2>1, FirstOf
  <2>5. w.next = None => w.ahead = {}
    <3>1. next = None => open \ {next} = {}
      BY <2>1, FirstOf
    <3> QED BY <2>4, <3>1
  <2> QED BY <2>1, <2>2, <2>3, <2>4, <2>5, WalkPut
<1>2. ASSUME StopRound PROVE WalksOK'
  <2> DEFINE rest == Head(walks).ahead \cap open
  <2>1. PICK next \in First(rest), awake \in BOOLEAN :
          /\ walks' = <<Walk(next, rest \ {next}, awake)>> \o Tail(walks)
          /\ crashed' \in BOOLEAN
    BY <1>2 DEF StopRound, WalksOK
  <2>2. walks # <<>> /\ stopRequested' = stopRequested /\ lost' = lost
    BY <1>2 DEF StopRound, WalkRuns
  <2>3. stopRequested' = TRUE /\ lost' \in BOOLEAN
    BY <2>2 DEF WalksOK, WalksEnd
  <2>4. rest \in SUBSET Connections
    OBVIOUS
  <2> HIDE DEF rest
  <2>5. Walk(next, rest \ {next}, awake) \in Walks
    BY <2>1, <2>4, FirstOf
  <2>6. Walk(next, rest \ {next}, awake).next = None => Walk(next, rest \ {next}, awake).ahead = {}
    BY <2>1, <2>4, FirstOf
  <2> QED BY <2>1, <2>2, <2>3, <2>5, <2>6, TailEnds, WalkPut
<1>3. ASSUME StopAstray PROVE WalksOK'
  <2>1. walks # <<>> /\ stopRequested' = stopRequested /\ lost' = TRUE
    BY <1>3 DEF StopAstray, WalkRuns
  <2>2. stopRequested' = TRUE
    BY <2>1 DEF WalksOK, WalksEnd
  <2>3. CASE crashed' = TRUE /\ UNCHANGED walks
    BY <2>1, <2>2, <2>3 DEF WalksOK, WalksEnd
  <2>4. CASE /\ \E next \in open \cup {None}, ahead \in SUBSET open :
                   walks' = <<Walk(next, IF next = None THEN {} ELSE ahead \ {next}, FALSE)>>
                            \o Tail(walks)
             /\ UNCHANGED crashed
    <3>1. PICK next \in open \cup {None}, ahead \in SUBSET open :
            walks' = <<Walk(next, IF next = None THEN {} ELSE ahead \ {next}, FALSE)>> \o Tail(walks)
      BY <2>4
    <3> DEFINE w == Walk(next, IF next = None THEN {} ELSE ahead \ {next}, FALSE)
    <3>2. w \in Walks /\ (w.next = None => w.ahead = {})
      BY <3>1 DEF Walk, Walks
    <3>3. walks' = <<w>> \o Tail(walks)
      BY <3>1
    <3>4. lost' \in BOOLEAN /\ crashed' \in BOOLEAN
      BY <2>1, <2>4 DEF WalksOK
    <3> HIDE DEF w
    <3> QED BY <2>1, <2>2, <3>2, <3>3, <3>4, TailEnds, WalkPut
  <2> QED BY <1>3, <2>3, <2>4 DEF StopAstray
<1>4. ASSUME StopEnd PROVE WalksOK'
  <2>1. /\ walks # <<>> /\ walks' = Tail(walks)
        /\ stopRequested' = stopRequested /\ lost' = lost /\ crashed' \in BOOLEAN
    BY <1>4 DEF StopEnd, WalkRuns
  <2> QED BY <2>1, TailEnds DEF WalksOK, WalksEnd
<1>5. ASSUME Suspend PROVE WalksOK'
  <2>1. /\ walks # <<>> /\ walks' = [walks EXCEPT ![1].awake = FALSE]
        /\ stopRequested' = stopRequested /\ lost' = lost /\ crashed' = crashed
    BY <1>5 DEF Suspend
  <2>2. 1 \in DOMAIN walks /\ walks[1] \in Walks /\ DOMAIN walks' = DOMAIN walks
    BY <2>1, Popped DEF WalksOK
  <2>3. walks' \in Seq(Walks) /\ walks' # <<>>
    <3>1. [walks[1] EXCEPT !.awake = FALSE] \in Walks
      BY <2>2 DEF Walks
    <3> QED BY <2>1, <2>2, <3>1 DEF WalksOK
  <2>4. \A i \in DOMAIN walks : walks'[i].next = walks[i].next /\ walks'[i].ahead = walks[i].ahead
    BY <2>1, <2>2 DEF WalksOK, Walks
  <2> QED BY <2>1, <2>2, <2>3, <2>4 DEF WalksOK, WalksEnd
<1>6. ASSUME \/ AwaitAccept \/ AwaitStop \/ ServerIdle \/ UNCHANGED vars
             \/ \E c \in Connections : \/ Accept(c) \/ Receive(c) \/ Supply(c) \/ AwaitDisconnect(c)
                                       \/ Disconnect(c) \/ ConnectionEvent(c)
                                       \/ DisconnectionEvent(c)
             \/ \E k \in Children : CreateChild(k) \/ StopChild(k) \/ ChildIdle(k)
      PROVE  WalksOK'
  BY <1>6, <1>a DEF AwaitAccept, AwaitStop, ServerIdle, vars, Accept, Receive, Supply,
                    AwaitDisconnect, Disconnect, ConnectionEvent, DisconnectionEvent, CreateChild,
                    StopChild, ChildIdle, walkVars
<1> QED BY <1>1, <1>2, <1>3, <1>4, <1>5, <1>6 DEF Next

-----------------------------------------------------------------------------
(* The invariant *)

\* The connections and children, as far as disconnect() touches them.
ConnectionsOK ==
    /\ open \in SUBSET Connections
    /\ state \in [Connections -> {"none", "connected", "disconnecting", "disconnected"}]
    /\ active \in SUBSET Children
    /\ child \in [Children -> {"none", "running", "stopping", "idle"}]
    /\ goneAwaiter \in [Connections -> {"none", "suspended"}]
    /\ receiving \in SUBSET open
    /\ RegistriesAgree
    /\ \A c \in Connections : goneAwaiter[c] = "suspended" => state[c] = "disconnecting"

\* disconnect() of a connected connection, with the signals it causes, keeps
\* registries and awaiters in order.
LEMMA DisconnectingKeeps ==
    ASSUME ConnectionsOK,
           NEW d \in Connections, state[d] = "connected",
           NEW sync, NEW refused, NEW gone,
           Disconnecting(d, sync, refused, gone),
           SignalDisconnect(gone)
    PROVE  ConnectionsOK'
<1> DEFINE asked == {k \in active : ParentOf[k] = d /\ child[k] = "running"}
<1>0. asked = {k \in Of(active, d) : child[k] = "running"}
  BY DEF Of
<1>1. /\ sync \subseteq asked
      /\ gone \subseteq {d}
      /\ active' = active \ sync
      /\ child' = [k \in Children |->
                     IF k \in sync THEN "idle"
                     ELSE IF k \in asked \ refused THEN "stopping" ELSE child[k]]
      /\ state' = [state EXCEPT ![d] = IF gone = {} THEN "disconnecting" ELSE "disconnected"]
      /\ open' = open \ gone
      /\ receiving' = receiving \ gone
      /\ goneAwaiter' = [c \in Connections |->
                           IF c \in gone THEN Woken(goneAwaiter[c]) ELSE goneAwaiter[c]]
  BY <1>0 DEF Disconnecting, SignalDisconnect
<1> HIDE DEF asked
<1>4. /\ open' \in SUBSET Connections
      /\ active' \in SUBSET Children
      /\ state' \in [Connections -> {"none", "connected", "disconnecting", "disconnected"}]
      /\ child' \in [Children -> {"none", "running", "stopping", "idle"}]
      /\ goneAwaiter' \in [Connections -> {"none", "suspended"}]
      /\ receiving' \in SUBSET open'
  BY <1>1 DEF ConnectionsOK, Woken
<1>5. open' = {c \in Connections : state'[c] \in {"connected", "disconnecting"}}
  BY <1>1 DEF ConnectionsOK, RegistriesAgree
<1>6. active' = {k \in Children : child'[k] \in {"running", "stopping"}}
  BY <1>1 DEF ConnectionsOK, RegistriesAgree, asked
<1>7. \A c \in Connections : goneAwaiter'[c] = "suspended" => state'[c] = "disconnecting"
  BY <1>1 DEF ConnectionsOK, Woken
<1> QED BY <1>4, <1>5, <1>6, <1>7 DEF ConnectionsOK, RegistriesAgree

\* The end of a child, with all that follows from it, keeps registries and
\* awaiters in order.
LEMMA ChildGoneKeeps ==
    ASSUME ConnectionsOK, ServerConstants, NEW k \in Children,
           child[k] \in {"running", "stopping"}, ChildGone(k)
    PROVE  ConnectionsOK'
<1> DEFINE c == ParentOf[k]
<1>0. c \in Connections
  BY DEF ServerConstants
<1>1. /\ child' = [child EXCEPT ![k] = "idle"]
      /\ active' = active \ {k}
  BY DEF ChildGone
<1>2. active' = {j \in Children : child'[j] \in {"running", "stopping"}}
  BY <1>1 DEF ConnectionsOK, RegistriesAgree
<1>4. CASE /\ state[c] = "disconnecting"
           /\ state' = [state EXCEPT ![c] = "disconnected"]
           /\ SignalDisconnectAndStop({c})
  BY <1>0, <1>1, <1>2, <1>4
     DEF SignalDisconnectAndStop, SignalDisconnect, ConnectionsOK, RegistriesAgree, Woken
<1>5. CASE UNCHANGED state /\ SignalDisconnectAndStop({})
  <2>1. open' = open /\ goneAwaiter' = goneAwaiter /\ receiving' = receiving
    BY <1>5 DEF SignalDisconnectAndStop, SignalDisconnect, ConnectionsOK
  <2> QED BY <1>1, <1>2, <1>5, <2>1 DEF ConnectionsOK, RegistriesAgree
<1> QED BY <1>4, <1>5 DEF ChildGone
\* The server and its awaiter.
ServerOK ==
    /\ server \in {"running", "stopping", "idle"}
    /\ stopRequested \in BOOLEAN
    /\ stopAwaiter \in {"none", "suspended"}
    /\ accepting \in BOOLEAN
    /\ stopRefused \in BOOLEAN
    /\ ServerStopsLast
    /\ accepting => server # "idle"
    /\ stopAwaiter = "suspended" => stopRequested /\ server # "idle"

\* do_stop_if_able on a server that was asked to stop.
LEMMA DoStopKeeps ==
    ASSUME ServerOK, stopRequested' = TRUE, open' \subseteq open, DoStopIfAble(open')
    PROVE  ServerOK'
BY Zenon DEF ServerOK, ServerStopsLast, DoStopIfAble, GoIdle, serverVars, Woken

\* The same, from the signals of connections.
LEMMA SignalKeeps ==
    ASSUME ServerOK, stopRequested' = stopRequested, NEW gone,
           SignalDisconnectAndStop(gone)
    PROVE  ServerOK'
<1>1. open' = open \ gone
  BY DEF SignalDisconnectAndStop, SignalDisconnect
<1>2. CASE stopRequested /\ gone # {}
  <2>1. DoStopIfAble(open')
    BY <1>1, <1>2 DEF SignalDisconnectAndStop
  <2> QED BY <1>1, <1>2, <2>1, DoStopKeeps
<1>3. CASE ~(stopRequested /\ gone # {})
  BY <1>1, <1>3 DEF SignalDisconnectAndStop, ServerOK, ServerStopsLast, serverVars
<1> QED BY <1>2, <1>3

\* The invariant by the part of the state its conjuncts read.
LEMMA Split ==
    IInv <=> ConnectionsOK /\ ServerOK /\ WalksOK /\ accepted \in SUBSET Connections
BY DEF IInv, TypeOK, NoAwaiterLeft, ConnectionsOK, ServerOK, WalksOK, Walks

\* The same of the next state.
LEMMA SplitNext ==
    IInv' <=> ConnectionsOK' /\ ServerOK' /\ WalksOK' /\ accepted' \in SUBSET Connections
BY DEF IInv, TypeOK, NoAwaiterLeft, ConnectionsOK, ServerOK, WalksOK, Walks

\* A server that has just been created has no connections.
LEMMA InitIInv == Init => IInv
<1> SUFFICES ASSUME Init PROVE IInv
  OBVIOUS
<1>1. TypeOK
  <2>1. walks \in Seq(Walks)
    BY DEF Init
  <2> QED BY Zenon, <2>1 DEF Init, TypeOK, Walks
<1>2. RegistriesAgree
  <2>1. open = {} /\ active = {}
    BY DEF Init
  <2>2. {c \in Connections : state[c] \in {"connected", "disconnecting"}} = {}
    BY DEF Init
  <2>3. {k \in Children : child[k] \in {"running", "stopping"}} = {}
    BY DEF Init
  <2> QED BY <2>1, <2>2, <2>3 DEF RegistriesAgree
<1>3. ServerStopsLast /\ NoAwaiterLeft /\ WalksEnd
  BY DEF Init, ServerStopsLast, NoAwaiterLeft, WalksEnd
<1> QED BY <1>1, <1>2, <1>3 DEF IInv

\* One step per callback and operation of server and server_connection.
LEMMA NextIInv ==
    ASSUME ServerConstants, IInv, [Next]_vars
    PROVE  IInv'
<1>0. /\ ConnectionsOK /\ ServerOK /\ accepted \in SUBSET Connections
      /\ WalksOK'
  <2>1. ConnectionsOK /\ ServerOK /\ WalksOK /\ accepted \in SUBSET Connections
    BY Split
  <2>2. open \in SUBSET Connections /\ stopRequested \in BOOLEAN
    BY <2>1 DEF ConnectionsOK, ServerOK
  <2> QED BY <2>1, <2>2, NextWalks
<1>a. ASSUME UNCHANGED <<state, active, child, endVars>>
      PROVE  ConnectionsOK'
  BY <1>0, <1>a DEF ConnectionsOK, RegistriesAgree, endVars
<1>b. ASSUME UNCHANGED <<stopRequested, open, serverVars>>
      PROVE  ServerOK'
  BY <1>0, <1>b DEF ServerOK, ServerStopsLast, serverVars
<1>1. ASSUME NEW c \in Connections, Accept(c) PROVE IInv'
  <2>1. open' = open
    BY <1>1 DEF Accept, endVars
  <2> QED BY <1>0, <1>1, <1>a, <1>b, <2>1, SplitNext DEF Accept, Queued
<1>2. ASSUME NEW c \in Connections, Disconnect(c) PROVE IInv'
  <2>1. PICK sync \in SUBSET Of(active, c), refused \in SUBSET Faults, gone \in SUBSET {c} :
          /\ Disconnecting(c, sync, refused, gone)
          /\ SignalDisconnectAndStop(gone)
    BY <1>2 DEF Disconnect
  <2>2. state[c] = "connected" /\ stopRequested' = stopRequested /\ accepted' = accepted
    BY <1>2 DEF Disconnect
  <2>3. SignalDisconnect(gone)
    BY <2>1 DEF SignalDisconnectAndStop
  <2>4. ConnectionsOK'
    BY <1>0, <2>1, <2>2, <2>3, DisconnectingKeeps
  <2>5. ServerOK'
    BY <1>0, <2>1, <2>2, SignalKeeps
  <2> QED BY <1>0, <2>2, <2>4, <2>5, SplitNext
<1>3. ASSUME NEW c \in Connections, AwaitDisconnect(c) PROVE IInv'
  <2>1. ConnectionsOK'
    BY <1>0, <1>3 DEF AwaitDisconnect, ConnectionsOK, RegistriesAgree
  <2> QED BY <1>0, <1>3, <1>b, <2>1, SplitNext DEF AwaitDisconnect
<1>4. ASSUME NEW c \in Connections, ConnectionEvent(c) PROVE IInv'
  <2>1. ConnectionsOK'
    BY <1>0, <1>4 DEF ConnectionEvent, ConnectionsOK, RegistriesAgree
  <2>2. ServerOK'
    BY Zenon, <1>0, <1>4 DEF ConnectionEvent, ServerOK, ServerStopsLast
  <2>3. accepted' \in SUBSET Connections
    BY <1>0, <1>4 DEF ConnectionEvent
  <2> QED BY <1>0, <2>1, <2>2, <2>3, SplitNext
<1>5. ASSUME NEW c \in Connections, DisconnectionEvent(c) PROVE IInv'
  <2>1. ConnectionsOK'
    BY <1>0, <1>5 DEF DisconnectionEvent, SignalDisconnectAndStop, SignalDisconnect,
                      ConnectionsOK, RegistriesAgree, Woken, Known
  <2>2. ServerOK'
    BY <1>0, <1>5, SignalKeeps DEF DisconnectionEvent
  <2> QED BY <1>0, <1>5, <2>1, <2>2, SplitNext DEF DisconnectionEvent
<1>6. ASSUME NEW k \in Children, CreateChild(k) PROVE IInv'
  <2>1. ConnectionsOK'
    BY <1>0, <1>6 DEF CreateChild, ConnectionsOK, RegistriesAgree, endVars
  <2> QED BY <1>0, <1>6, <1>b, <2>1, SplitNext DEF CreateChild, endVars
<1>c. ASSUME NEW k \in Children, child[k] \in {"running", "stopping"}, ChildGone(k),
             UNCHANGED <<stopRequested, accepted>>
      PROVE  IInv'
  <2>1. ServerOK'
    BY <1>0, <1>c, SignalKeeps DEF ChildGone
  <2> QED BY <1>0, <1>c, <2>1, ChildGoneKeeps, SplitNext
<1>7. ASSUME NEW k \in Children, StopChild(k) PROVE IInv'
  <2>1. CASE ChildGone(k)
    BY <1>7, <1>c, <2>1 DEF StopChild
  <2>2. CASE /\ child' = [child EXCEPT ![k] = "stopping"]
             /\ UNCHANGED <<state, active, serverVars, endVars>>
    <3>1. ConnectionsOK'
      BY <1>0, <1>7, <2>2 DEF StopChild, ConnectionsOK, RegistriesAgree, endVars
    <3> QED BY <1>0, <1>7, <1>b, <2>2, <3>1, SplitNext DEF StopChild, endVars
  <2> QED BY <1>7, <2>1, <2>2 DEF StopChild
<1>8. ASSUME NEW k \in Children, ChildIdle(k) PROVE IInv'
  BY <1>8, <1>c DEF ChildIdle
<1>9. ASSUME Stop PROVE IInv'
  <2>1. /\ UNCHANGED <<state, active, child, endVars, accepted, serverVars>>
        /\ stopRequested' = TRUE
    BY <1>9 DEF Stop
  <2>2. ServerOK'
    BY <1>0, <2>1 DEF ServerOK, ServerStopsLast, serverVars, endVars
  <2> QED BY <1>0, <1>a, <2>1, <2>2, SplitNext
<1>15. ASSUME StopRound PROVE IInv'
  <2> DEFINE c == Head(walks).next
  <2>1. c \in Connections /\ stopRequested' = stopRequested /\ accepted' = accepted
    BY <1>0, <1>15 DEF StopRound, ConnectionsOK
  <2>2. CASE UNCHANGED <<state, active, child, serverVars, endVars>>
    <3>1. ConnectionsOK' /\ open' = open
      BY <1>a, <2>2 DEF endVars
    <3> QED BY <1>0, <1>b, <2>1, <2>2, <3>1, SplitNext
  <2>3. CASE /\ state[c] = "connected"
             /\ \E sync \in SUBSET Of(active, c), refused \in SUBSET Faults,
                gone \in SUBSET {c} :
                  Disconnecting(c, sync, refused, gone) /\ SignalDisconnectAndStop(gone)
    <3>1. PICK sync, refused, gone :
            Disconnecting(c, sync, refused, gone) /\ SignalDisconnectAndStop(gone)
      BY <2>3
    <3>2. SignalDisconnect(gone)
      BY <3>1 DEF SignalDisconnectAndStop
    <3>3. ServerOK'
      BY <1>0, <2>1, <3>1, SignalKeeps
    <3> HIDE DEF c
    <3>4. ConnectionsOK'
      BY <1>0, <2>1, <2>3, <3>1, <3>2, DisconnectingKeeps
    <3> QED BY <1>0, <2>1, <3>3, <3>4, SplitNext
  <2> QED BY <1>15, <2>2, <2>3 DEF StopRound
<1>16. ASSUME StopEnd PROVE IInv'
  <2>1. UNCHANGED <<state, active, child, endVars, accepted>>
    BY <1>16 DEF StopEnd
  <2>2. ServerOK'
    <3>1. stopRequested' = TRUE
      BY <1>16, Split DEF StopEnd, WalkRuns, WalksOK, WalksEnd
    <3>2. open' = open /\ DoStopIfAble(open')
      BY <1>16 DEF StopEnd, endVars
    <3> QED BY <1>0, <3>1, <3>2, DoStopKeeps
  <2> QED BY <1>0, <1>a, <2>1, <2>2, SplitNext
<1>17. ASSUME StopAstray \/ Suspend PROVE IInv'
  <2>1. UNCHANGED <<stopRequested, state, accepted, active, child, serverVars, endVars>>
    BY <1>17 DEF StopAstray, Suspend
  <2>2. open' = open
    BY <2>1 DEF endVars
  <2> QED BY <1>0, <1>a, <1>b, <2>1, <2>2, SplitNext
<1>10. ASSUME AwaitStop PROVE IInv'
  <2>1. ServerOK'
    BY <1>0, <1>10 DEF AwaitStop, ServerOK, ServerStopsLast, endVars
  <2> QED BY <1>0, <1>10, <1>a, <2>1, SplitNext DEF AwaitStop
<1>11. ASSUME ServerIdle PROVE IInv'
  <2>1. ServerOK'
    BY Zenon, <1>0, <1>11 DEF ServerIdle, GoIdle, ServerOK, ServerStopsLast, Woken, endVars
  <2> QED BY <1>0, <1>11, <1>a, <2>1, SplitNext DEF ServerIdle
<1>12. ASSUME UNCHANGED vars PROVE IInv'
  BY <1>0, <1>12, <1>a, <1>b, SplitNext DEF vars, serverVars, endVars
<1>13. ASSUME AwaitAccept PROVE IInv'
  <2>1. ServerOK'
    BY <1>0, <1>13 DEF AwaitAccept, ServerOK, ServerStopsLast, endVars
  <2> QED BY <1>0, <1>13, <1>a, <2>1, SplitNext DEF AwaitAccept
<1>14. ASSUME NEW c \in Connections, Receive(c) \/ Supply(c) PROVE IInv'
  <2>1. ConnectionsOK'
    BY <1>0, <1>14 DEF Receive, Supply, Known, ConnectionsOK, RegistriesAgree
  <2> QED BY <1>0, <1>14, <1>b, <2>1, SplitNext DEF Receive, Supply
<1> QED BY <1>1, <1>2, <1>3, <1>4, <1>5, <1>6, <1>7, <1>8, <1>9, <1>10, <1>11, <1>12,
           <1>13, <1>14, <1>15, <1>16, <1>17 DEF Next
\* The inductive invariant, for the theorems below.
THEOREM Invariant == Spec => []IInv
<1>1. Init => IInv
  BY InitIInv
<1>2. IInv /\ [Next]_vars => IInv'
  BY NextIInv, ServerConstants
<1> QED BY <1>1, <1>2, PTL DEF Spec

\* The state of server, connections and children keeps its types.
THEOREM TypeCorrect == Spec => []TypeOK
<1>1. IInv => TypeOK
  BY DEF IInv
<1> QED BY <1>1, Invariant, PTL

\* The registries hold exactly the connections that are not disconnected and
\* the children that are not idle.
THEOREM Registries == Spec => []RegistriesAgree
<1>1. IInv => RegistriesAgree
  BY DEF IInv
<1> QED BY <1>1, Invariant, PTL

\* The server context stops only when asked to and after its last connection.
THEOREM StopsLast == Spec => []ServerStopsLast
<1>1. IInv => ServerStopsLast
  BY DEF IInv
<1> QED BY <1>1, Invariant, PTL

\* No fiber stays suspended on a disconnect or stop that has happened, or on a
\* connection, message or remote consumer that cannot come any more.
THEOREM NobodyLeft == Spec => []NoAwaiterLeft
<1>1. IInv => NoAwaiterLeft
  BY DEF IInv
<1> QED BY <1>1, Invariant, PTL

-----------------------------------------------------------------------------
(* The order of the hierarchy *)

\* The part of ChildrenStopFirst about connections; the part about the server
\* follows from RegistriesAgree and ServerStopsLast.
ParentsThere ==
    \A k \in active : ParentOf[k] \notin RemoteDisconnects =>
        state[ParentOf[k]] \in {"connected", "disconnecting"}

\* disconnect_if_able keeps the order of the hierarchy: it disconnects with no
\* child left.
LEMMA DisconnectingOrder ==
    ASSUME ServerConstants, ConnectionsOK, ParentsThere, NEW d \in Connections,
           NEW sync, NEW refused, NEW gone, Disconnecting(d, sync, refused, gone)
    PROVE  ParentsThere'
<1>1. SUFFICES ASSUME NEW k \in active', ParentOf[k] \notin RemoteDisconnects
               PROVE  state'[ParentOf[k]] \in {"connected", "disconnecting"}
  BY DEF ParentsThere
<1>2. k \in active \ sync /\ k \in Children /\ ParentOf[k] \in Connections
  BY <1>1 DEF Disconnecting, ConnectionsOK, ServerConstants
<1>3. CASE ParentOf[k] = d
  <2>1. Of(active \ sync, d) # {}
    BY <1>2, <1>3 DEF Of
  <2>2. state' = [state EXCEPT ![d] = "disconnecting"]
    BY <2>1 DEF Disconnecting
  <2> QED BY <1>2, <1>3, <2>2 DEF ConnectionsOK
<1>4. CASE ParentOf[k] # d
  <2>1. state'[ParentOf[k]] = state[ParentOf[k]]
    BY <1>2, <1>4 DEF Disconnecting, ConnectionsOK
  <2> QED BY <1>1, <1>2, <2>1 DEF ParentsThere
<1> QED BY <1>3, <1>4

\* signal_stopped_child keeps it when it disconnects for the last child.
LEMMA ChildGoneOrder ==
    ASSUME ServerConstants, ConnectionsOK, ParentsThere, NEW k \in Children, ChildGone(k)
    PROVE  ParentsThere'
<1> DEFINE c == ParentOf[k]
<1>1. SUFFICES ASSUME NEW j \in active', ParentOf[j] \notin RemoteDisconnects
               PROVE  state'[ParentOf[j]] \in {"connected", "disconnecting"}
  BY DEF ParentsThere
<1>2. j \in active \ {k} /\ j \in Children /\ ParentOf[j] \in Connections
  BY <1>1 DEF ChildGone, ConnectionsOK, ServerConstants
<1>3. CASE Of(active \ {k}, c) = {} /\ state' = [state EXCEPT ![c] = "disconnected"]
  <2>1. ParentOf[j] # c
    BY <1>2, <1>3 DEF Of
  <2> QED BY <1>1, <1>2, <1>3, <2>1 DEF ParentsThere, ConnectionsOK
<1>4. CASE UNCHANGED state
  BY <1>1, <1>2, <1>4 DEF ParentsThere
<1> QED BY <1>3, <1>4 DEF ChildGone

\* Every step keeps it.
LEMMA NextOrder ==
    ASSUME ServerConstants, IInv, ParentsThere, [Next]_vars
    PROVE  ParentsThere'
<1>0. ConnectionsOK
  BY Split
<1>a. ASSUME UNCHANGED <<state, active>> PROVE ParentsThere'
  BY <1>a DEF ParentsThere
<1>1. ASSUME NEW c \in Connections, Disconnect(c) PROVE ParentsThere'
  <2>1. PICK sync, refused, gone : Disconnecting(c, sync, refused, gone)
    BY <1>1 DEF Disconnect
  <2> QED BY <1>0, <2>1, DisconnectingOrder
<1>2. ASSUME StopRound PROVE ParentsThere'
  <2> DEFINE c == Head(walks).next
  <2>1. \/ \E sync, refused, gone : Disconnecting(c, sync, refused, gone)
        \/ UNCHANGED <<state, active>>
    BY <1>2 DEF StopRound
  <2>2. c \in Connections
    BY <1>0, <1>2 DEF StopRound, ConnectionsOK
  <2> HIDE DEF c
  <2> QED BY <1>0, <1>a, <2>1, <2>2, DisconnectingOrder
<1>3. ASSUME NEW c \in Connections, ConnectionEvent(c) PROVE ParentsThere'
  BY <1>0, <1>3 DEF ConnectionEvent, ParentsThere, ConnectionsOK, ServerConstants
<1>4. ASSUME NEW k \in Children, CreateChild(k) PROVE ParentsThere'
  BY <1>0, <1>4 DEF CreateChild, ParentsThere, ConnectionsOK
<1>5. ASSUME NEW k \in Children, StopChild(k) PROVE ParentsThere'
  BY <1>0, <1>5, <1>a, ChildGoneOrder DEF StopChild
<1>6. ASSUME NEW k \in Children, ChildIdle(k) PROVE ParentsThere'
  BY <1>0, <1>6, ChildGoneOrder DEF ChildIdle
<1>7. ASSUME \/ AwaitAccept \/ AwaitStop \/ ServerIdle \/ UNCHANGED vars
             \/ Stop \/ StopAstray \/ StopEnd \/ Suspend
             \/ \E c \in Connections : Accept(c) \/ Receive(c) \/ Supply(c) \/ AwaitDisconnect(c)
      PROVE  ParentsThere'
  BY <1>7, <1>a DEF AwaitAccept, AwaitStop, ServerIdle, vars, Accept, Receive, Supply,
                    AwaitDisconnect, Stop, StopAstray, StopEnd, Suspend
<1>8. ASSUME NEW c \in Connections, DisconnectionEvent(c) PROVE ParentsThere'
  BY <1>0, <1>8 DEF DisconnectionEvent, ParentsThere, ConnectionsOK
<1> QED BY <1>1, <1>2, <1>3, <1>4, <1>5, <1>6, <1>7, <1>8 DEF Next

\* Consumers and producers stop before their connection and the server, unless
\* their client disconnects by itself.
THEOREM HierarchyOrder == Spec => []ChildrenStopFirst
<1>1. Init => ParentsThere
  BY DEF Init, ParentsThere
<1>2. IInv /\ ParentsThere /\ [Next]_vars => ParentsThere'
  BY NextOrder, ServerConstants
<1>3. IInv /\ ParentsThere => ChildrenStopFirst
  BY ServerConstants DEF IInv, ParentsThere, ChildrenStopFirst, RegistriesAgree,
                         ServerStopsLast, ServerConstants
<1> QED BY <1>1, <1>2, <1>3, Invariant, PTL DEF Spec
-----------------------------------------------------------------------------
(* Every wait has a cause *)

\* The two halves of WaitHasCause.
ConnectionWaits ==
    \A c \in Connections : Sound(c) /\ state[c] = "disconnecting" =>
        /\ Of(active, c) # {}
        /\ \A k \in Of(active, c) : child[k] = "stopping"

\* What some walk has yet to come to.
ToVisit(ws) == {c \in Connections :
                  \E i \in DOMAIN ws : c = ws[i].next \/ c \in ws[i].ahead}

ServerWaits ==
    stopRequested /\ server = "running" =>
        /\ open # {} \/ stopRefused \/ walks # <<>>
        /\ \A c \in open \ LateConnections :
             state[c] = "disconnecting" \/ c \in ToVisit(walks) \/ lost

\* A walk has to come to its next connection and those ahead, the others to what
\* they had to come to before.
LEMMA ToVisitPushed ==
    ASSUME NEW ws \in Seq(Walks), NEW w \in Walks
    PROVE  ToVisit(<<w>> \o ws) = ToVisit(ws) \cup ((w.ahead \cup {w.next}) \cap Connections)
<1> DEFINE us == <<w>> \o ws
<1>1. ASSUME NEW c \in ToVisit(us) PROVE c \in ToVisit(ws) \cup ((w.ahead \cup {w.next}) \cap Connections)
  <2>1. c \in Connections
    BY <1>1 DEF ToVisit
  <2>2. PICK i \in DOMAIN us : c = us[i].next \/ c \in us[i].ahead
    BY <1>1 DEF ToVisit
  <2>3. CASE i = 1
    BY <2>1, <2>2, <2>3, Pushed
  <2>4. CASE i # 1
    <3>1. i \in 2 .. Len(ws) + 1
      BY <2>2, <2>4, Pushed
    <3>2. us[i] = ws[i - 1] /\ i - 1 \in DOMAIN ws
      BY <3>1, Pushed
    <3> QED BY <2>1, <2>2, <3>2 DEF ToVisit
  <2> QED BY <2>3, <2>4
<1>2. ASSUME NEW c \in ToVisit(ws) PROVE c \in ToVisit(us)
  <2>1. c \in Connections
    BY <1>2 DEF ToVisit
  <2>2. PICK i \in DOMAIN ws : c = ws[i].next \/ c \in ws[i].ahead
    BY <1>2 DEF ToVisit
  <2>3. i \in 1 .. Len(ws) /\ i + 1 \in 1 .. Len(ws) + 1
    BY <2>2
  <2>4. us[i + 1] = ws[i] /\ i + 1 \in DOMAIN us
    BY <2>3, Pushed
  <2> HIDE DEF us
  <2> QED BY <2>1, <2>2, <2>4 DEF ToVisit
<1>3. ASSUME NEW c \in (w.ahead \cup {w.next}) \cap Connections PROVE c \in ToVisit(us)
  <2>1. us[1] = w /\ 1 \in DOMAIN us
    BY Pushed
  <2> HIDE DEF us
  <2> QED BY <1>3, <2>1 DEF ToVisit
<1> HIDE DEF us
<1>4. ToVisit(us) = ToVisit(ws) \cup ((w.ahead \cup {w.next}) \cap Connections)
  BY <1>1, <1>2, <1>3
<1> QED BY <1>4 DEF us

\* The innermost walk and the others.
LEMMA ToVisitSplit ==
    ASSUME NEW ws \in Seq(Walks), ws # <<>>
    PROVE  ToVisit(ws) =
             ToVisit(Tail(ws)) \cup ((Head(ws).ahead \cup {Head(ws).next}) \cap Connections)
<1>1. Tail(ws) \in Seq(Walks) /\ Head(ws) \in Walks
  BY Popped
<1>2. ws = <<Head(ws)>> \o Tail(ws)
  OBVIOUS
<1> QED BY <1>1, <1>2, ToVisitPushed

\* disconnect_if_able leaves no wait without a cause.
LEMMA DisconnectingCause ==
    ASSUME ConnectionsOK, ConnectionWaits,
           NEW d \in Connections, state[d] = "connected",
           NEW sync, NEW refused, NEW gone, Disconnecting(d, sync, refused, gone)
    PROVE  ConnectionWaits'
<1> DEFINE asked == {k \in active : ParentOf[k] = d /\ child[k] = "running"}
<1>0. asked = {k \in Of(active, d) : child[k] = "running"}
  BY DEF Of
<1>1. /\ sync \subseteq asked
      /\ refused \subseteq asked \cap Faults
      /\ Of(active \ sync, d) = {} => gone = {d} \/ d \in Faults
      /\ active' = active \ sync
      /\ child' = [k \in Children |->
                     IF k \in sync THEN "idle"
                     ELSE IF k \in asked \ refused THEN "stopping" ELSE child[k]]
      /\ state' = [state EXCEPT ![d] = IF gone = {} THEN "disconnecting" ELSE "disconnected"]
  BY <1>0 DEF Disconnecting
<1> HIDE DEF asked
<1>2. SUFFICES ASSUME NEW c \in Connections, Sound(c), state'[c] = "disconnecting"
               PROVE  /\ Of(active', c) # {}
                      /\ \A k \in Of(active', c) : child'[k] = "stopping"
  BY DEF ConnectionWaits, Of
<1>3. CASE c = d
  <2>1. Of(active', c) # {}
    BY <1>1, <1>2, <1>3 DEF Sound, ConnectionsOK
  <2>2. ASSUME NEW k \in Of(active', c) PROVE child'[k] = "stopping"
    <3>1. k \in Children /\ k \in active \ sync /\ ParentOf[k] = c
      BY <1>1, <2>2 DEF Of, ConnectionsOK
    <3>2. k \notin refused
      BY <1>1, <1>2, <3>1 DEF Sound, Of
    <3> QED BY <1>1, <1>3, <3>1, <3>2 DEF ConnectionsOK, RegistriesAgree, asked
  <2> QED BY <2>1, <2>2
<1>4. CASE c # d
  <2>1. state[c] = "disconnecting"
    BY <1>1, <1>2, <1>4 DEF ConnectionsOK
  <2>2. Of(active', c) = Of(active, c)
    BY <1>1, <1>4 DEF Of, asked
  <2>3. ASSUME NEW k \in Of(active', c) PROVE child'[k] = "stopping"
    <3>1. child[k] = "stopping" /\ k \in Children
      BY <1>2, <2>1, <2>2, <2>3 DEF ConnectionWaits, Of, ConnectionsOK
    <3> QED BY <1>1, <3>1 DEF asked
  <2> QED BY <1>2, <2>1, <2>2, <2>3 DEF ConnectionWaits
<1> QED BY <1>3, <1>4

\* Neither does signal_stopped_child.
LEMMA ChildGoneCause ==
    ASSUME ServerConstants, ConnectionsOK, ConnectionWaits, NEW k \in Children, ChildGone(k)
    PROVE  ConnectionWaits'
<1> DEFINE c == ParentOf[k]
<1>1. child' = [child EXCEPT ![k] = "idle"] /\ active' = active \ {k}
  BY DEF ChildGone
<1>2. c \in Connections
  BY DEF ServerConstants
<1>3. SUFFICES ASSUME NEW d \in Connections, Sound(d), state'[d] = "disconnecting"
               PROVE  /\ Of(active', d) # {}
                      /\ \A j \in Of(active', d) : child'[j] = "stopping"
  BY DEF ConnectionWaits, Of
<1>4. state[d] = "disconnecting" /\ (d = c => Of(active \ {k}, c) # {})
  BY <1>2, <1>3 DEF ChildGone, ConnectionsOK, Sound
<1>5. Of(active', d) # {}
  <2>1. CASE d = c
    BY <1>1, <1>4, <2>1
  <2>2. CASE d # c
    BY <1>1, <1>3, <1>4, <2>2 DEF ConnectionWaits, Of
  <2> QED BY <2>1, <2>2
<1>6. ASSUME NEW j \in Of(active', d) PROVE child'[j] = "stopping"
  <2>1. j \in Of(active, d) /\ j # k /\ j \in Children
    BY <1>1, <1>6 DEF Of, ConnectionsOK
  <2> QED BY <1>1, <1>3, <1>4, <2>1 DEF ConnectionWaits, ConnectionsOK
<1> QED BY <1>5, <1>6

\* The signals of connections that end keep the server's wait justified.
LEMMA SignalCause ==
    ASSUME ServerWaits, stopRequested' = stopRequested, NEW gone,
           SignalDisconnectAndStop(gone), UNCHANGED <<walks, lost>>,
           \A c \in open \ gone : state[c] = "disconnecting" => state'[c] = "disconnecting"
    PROVE  ServerWaits'
<1>1. open' = open \ gone
  BY DEF SignalDisconnectAndStop, SignalDisconnect
<1>2. SUFFICES ASSUME stopRequested, server' = "running"
               PROVE  /\ open' # {} \/ stopRefused' \/ walks' # <<>>
                      /\ \A c \in open' \ LateConnections :
                           state'[c] = "disconnecting" \/ c \in ToVisit(walks') \/ lost'
  BY DEF ServerWaits
<1>3. server = "running"
  BY <1>2 DEF SignalDisconnectAndStop, DoStopIfAble, GoIdle, serverVars
<1>4. open' # {} \/ stopRefused' \/ walks' # <<>>
  BY <1>1, <1>2, <1>3 DEF SignalDisconnectAndStop, DoStopIfAble, GoIdle, serverVars,
                          ServerWaits
<1> QED BY <1>1, <1>2, <1>3, <1>4 DEF ServerWaits

\* Nor does any other step.
LEMMA NextCause ==
    ASSUME ServerConstants, IInv, ConnectionWaits, ServerWaits, [Next]_vars
    PROVE  ConnectionWaits' /\ ServerWaits'
<1>0. ConnectionsOK /\ ServerOK /\ WalksOK
  BY Split
<1>a. ASSUME UNCHANGED <<state, active, child>> PROVE ConnectionWaits'
  BY <1>a DEF ConnectionWaits, Of
<1>b. ASSUME UNCHANGED <<stopRequested, server, stopRefused, open, state, walks, lost>>
      PROVE  ServerWaits'
  BY <1>b DEF ServerWaits
<1>1. ASSUME NEW c \in Connections, Disconnect(c) PROVE ConnectionWaits' /\ ServerWaits'
  <2>1. PICK sync, refused, gone : /\ Disconnecting(c, sync, refused, gone)
                                   /\ SignalDisconnectAndStop(gone)
    BY <1>1 DEF Disconnect
  <2>2. state[c] = "connected" /\ UNCHANGED <<stopRequested, walks, lost>>
    BY <1>1 DEF Disconnect, walkVars
  <2>3. ConnectionWaits'
    BY <1>0, <2>1, <2>2, DisconnectingCause
  <2>4. \A d \in open \ gone : state[d] = "disconnecting" => state'[d] = "disconnecting"
    BY <1>0, <2>1, <2>2 DEF Disconnecting, ConnectionsOK
  <2> QED BY <2>1, <2>2, <2>3, <2>4, SignalCause
<1>2. ASSUME Stop PROVE ConnectionWaits' /\ ServerWaits'
  <2>1. ConnectionWaits'
    BY <1>2, <1>a DEF Stop
  <2>2. PICK next \in First(open) : walks' = <<Walk(next, open \ {next}, FALSE)>> \o walks
    BY <1>2 DEF Stop
  <2>3. open' = open /\ open \in SUBSET Connections /\ walks \in Seq(Walks)
    BY <1>0, <1>2 DEF Stop, endVars, ConnectionsOK, WalksOK
  <2> DEFINE w == Walk(next, open \ {next}, FALSE)
  <2>4. w \in Walks /\ w.next = next /\ w.ahead = open \ {next}
    BY <2>2, <2>3, FirstOf
  <2>5. walks' = <<w>> \o walks
    BY <2>2
  <2> HIDE DEF w
  <2>6. walks' # <<>> /\ open \subseteq ToVisit(walks')
    BY <2>3, <2>4, <2>5, Pushed, ToVisitPushed
  <2> QED BY <2>1, <2>3, <2>6 DEF ServerWaits
<1>10. ASSUME StopRound PROVE ConnectionWaits' /\ ServerWaits'
  <2> DEFINE c == Head(walks).next
             rest == Head(walks).ahead \cap open
  <2>1. /\ c \in open /\ c \in Connections /\ walks # <<>> /\ walks \in Seq(Walks)
        /\ rest \in SUBSET Connections
        /\ UNCHANGED <<stopRequested, lost>>
    BY <1>0, <1>10 DEF StopRound, WalkRuns, ConnectionsOK, WalksOK
  <2>2. PICK next \in First(rest), awake \in BOOLEAN :
          walks' = <<Walk(next, rest \ {next}, awake)>> \o Tail(walks)
    BY <1>10 DEF StopRound
  <2>3. /\ ConnectionWaits'
        /\ open' \subseteq open
        /\ \A d \in open' : d = c \/ state[d] = "disconnecting" => state'[d] = "disconnecting"
        /\ server' = "running" => server = "running"
    <3>1. CASE /\ state[c] # "connected"
               /\ UNCHANGED <<state, active, child, serverVars, endVars>>
      <4>1. state[c] = "disconnecting"
        BY <1>0, <2>1, <3>1 DEF ConnectionsOK, RegistriesAgree
      <4> QED BY <1>a, <3>1, <4>1 DEF serverVars, endVars
    <3>2. CASE /\ state[c] = "connected"
               /\ \E sync \in SUBSET Of(active, c), refused \in SUBSET Faults,
                  gone \in SUBSET {c} :
                    Disconnecting(c, sync, refused, gone) /\ SignalDisconnectAndStop(gone)
      <4> HIDE DEF c
      <4>1. PICK sync, refused, gone :
              Disconnecting(c, sync, refused, gone) /\ SignalDisconnectAndStop(gone)
        BY <3>2
      <4>2. ConnectionWaits'
        BY <1>0, <2>1, <3>2, <4>1, DisconnectingCause
      <4>3. open' = open \ gone /\ gone \subseteq {c}
        BY <4>1 DEF SignalDisconnectAndStop, SignalDisconnect, Disconnecting
      <4>4. \A d \in open' : d = c \/ state[d] = "disconnecting" => state'[d] = "disconnecting"
        BY <1>0, <2>1, <4>1, <4>3 DEF Disconnecting, ConnectionsOK
      <4>5. server' = "running" => server = "running"
        BY <4>1 DEF SignalDisconnectAndStop, DoStopIfAble, GoIdle, serverVars
      <4> QED BY <4>2, <4>3, <4>4, <4>5
    <3> QED BY <1>10, <3>1, <3>2 DEF StopRound
  <2> DEFINE w == Walk(next, rest \ {next}, awake)
  <2>4. w \in Walks /\ w.next = next /\ w.ahead = rest \ {next} /\ (rest # {} => next \in rest)
    <3>0. rest \in SUBSET Connections /\ next \in First(rest) /\ awake \in BOOLEAN
      BY <2>1, <2>2
    <3> HIDE DEF rest
    <3>1. w \in Walks
      BY <3>0, FirstOf
    <3>2. w.next = next /\ w.ahead = rest \ {next}
      BY DEF Walk
    <3>3. rest # {} => next \in rest
      BY <2>2 DEF First
    <3> QED BY <3>1, <3>2, <3>3
  <2>5. walks' = <<w>> \o Tail(walks)
    BY <2>2
  <2> HIDE DEF w
  <2>6. Tail(walks) \in Seq(Walks) /\ walks' # <<>>
    BY <2>1, <2>4, <2>5, Pushed, Popped
  <2>7. /\ ToVisit(walks) = ToVisit(Tail(walks)) \cup ((Head(walks).ahead \cup {c}) \cap Connections)
        /\ ToVisit(walks') = ToVisit(Tail(walks)) \cup ((w.ahead \cup {w.next}) \cap Connections)
    BY <2>1, <2>4, <2>5, <2>6, ToVisitPushed, ToVisitSplit
  <2>8. \A d \in open : d \in ToVisit(walks) => d = c \/ d \in ToVisit(walks')
    BY <2>1, <2>4, <2>7
  <2> HIDE DEF c, rest
  <2> QED BY <2>1, <2>3, <2>6, <2>8 DEF ServerWaits
<1>11. ASSUME StopAstray PROVE ConnectionWaits' /\ ServerWaits'
  <2>1. lost' = TRUE /\ walks # <<>> /\ UNCHANGED <<state, active, child>>
    BY <1>11 DEF StopAstray, WalkRuns
  <2>2. walks' # <<>>
    <3>1. Tail(walks) \in Seq(Walks)
      BY <1>0, <2>1, Popped DEF WalksOK
    <3>2. \/ walks' = walks
          \/ \E next \in open \cup {None}, ahead \in SUBSET open :
               walks' = <<Walk(next, IF next = None THEN {} ELSE ahead \ {next}, FALSE)>>
                        \o Tail(walks)
      BY <1>11 DEF StopAstray
    <3>3. ASSUME NEW w PROVE <<w>> \o Tail(walks) # <<>>
      BY <3>1
    <3> QED BY <2>1, <3>2, <3>3
  <2> QED BY <1>a, <2>1, <2>2 DEF ServerWaits
<1>12. ASSUME StopEnd PROVE ConnectionWaits' /\ ServerWaits'
  <2>1. /\ walks # <<>> /\ Head(walks).next = None /\ walks' = Tail(walks)
        /\ DoStopIfAble(open)
        /\ UNCHANGED <<stopRequested, state, active, child, lost, open>>
    BY <1>12 DEF StopEnd, WalkRuns, endVars
  <2>2. Head(walks).ahead = {}
    BY <1>0, <2>1, Popped DEF WalksOK, WalksEnd
  <2>3. ToVisit(walks') = ToVisit(walks)
    <3>1. ToVisit(walks) =
            ToVisit(Tail(walks)) \cup ((Head(walks).ahead \cup {Head(walks).next}) \cap Connections)
      BY <1>0, <2>1, ToVisitSplit DEF WalksOK
    <3> QED BY <2>1, <2>2, <3>1 DEF ServerConstants
  <2>4. server' = "running" => server = "running" /\ (open # {} \/ stopRefused')
    BY <2>1 DEF DoStopIfAble, GoIdle, serverVars
  <2> QED BY <1>a, <2>1, <2>3, <2>4 DEF ServerWaits
<1>13. ASSUME Suspend PROVE ConnectionWaits' /\ ServerWaits'
  <2>1. /\ walks # <<>> /\ walks' = [walks EXCEPT ![1].awake = FALSE]
        /\ UNCHANGED <<stopRequested, state, active, child, lost, serverVars, open>>
    BY <1>13 DEF Suspend, endVars
  <2>2. 1 \in DOMAIN walks /\ walks[1] \in Walks /\ DOMAIN walks' = DOMAIN walks
    BY <1>0, <2>1, Popped DEF WalksOK
  <2>3. \A i \in DOMAIN walks : walks'[i].next = walks[i].next /\ walks'[i].ahead = walks[i].ahead
    BY <1>0, <2>1, <2>2 DEF WalksOK, Walks
  <2>4. ToVisit(walks') = ToVisit(walks)
    BY <2>2, <2>3 DEF ToVisit
  <2>5. walks' # <<>>
    BY <1>0, <2>1, <2>2 DEF WalksOK
  <2> QED BY <1>a, <2>1, <2>4, <2>5 DEF ServerWaits, serverVars
<1>3. ASSUME NEW c \in Connections, ConnectionEvent(c) PROVE ConnectionWaits' /\ ServerWaits'
  <2>1. ConnectionWaits'
    BY <1>0, <1>3 DEF ConnectionEvent, ConnectionWaits, Of, ConnectionsOK
  <2> QED BY <1>3, <2>1 DEF ConnectionEvent, ServerWaits, walkVars
<1>4. ASSUME NEW c \in Connections, DisconnectionEvent(c) PROVE ConnectionWaits' /\ ServerWaits'
  <2>1. ConnectionWaits'
    BY <1>0, <1>4 DEF DisconnectionEvent, ConnectionWaits, Of, ConnectionsOK
  <2>2. \A d \in open \ {c} : state[d] = "disconnecting" => state'[d] = "disconnecting"
    BY <1>0, <1>4 DEF DisconnectionEvent, ConnectionsOK
  <2> QED BY <1>4, <2>1, <2>2, SignalCause DEF DisconnectionEvent, walkVars
<1>5. ASSUME NEW k \in Children, CreateChild(k) PROVE ConnectionWaits' /\ ServerWaits'
  <2>1. ConnectionWaits'
    <3>1. SUFFICES ASSUME NEW c \in Connections, Sound(c), state'[c] = "disconnecting"
                   PROVE  /\ Of(active', c) # {}
                          /\ \A j \in Of(active', c) : child'[j] = "stopping"
      BY DEF ConnectionWaits, Of
    <3>2. ParentOf[k] # c
      BY <1>5, <3>1 DEF CreateChild, Sound, Of
    <3>3. Of(active', c) = Of(active, c) /\ state' = state
      BY <1>5, <3>2 DEF CreateChild, Of
    <3>4. \A j \in Of(active, c) : child'[j] = child[j]
      BY <1>0, <1>5, <3>2 DEF CreateChild, Of, ConnectionsOK
    <3> QED BY <3>1, <3>3, <3>4 DEF ConnectionWaits
  <2> QED BY <1>5, <1>b, <2>1 DEF CreateChild, serverVars, endVars, walkVars
<1>c. ASSUME NEW k \in Children, ChildGone(k), UNCHANGED <<stopRequested, walks, lost>>
      PROVE  ConnectionWaits' /\ ServerWaits'
  <2>1. PICK gone \in SUBSET {ParentOf[k]} :
          /\ SignalDisconnectAndStop(gone)
          /\ \A d \in open \ gone : state[d] = "disconnecting" => state'[d] = "disconnecting"
    BY <1>0, <1>c DEF ChildGone, ConnectionsOK
  <2> QED BY <1>0, <1>c, <2>1, ChildGoneCause, SignalCause
<1>6. ASSUME NEW k \in Children, StopChild(k) PROVE ConnectionWaits' /\ ServerWaits'
  <2>1. CASE ChildGone(k)
    BY <1>6, <1>c, <2>1 DEF StopChild, walkVars
  <2>2. CASE /\ child' = [child EXCEPT ![k] = "stopping"]
             /\ UNCHANGED <<state, active, serverVars, endVars>>
    <3>1. ConnectionWaits'
      BY <1>0, <2>2 DEF ConnectionWaits, Of, ConnectionsOK
    <3> QED BY <1>6, <1>b, <2>2, <3>1 DEF StopChild, serverVars, endVars, walkVars
  <2> QED BY <1>6, <2>1, <2>2 DEF StopChild
<1>7. ASSUME NEW k \in Children, ChildIdle(k) PROVE ConnectionWaits' /\ ServerWaits'
  BY <1>7, <1>c DEF ChildIdle, walkVars
<1>8. ASSUME ServerIdle PROVE ConnectionWaits' /\ ServerWaits'
  BY <1>8, <1>a DEF ServerIdle, GoIdle, ServerWaits
<1>9. ASSUME \/ AwaitAccept \/ AwaitStop \/ UNCHANGED vars
             \/ \E c \in Connections : Accept(c) \/ Receive(c) \/ Supply(c) \/ AwaitDisconnect(c)
      PROVE  ConnectionWaits' /\ ServerWaits'
  BY <1>9, <1>a, <1>b DEF AwaitAccept, AwaitStop, vars, Accept, Receive, Supply,
                          AwaitDisconnect, serverVars, endVars, walkVars
<1> QED BY <1>1, <1>2, <1>3, <1>4, <1>5, <1>6, <1>7, <1>8, <1>9, <1>10, <1>11, <1>12, <1>13 DEF Next

\* Whatever a sound connection or the server waits for is itself stopping: a
\* stop never waits for somebody who was not asked, but for connections that
\* came late.
THEOREM WaitsAreJustified == Spec => []WaitHasCause
<1>1. Init => ConnectionWaits /\ ServerWaits
  BY DEF Init, ConnectionWaits, ServerWaits
<1>2. IInv /\ ConnectionWaits /\ ServerWaits /\ [Next]_vars => ConnectionWaits' /\ ServerWaits'
  BY NextCause, ServerConstants
<1>3. ConnectionWaits /\ ServerWaits => WaitHasCause
  BY DEF ConnectionWaits, ServerWaits, WaitHasCause, ToVisit
<1> QED BY <1>1, <1>2, <1>3, Invariant, PTL DEF Spec
=============================================================================
