------------------------------- MODULE RdmaCm -------------------------------
(***************************************************************************)
(* Connections of an rdma_context through the RDMA connection manager:     *)
(* shoc/rdma.cpp, connect, listen and the four connection callbacks.       *)
(*                                                                         *)
(* Both calls leave the address of a receptable where a callback finds it: *)
(* connect in the user data of the new connection, listen in listeners_    *)
(* under the port.  Which of the two the callbacks use depends on cm_role_.*)
(* A fiber is suspended in at most one call and stands for its receptable. *)
(***************************************************************************)
CONSTANTS
    Callers,        \* fibers
    Ports,
    Conns,          \* doca_rdma_connections
    None

\* Values that must be told apart.
ASSUME CmConstants ==
    None \notin Callers \cup Ports \cup {"connect"} /\ "connect" \notin Ports

VARIABLES
    role,           \* cm_role_
    listeners,      \* listeners_: the receptable of each port
    listening,      \* DOCA's side: ports that are listened to
    conn,           \* phase, port and user data of each doca_rdma_connection
    call,           \* what each fiber is suspended in: "connect", a port, or None
    stranded,       \* fibers with a result that nobody resumes
    owner,          \* the fiber that was given each connection
    mixed           \* history: listen() changed the role of a client

cmVars == <<role, listeners, listening, conn, call, stranded, owner, mixed>>

Pending == {"connecting", "accepted"}

CmInit ==
    /\ role = "none"
    /\ listeners = [p \in Ports |-> None]
    /\ listening = {}
    /\ conn = [c \in Conns |-> [phase |-> "none", port |-> None, data |-> None]]
    /\ call = [f \in Callers |-> None]
    /\ stranded = {}
    /\ owner = [c \in Conns |-> None]
    /\ mixed = FALSE

-----------------------------------------------------------------------------
(* Client fibers.  A call that fails at once returns an awaitable with the
   error in it, and the fiber goes on. *)

\* connect(): only the first connection of a context, and only of one that does
\* not listen; doca_rdma_connect_to_addr may refuse.
Connect(f, c) ==
    /\ call[f] = None
    /\ conn[c].phase = "none"
    /\ role = "none"
    /\ role' = "client"
    /\ conn' = [conn EXCEPT ![c] = [phase |-> "connecting", port |-> None, data |-> f]]
    /\ call' = [call EXCEPT ![f] = "connect"]
    /\ UNCHANGED <<listeners, listening, stranded, owner, mixed>>

\* Mutant: a second listener replaces the first.
ListenAgain(f, p) ==
    /\ call[f] = None
    /\ role' = "server"
    /\ listeners' = [listeners EXCEPT ![p] = f]
    /\ listening' = listening \cup {p}
    /\ call' = [call EXCEPT ![f] = p]
    /\ mixed' = (mixed \/ role = "client")
    /\ UNCHANGED <<conn, stranded, owner>>

\* listen(): one listener for each port, whatever the role has been;
\* doca_rdma_start_listen_to_port may refuse.
Listen(f, p) ==
    /\ call[f] = None
    /\ listeners[p] = None
    /\ role' = "server"
    /\ listeners' = [listeners EXCEPT ![p] = f]
    /\ listening' = listening \cup {p}
    /\ call' = [call EXCEPT ![f] = p]
    /\ mixed' = (mixed \/ role = "client")
    /\ UNCHANGED <<conn, stranded, owner>>

\* A fiber destroys its connection, and with that disconnects it.
Drop(c) ==
    /\ owner[c] # None
    /\ call[owner[c]] = None
    /\ conn' = [conn EXCEPT ![c].phase = "closed"]
    /\ owner' = [owner EXCEPT ![c] = None]
    /\ UNCHANGED <<role, listeners, listening, call, stranded, mixed>>

-----------------------------------------------------------------------------
(* Callbacks *)

\* connection_request: the port is unknown, its listener is gone, or the
\* connection is accepted.  When DOCA does not accept it, the listener is given
\* the error, is forgotten, and is not resumed.
Request(c, p) ==
    /\ conn[c].phase = "none"
    /\ p \in listening
    /\ \/ /\ conn' = [conn EXCEPT ![c].phase = "closed"]
          /\ UNCHANGED <<listeners, stranded>>
       \/ /\ listeners[p] # None
          /\ conn' = [conn EXCEPT ![c] = [phase |-> "accepted", port |-> p, data |-> None]]
          /\ UNCHANGED <<listeners, stranded>>
       \/ /\ listeners[p] # None
          /\ conn' = [conn EXCEPT ![c].phase = "closed"]
          /\ listeners' = [listeners EXCEPT ![p] = None]
          /\ stranded' = stranded \cup {listeners[p]}
    /\ UNCHANGED <<role, listening, call, owner, mixed>>

\* get_port_from_connection: the port an incoming connection came to, some port
\* of the peer for an outgoing one, or none after an error.
PortsOf(c) ==
    {None} \cup IF conn[c].port # None THEN {conn[c].port} ELSE Ports

\* take_connection_receptable.
TakeReceptable(c, port) ==
    CASE role = "server" /\ port # None -> listeners[port]
      [] role = "client" -> conn[c].data
      [] OTHER -> None

\* What take_connection_receptable leaves behind: no listener under that port,
\* or no user data.
Forget(c, port, phase) ==
    /\ listeners' = IF role = "server" /\ port # None
                    THEN [listeners EXCEPT ![port] = None] ELSE listeners
    /\ conn' = [conn EXCEPT ![c].phase = phase,
                            ![c].data = IF role = "client" THEN None ELSE @]

\* Mutant: the fiber is given its result and stays suspended.
ResolveSilently(f) ==
    /\ stranded' = stranded \cup ({f} \ {None})
    /\ UNCHANGED call

\* The receptable, if there is one, is filled and its fiber resumed.
Resolve(f) ==
    /\ call' = [g \in Callers |-> IF g = f THEN None ELSE call[g]]
    /\ UNCHANGED stranded

\* Mutant: a server takes whatever listener it has.
EstablishedForAny(c) ==
    /\ conn[c].phase \in Pending
    /\ \E port \in {p \in Ports : listeners[p] # None} \cup {None} :
         /\ Forget(c, port, "established")
         /\ Resolve(TakeReceptable(c, port))
         /\ owner' = [owner EXCEPT ![c] = TakeReceptable(c, port)]
    /\ UNCHANGED <<role, listening, mixed>>

\* connection_established.
Established(c) ==
    /\ conn[c].phase \in Pending
    /\ \E port \in PortsOf(c) :
         /\ Forget(c, port, "established")
         /\ Resolve(TakeReceptable(c, port))
         /\ owner' = [owner EXCEPT ![c] = TakeReceptable(c, port)]
    /\ UNCHANGED <<role, listening, mixed>>

\* connection_failure.
Failure(c) ==
    /\ conn[c].phase \in Pending
    /\ \E port \in PortsOf(c) :
         /\ Forget(c, port, "closed")
         /\ Resolve(TakeReceptable(c, port))
    /\ UNCHANGED <<role, listening, owner, mixed>>

\* connection_disconnected: the peer has gone, of which nobody is told.
Disconnected(c) ==
    /\ conn[c].phase = "established"
    /\ conn' = [conn EXCEPT ![c].phase = "closed"]
    /\ UNCHANGED <<role, listeners, listening, call, stranded, owner, mixed>>

CmNext ==
    \E c \in Conns :
        \/ Established(c) \/ Failure(c) \/ Disconnected(c) \/ Drop(c)
        \/ \E p \in Ports : Request(c, p)
        \/ \E f \in Callers : Connect(f, c)
        \/ \E f \in Callers, p \in Ports : Listen(f, p)

\* DOCA brings every connection attempt to an end.
CmFairness == \A c \in Conns : WF_cmVars(Established(c) \/ Failure(c))

CmSpec == CmInit /\ [][CmNext]_cmVars /\ CmFairness

-----------------------------------------------------------------------------
(* Properties *)

CmTypeOK ==
    /\ role \in {"none", "client", "server"}
    /\ listeners \in [Ports -> Callers \cup {None}]
    /\ listening \in SUBSET Ports
    /\ conn \in [Conns -> [phase : Pending \cup {"none", "established", "closed"},
                           port : Ports \cup {None}, data : Callers \cup {None}]]
    /\ call \in [Callers -> {"connect", None} \cup Ports]
    /\ stranded \in SUBSET Callers
    /\ owner \in [Conns -> Callers \cup {None}]
    /\ mixed \in BOOLEAN

\* "assert(rdma->cm_role_ == rdma_cm_role::server)" in connection_request: once a
\* port is listened to, nothing makes the context a client again.  Where the
\* callbacks look they find a receptable that is still there and empty, and every
\* fiber that waits for a result is found in one place, but for one whose client
\* has been made a server.
ReceptablesMatch ==
    /\ listening # {} => role = "server"
    /\ \A f \in Callers :
        /\ \A p \in Ports :
             listeners[p] = f <=> call[f] = p /\ f \notin stranded
        /\ \A c \in Conns :
             conn[c].phase = "connecting" /\ conn[c].data = f => call[f] = "connect"
        /\ call[f] = "connect" /\ f \notin stranded /\ ~mixed =>
             \E c \in Conns : conn[c].phase = "connecting" /\ conn[c].data = f

\* c is the attempt f waits for, or one to the port f listens to.
Own(c, f) ==
    IF conn[c].port = None THEN conn[c].data = f ELSE conn[c].port = call[f]

\* A callback resumes the fiber the connection belongs to, and no other, but for
\* that of a client that has been made a server.
Delivered ==
    [][\A f \in Callers, c \in Conns :
         /\ conn[c].phase \in Pending /\ conn'[c].phase \notin Pending
         /\ call'[f] # call[f] /\ ~mixed
         => Own(c, f)]_cmVars

\* A fiber in co_await connect() is resumed, but for that exception.
ConnectResolves ==
    \A f \in Callers : call[f] = "connect" ~> call[f] # "connect" \/ mixed
=============================================================================
