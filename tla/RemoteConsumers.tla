-------------------------- MODULE RemoteConsumers --------------------------
(***************************************************************************)
(* remote_consumer_queues (shoc/comch/producer.hpp): the consumers at the  *)
(* other end of a connection, as the fibers that send to them know them.   *)
(*                                                                         *)
(* DOCA announces a consumer by its id and later reports its expiry.  The  *)
(* remote_consumer object made for it is in the queue, with a fiber or     *)
(* with nobody; index_ finds it as long as it has not expired.  DOCA may   *)
(* use an id again, so an object is its id and a number.                   *)
(***************************************************************************)
EXTENDS Naturals, Sequences

CONSTANTS
    Ids,            \* remote consumer ids
    MaxUses,        \* bound on how often an id is used
    Accepters       \* fibers that call accept_consumer

VARIABLES
    index,          \* index_: the number of the object of each id, or 0
    uses,           \* how often each id was announced
    queue,          \* pending_data_
    accepters,      \* pending_accepters_
    accepted,       \* history: objects that were given to fibers
    disconnected,   \* disconnected_
    expired,        \* objects whose expired_ is set
    gone            \* history: consumers whose expiry DOCA has reported

vars == <<index, uses, queue, accepters, accepted, disconnected, expired, gone>>

Consumers == Ids \X (1..MaxUses)

Init ==
    /\ index = [i \in Ids |-> 0]
    /\ uses = [i \in Ids |-> 0]
    /\ queue = <<>>
    /\ accepters = <<>>
    /\ accepted = {}
    /\ disconnected = FALSE
    /\ expired = {}
    /\ gone = {}

\* Consumer id i is in use at the other end.
InUse(i) == uses[i] > 0 /\ <<i, uses[i]>> \notin gone

-----------------------------------------------------------------------------
\* Mutant: who accepts a consumer takes it out of index_.
AcceptForgets(f) ==
    /\ \A n \in 1..Len(accepters) : accepters[n] # f
    /\ \/ /\ queue # <<>>
          /\ accepted' = accepted \cup {Head(queue)}
          /\ queue' = Tail(queue)
          /\ index' = [index EXCEPT ![Head(queue)[1]] = 0]
          /\ UNCHANGED accepters
       \/ /\ queue = <<>>
          /\ ~disconnected
          /\ accepters' = Append(accepters, f)
          /\ UNCHANGED <<queue, accepted, index>>
    /\ UNCHANGED <<uses, disconnected, expired, gone>>

\* accept(): a queued consumer, expired or not, or a place in the queue; on
\* disconnected queues that are empty an error, which changes nothing.
Accept(f) ==
    /\ \A n \in 1..Len(accepters) : accepters[n] # f
    /\ \/ /\ queue # <<>>
          /\ accepted' = accepted \cup {Head(queue)}
          /\ queue' = Tail(queue)
          /\ UNCHANGED accepters
       \/ /\ queue = <<>>
          /\ ~disconnected
          /\ accepters' = Append(accepters, f)
          /\ UNCHANGED <<queue, accepted>>
    /\ UNCHANGED <<index, uses, disconnected, expired, gone>>

\* supply(i): a new object under an id that is not in use.
Supply(i) ==
    LET consumer == <<i, uses[i] + 1>>
    IN  /\ ~InUse(i)
        /\ uses[i] < MaxUses
        /\ uses' = [uses EXCEPT ![i] = @ + 1]
        /\ index' = [index EXCEPT ![i] = uses[i] + 1]
        /\ IF accepters = <<>>
           THEN queue' = Append(queue, consumer) /\ UNCHANGED <<accepters, accepted>>
           ELSE /\ accepted' = accepted \cup {consumer}
                /\ accepters' = Tail(accepters)
                /\ UNCHANGED queue
        /\ UNCHANGED <<disconnected, expired, gone>>

\* expire(i): an id that index_ does not know is ignored.
Expire(i) ==
    /\ InUse(i)
    /\ gone' = gone \cup {<<i, uses[i]>>}
    /\ expired' = expired \cup IF index[i] # 0 THEN {<<i, index[i]>>} ELSE {}
    /\ index' = [index EXCEPT ![i] = 0]
    /\ UNCHANGED <<uses, queue, accepters, accepted, disconnected>>

\* disconnect(): everybody who waits gets an error; the consumers stay.
Disconnect ==
    /\ disconnected' = TRUE
    /\ accepters' = <<>>
    /\ UNCHANGED <<index, uses, queue, accepted, expired, gone>>

-----------------------------------------------------------------------------
(* Properties *)

TypeOK ==
    /\ index \in [Ids -> 0..MaxUses]
    /\ uses \in [Ids -> 0..MaxUses]
    /\ queue \in Seq(Consumers)
    /\ accepters \in Seq(Accepters)
    /\ accepted \in SUBSET Consumers
    /\ disconnected \in BOOLEAN
    /\ expired \in SUBSET Consumers
    /\ gone \in SUBSET Consumers

\* The expired() a producer looks at before it sends is TRUE exactly of the
\* consumers whose expiry was reported, whether they were queued, with a fiber or
\* passed on at that time, also where an id was used before and also after the
\* queues were disconnected.  What index_ still finds is what is alive.
ExpiryKnown ==
    /\ expired = gone
    /\ \A i \in Ids : index[i] = IF InUse(i) THEN uses[i] ELSE 0
=============================================================================
