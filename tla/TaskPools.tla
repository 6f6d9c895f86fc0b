----------------------------- MODULE TaskPools -----------------------------
(***************************************************************************)
(* The contexts that do nothing but offload: what operations each class    *)
(* has, with which receptables, and for which task types its constructor   *)
(* has configured DOCA, with which callbacks.                              *)
(*                                                                         *)
(* A context has max_tasks tasks of each type.  A fiber calls an operation *)
(* and co_awaits it at once; the completion callback frees the task and    *)
(* resumes the fiber, which runs inside the callback until it suspends     *)
(* again.  Submission is TaskOffload's subject: here it succeeds, fails,   *)
(* or is left to delayed_resubmission.                                     *)
(*                                                                         *)
(* The tables name DOCA's task types.  What an operation is mapped to is   *)
(* the receptable it creates, and what a task type is mapped to is the     *)
(* receptable its callback casts the user data to.                         *)
(***************************************************************************)
EXTENDS Naturals, FiniteSets

CONSTANTS
    Fibers,
    MaxTasks        \* max_tasks

ASSUME TaskPoolsConstants ==
    IsFiniteSet(Fibers) /\ MaxTasks \in Nat

Statuses(types) == [t \in types |-> "status"]
Only(t, receptable) == [u \in {t} |-> receptable]

-----------------------------------------------------------------------------
(* Operations *)

CompressOps ==
    [t \in {"compress_deflate", "decompress_deflate", "decompress_lz4_block",
            "decompress_lz4_stream"} |-> "checksums"]

ShaOps == Statuses({"hash", "partial_hash"})

DmaOps == Statuses({"memcpy"})

EcOps == Statuses({"ec_create", "ec_recover", "ec_update"})

AesGcmOps == Statuses({"encrypt", "decrypt"})

SyncEventOps == Statuses({"get", "notify_add", "notify_set", "wait_eq", "wait_neq"})

EthTxqOps == Statuses({"eth_send", "lso_send"})

EthRxqOps == Statuses({"eth_recv"})

\* The operations of rdma_connection up to receive().
RdmaMessageOps ==
    [t \in {"send", "send_imm", "receive"} |->
        IF t = "receive" THEN "immediate" ELSE "status"]

RdmaOneSidedOps ==
    Statuses({"read", "write", "write_imm", "atomic_cmp_swp", "atomic_fetch_add",
              "remote_get", "remote_notify_set", "remote_notify_add"})

ProducerOps == Statuses({"producer_send"})

ConsumerOps == Only("post_recv", "recv_result")

-----------------------------------------------------------------------------
(* Configurations *)

CompressConf ==
    [t \in {"compress_deflate", "decompress_deflate", "decompress_lz4_block",
            "decompress_lz4_stream"} |-> "checksums"]

ShaConf == Statuses({"hash", "partial_hash"})

DmaConf == Statuses({"memcpy"})

EcConf == Statuses({"ec_create", "ec_update", "ec_recover"})

AesGcmConf == Statuses({"encrypt", "decrypt"})

\* Mutant: a task type is forgotten.
SyncEventConfShort == Statuses({"get", "notify_add", "notify_set", "wait_eq"})

SyncEventConf == Statuses({"get", "notify_add", "notify_set", "wait_eq", "wait_neq"})

EthTxqConf == Statuses({"eth_send", "lso_send"})

EthRxqConf == Statuses({"eth_recv"})

RdmaConf ==
    [t \in {"receive", "send", "send_imm", "read", "write", "write_imm",
            "atomic_cmp_swp", "atomic_fetch_add", "remote_get",
            "remote_notify_set", "remote_notify_add"} |->
        IF t = "receive" THEN "immediate" ELSE "status"]

ProducerConf == Statuses({"producer_send"})

ConsumerConf == Only("post_recv", "recv_result")

-----------------------------------------------------------------------------
RdmaOps ==
    [t \in DOMAIN RdmaMessageOps \cup DOMAIN RdmaOneSidedOps |->
        IF t \in DOMAIN RdmaMessageOps THEN RdmaMessageOps[t] ELSE RdmaOneSidedOps[t]]

\* The context classes: operations and configured task types.
Classes ==
    [compress   |-> <<CompressOps, CompressConf>>,
     sha        |-> <<ShaOps, ShaConf>>,
     dma        |-> <<DmaOps, DmaConf>>,
     ec         |-> <<EcOps, EcConf>>,
     aes_gcm    |-> <<AesGcmOps, AesGcmConf>>,
     sync_event |-> <<SyncEventOps, SyncEventConf>>,
     eth_txq    |-> <<EthTxqOps, EthTxqConf>>,
     eth_rxq    |-> <<EthRxqOps, EthRxqConf>>,
     rdma       |-> <<RdmaOps, RdmaConf>>,
     producer   |-> <<ProducerOps, ProducerConf>>,
     consumer   |-> <<ConsumerOps, ConsumerConf>>]

\* Task types whose callback posts the resumption to the executor.
Deferred == {"eth_send"}

\* Task types of which a task is lost when a step after its allocation fails.
Leaky == {"partial_hash"}

-----------------------------------------------------------------------------
VARIABLES
    class,          \* the class of the context
    ctx,            \* its state
    free,           \* tasks of each type that DOCA has left
    leaked,         \* history: tasks of each type that nobody will free
    place,          \* where a fiber is in the operation it has called
    type,           \* the type of that operation's task
    starved         \* history: a call was refused a task that should be there

Ops == Classes[class][1]
Conf == Classes[class][2]

PoolInit ==
    /\ class \in DOMAIN Classes
    /\ ctx = "running"
    /\ free = [t \in DOMAIN Conf |-> MaxTasks]
    /\ leaked = [t \in DOMAIN Conf |-> 0]
    /\ place = [f \in Fibers |-> "running"]
    /\ type = [f \in Fibers |-> "none"]
    /\ starved = FALSE

\* The fibers for which there is a task of type t.
Users(t) == {f \in Fibers : place[f] \in {"delayed", "inflight"} /\ type[f] = t}

-----------------------------------------------------------------------------
\* The fiber runs until it suspends for something else, or ends.
Returns(f, pool) ==
    /\ free' = pool
    /\ place' = [place EXCEPT ![f] = "running"]
    /\ type' = [type EXCEPT ![f] = "none"]

\* DOCA has no task for f: not of this type, not in this state, or not now.
Refused(f, t, pool) ==
    /\ \/ t \notin DOMAIN Conf
       \/ ctx # "running"
       \/ pool[t] = 0
    /\ starved' = (starved \/ /\ ctx = "running"
                              /\ \/ t \notin DOMAIN Conf
                                 \/ Cardinality(Users(t) \ {f}) + leaked[t] < MaxTasks)
    /\ Returns(f, pool)
    /\ UNCHANGED leaked

\* f gets a task, which DOCA takes, puts off or does not want; in the last case
\* it is freed again.  An allocation of several steps may end after the first.
Obtains(f, t, pool) ==
    /\ t \in DOMAIN Conf
    /\ ctx = "running"
    /\ pool[t] > 0
    /\ \/ /\ free' = [pool EXCEPT ![t] = @ - 1]
          /\ place' \in {[place EXCEPT ![f] = p] : p \in {"inflight", "delayed"}}
          /\ type' = [type EXCEPT ![f] = t]
          /\ UNCHANGED leaked
       \/ /\ Returns(f, pool)
          /\ UNCHANGED leaked
       \/ /\ t \in Leaky
          /\ Returns(f, [pool EXCEPT ![t] = @ - 1])
          /\ leaked' = [leaked EXCEPT ![t] = @ + 1]
    /\ UNCHANGED starved

\* What f does when it runs while pool is what DOCA has left.
Continue(f, pool) ==
    /\ \/ Returns(f, pool) /\ UNCHANGED <<leaked, starved>>
       \/ \E t \in DOMAIN Ops : Refused(f, t, pool) \/ Obtains(f, t, pool)
    /\ UNCHANGED <<class, ctx>>

-----------------------------------------------------------------------------
\* A fiber that is not in an operation calls one.
Call(f) ==
    /\ place[f] = "running"
    /\ Continue(f, free)

\* Mutant: the callback does not free the task.
CompleteWithoutFree(f) ==
    /\ place[f] = "inflight"
    /\ Continue(f, free)

\* The completion callback, on success, on failure and when a stop flushes the
\* task: it frees the task, then resumes the fiber or posts the resumption.
Complete(f) ==
    LET pool == [free EXCEPT ![type[f]] = @ + 1]
    IN  /\ place[f] = "inflight"
        /\ IF type[f] \in Deferred
           THEN /\ free' = pool
                /\ place' = [place EXCEPT ![f] = "posted"]
                /\ type' = [type EXCEPT ![f] = "none"]
                /\ UNCHANGED <<class, ctx, leaked, starved>>
           ELSE Continue(f, pool)

\* The executor comes to a posted resumption.
ResumePosted(f) ==
    /\ place[f] = "posted"
    /\ Continue(f, free)

\* delayed_resubmission succeeds, or gives up: the task is freed and the error
\* stored, and the fiber stays where it is.
Resubmit(f) ==
    /\ place[f] = "delayed"
    /\ \/ /\ ctx = "running"
          /\ place' = [place EXCEPT ![f] = "inflight"]
          /\ UNCHANGED <<free, type>>
       \/ /\ free' = [free EXCEPT ![type[f]] = @ + 1]
          /\ place' = [place EXCEPT ![f] = "stuck"]
          /\ type' = [type EXCEPT ![f] = "none"]
    /\ UNCHANGED <<class, ctx, leaked, starved>>

\* doca_ctx_stop, which DOCA may refuse.
Stop ==
    /\ ctx = "running"
    /\ ctx' = "stopping"
    /\ UNCHANGED <<class, free, leaked, place, type, starved>>

\* The context is idle when the last task in flight has been flushed.
Stopped ==
    /\ ctx = "stopping"
    /\ \A f \in Fibers : place[f] # "inflight"
    /\ ctx' = "idle"
    /\ UNCHANGED <<class, free, leaked, place, type, starved>>

-----------------------------------------------------------------------------
(* Properties *)

PoolTypeOK ==
    /\ class \in DOMAIN Classes
    /\ ctx \in {"running", "stopping", "idle"}
    /\ free \in [DOMAIN Conf -> 0..MaxTasks]
    /\ leaked \in [DOMAIN Conf -> 0..MaxTasks]
    /\ place \in [Fibers -> {"running", "delayed", "inflight", "posted", "stuck"}]
    /\ type \in [Fibers -> DOMAIN Conf \cup {"none"}]
    /\ \A f \in Fibers :
         type[f] \in IF place[f] \in {"delayed", "inflight"} THEN DOMAIN Conf ELSE {"none"}
    /\ starved \in BOOLEAN

\* The tasks of a type are those DOCA has left, one for each fiber that waits
\* for a completion or a resubmission, and the lost ones of partial_hash; and a
\* callback finds in the user data of its task a receptable of the type it casts
\* it to.
PoolConserved ==
    /\ \A t \in DOMAIN Conf : free[t] + Cardinality(Users(t)) + leaked[t] = MaxTasks
    /\ \A f \in Fibers : place[f] = "inflight" => Conf[type[f]] = Ops[type[f]]

\* max_tasks is "the maximum number of tasks that can be supplied to this
\* context at the same time per task type" (compress.hpp): a running context
\* refuses a call for lack of a task only if as many other fibers are in that
\* operation or its tasks were lost, also when the call is made from inside a
\* completion callback.  In particular every operation of a class belongs to a
\* task type its constructor has configured.
NeverStarved == ~starved
=============================================================================
