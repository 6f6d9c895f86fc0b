------------------------------ MODULE Buffers ------------------------------
(***************************************************************************)
(* Buffers and where they come from: shoc/buffer.cpp, buffer_inventory.cpp,*)
(* buffer_pool.cpp and the packets of eth_rxq.cpp.                         *)
(*                                                                         *)
(* A buffer object holds a doca_buf, or nothing, and stands for one of the *)
(* references DOCA counts; the element goes back to its inventory or pool  *)
(* with the last of them.  The objects are variables, parameters, parts of *)
(* queues and of results; copies and temporaries inside one C++ expression *)
(* are gone at its end and appear here as the counting they do.            *)
(***************************************************************************)
EXTENDS Integers, FiniteSets

CONSTANTS
    Objects,        \* buffer objects
    Elements,       \* the doca_bufs of an inventory or pool
    None            \* handle_ = nullptr

ASSUME BuffersConstants ==
    IsFiniteSet(Objects) /\ IsFiniteSet(Elements) /\ None \notin Elements

VARIABLES
    handle,         \* handle_ of each object
    store           \* DOCA's side: reference counts and number of free elements

bufferVars == <<handle, store>>

BufferInit ==
    /\ handle = [o \in Objects |-> None]
    /\ store = [refs |-> [e \in Elements |-> 0], free |-> Cardinality(Elements)]

-----------------------------------------------------------------------------
(* DOCA's side *)

\* doca_buf_inc_refcount, which does not accept a null pointer.
Inc(st, e) ==
    IF e = None THEN st ELSE [st EXCEPT !.refs[e] = @ + 1]

\* doca_buf_dec_refcount; the element is free with the last reference.
Dec(st, e) ==
    IF e = None THEN st
    ELSE [refs |-> [st.refs EXCEPT ![e] = @ - 1],
          free |-> st.free + IF st.refs[e] = 1 THEN 1 ELSE 0]

\* e is handed out with one reference.
Take(st, e) == [refs |-> [st.refs EXCEPT ![e] = 1], free |-> st.free - 1]

-----------------------------------------------------------------------------
(* What the special members do to <<handle, store>> *)

\* o = p: a copy of p is counted, exchanged with o, and destroyed with what o
\* had.  For o = p this changes nothing.  Copy construction is the case of an
\* object without handle.
CopyAssign(o, p) ==
    /\ handle' = [handle EXCEPT ![o] = handle[p]]
    /\ store' = Dec(Inc(store, handle[p]), handle[o])

\* Mutant: the source of a move keeps its handle.
MoveAssignKeeps(o, p) ==
    IF o = p THEN UNCHANGED bufferVars
    ELSE /\ handle' = [handle EXCEPT ![o] = handle[p]]
         /\ store' = Dec(store, handle[o])

\* o = std::move(p), also for o = p, and move construction.
MoveAssign(o, p) ==
    IF o = p THEN UNCHANGED bufferVars
    ELSE /\ handle' = [handle EXCEPT ![o] = handle[p], ![p] = None]
         /\ store' = Dec(store, handle[o])

Swap(o, p) ==
    /\ handle' = [handle EXCEPT ![o] = handle[p], ![p] = handle[o]]
    /\ UNCHANGED store

\* clear(), and the end of an object's life.
Clear(o) ==
    /\ handle[o] # None
    /\ handle' = [handle EXCEPT ![o] = None]
    /\ store' = Dec(store, handle[o])

-----------------------------------------------------------------------------
(* Where buffers come from: o is assigned the object the call returns.  When
   nothing is free the call throws and o is as before. *)

Free == {e \in Elements : store.refs[e] = 0}

\* buf_get_by_args, buf_get_by_addr, buf_get_by_data, buf_dup.
Get(o) ==
    \E e \in Free :
        /\ store' = Dec(Take(store, e), handle[o])
        /\ handle' = [handle EXCEPT ![o] = e]

\* allocate_buffer with a data region.  The result is a copy of the local
\* variable, which is then destroyed; set_data may throw before.
Allocate(o) ==
    \E e \in Free :
        \/ /\ store' = Dec(Dec(Inc(Take(store, e), e), e), handle[o])
           /\ handle' = [handle EXCEPT ![o] = e]
        \/ /\ store' = Dec(Take(store, e), e)
           /\ UNCHANGED handle

\* eth_rxq_managed: the callback owns the packet, supplies a copy to the queues,
\* in which o is, and gives up its own.
Packet(o) ==
    \E e \in Free :
        /\ handle[o] = None
        /\ store' = Dec(Inc(Take(store, e), e), e)
        /\ handle' = [handle EXCEPT ![o] = e]

\* eth_rxq_batch_managed: the same for the vector of a batch.
Batch(o, p) ==
    \E d, e \in Free :
        /\ o # p /\ d # e
        /\ handle[o] = None /\ handle[p] = None
        /\ store' = Dec(Dec(Inc(Inc(Take(Take(store, d), e), d), e), d), e)
        /\ handle' = [handle EXCEPT ![o] = d, ![p] = e]

BufferNext ==
    \E o \in Objects :
        \/ Clear(o) \/ Get(o) \/ Allocate(o) \/ Packet(o)
        \/ \E p \in Objects :
             CopyAssign(o, p) \/ MoveAssign(o, p) \/ Swap(o, p) \/ Batch(o, p)

BufferSpec == BufferInit /\ [][BufferNext]_bufferVars

-----------------------------------------------------------------------------
(* Properties *)

BufferTypeOK ==
    /\ handle \in [Objects -> Elements \cup {None}]
    /\ store \in [refs : [Elements -> Nat], free : Nat]

Holders(e) == {o \in Objects : handle[o] = e}

\* DOCA's count of an element is the number of objects that hold it, whatever
\* copies, moves, self-assignments and exceptions came before, and
\* num_free_elements is the number of elements nobody holds: no element is freed
\* under an object, and none is lost to its inventory or pool.
CountsExact ==
    /\ \A e \in Elements : store.refs[e] = Cardinality(Holders(e))
    /\ store.free = Cardinality({e \in Elements : Holders(e) = {}})
=============================================================================
