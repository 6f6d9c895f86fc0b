-------------------------- MODULE OffloadContexts --------------------------
(***************************************************************************)
(* The contexts of TaskPools, the AES-GCM context with its keys.           *)
(*                                                                         *)
(* AesGcm and TaskPools are two views of one context: they share ctx.      *)
(* Tasks and keys end independently of each other, and both can hold up a  *)
(* stop: keys in do_stop_if_able, tasks in DOCA, which goes to IDLE when   *)
(* none is in flight.  The other classes stop as context_base does.  That  *)
(* encrypt and decrypt need a key is left open: without one DOCA refuses   *)
(* the task, which is one of the outcomes of TaskPools.                    *)
(***************************************************************************)
EXTENDS TaskPools

CONSTANTS
    Slots,          \* aes_gcm_key objects
    MaxLoaded       \* bound on loaded_keys_

ASSUME KeysConstants ==
    IsFiniteSet(Slots) /\ MaxLoaded \in Nat

VARIABLES stopRequested, loaded, held, overwritten, refused, stopAwaiter

Keys == INSTANCE AesGcm

keyVars == <<stopRequested, loaded, held, overwritten, refused, stopAwaiter>>
poolVars == <<class, free, leaked, place, type, starved>>
allVars == <<ctx, keyVars, poolVars>>

InFlight == \E f \in Fibers : place[f] = "inflight"

ContextInit == PoolInit /\ Keys!Init

\* The operations and the tasks of any class.
TaskStep(f) ==
    /\ Call(f) \/ Complete(f) \/ ResumePosted(f) \/ Resubmit(f)
    /\ UNCHANGED keyVars

\* The stop of a class without keys.
PlainStop ==
    /\ class # "aes_gcm"
    /\ Stop \/ Stopped
    /\ UNCHANGED keyVars

\* What becomes of the keys.  DOCA does not go to IDLE with tasks in flight.
KeyStep ==
    /\ class = "aes_gcm"
    /\ Keys!Next
    /\ InFlight => (ctx' = "idle" => ctx = "idle")
    /\ UNCHANGED poolVars

ContextNext ==
    \/ KeyStep
    \/ PlainStop
    \/ \E f \in Fibers : TaskStep(f)

KeysStopped ==
    /\ class = "aes_gcm"
    /\ ~InFlight
    /\ Keys!Stopped
    /\ UNCHANGED poolVars

\* DOCA completes or flushes the tasks of a context that stops, and delivers the
\* change to IDLE.
ContextFairness ==
    /\ WF_allVars(KeysStopped)
    /\ \A f \in Fibers : WF_allVars(Complete(f) /\ UNCHANGED keyVars)

ContextSpec == ContextInit /\ [][ContextNext]_allVars /\ ContextFairness

-----------------------------------------------------------------------------
(* Properties, besides those of TaskPools *)

\* No key outlives the context its destructor would use: loaded_keys_ counts the
\* keys that objects hold and, for ever, those that a move assignment destroyed,
\* and the context stops only after a request, and when no object holds a key.
KeysGoFirst ==
    class = "aes_gcm" => loaded = Cardinality(held) + overwritten /\ Keys!KeysGoFirst

\* A stop that was requested takes place when the last key is gone, whether the
\* keys and the tasks end before or after the request, unless a key was
\* overwritten or DOCA refuses.
StopCompletes == Keys!StopCompletes
=============================================================================
