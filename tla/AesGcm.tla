------------------------------- MODULE AesGcm -------------------------------
(***************************************************************************)
(* An AES-GCM context and its keys (shoc/aes_gcm.cpp).  DOCA does not stop *)
(* a context that has keys, so the context counts them: stop() is put off  *)
(* until the last aes_gcm_key object that holds one is cleared.  A move    *)
(* assignment to an object that holds a key destroys that key without      *)
(* telling the context.                                                    *)
(***************************************************************************)
EXTENDS Naturals

CONSTANTS
    Slots,          \* aes_gcm_key objects
    MaxLoaded       \* bound on loaded_keys_

VARIABLES
    ctx,            \* current_state_; "idle" is also handle_ = nullptr
    stopRequested,  \* stop_requested_
    loaded,         \* loaded_keys_
    held,           \* the objects whose handle_ is set, and parent_ with it
    overwritten,    \* history: keys destroyed by an assignment
    refused,        \* history: DOCA has refused the last doca_ctx_stop
    stopAwaiter     \* the fiber in co_await stop()

vars == <<ctx, stopRequested, loaded, held, overwritten, refused, stopAwaiter>>
ctxVars == <<ctx, refused, stopAwaiter>>

Init ==
    /\ ctx = "running"
    /\ stopRequested = FALSE
    /\ loaded = 0
    /\ held = {}
    /\ overwritten = 0
    /\ refused = FALSE
    /\ stopAwaiter = "none"

-----------------------------------------------------------------------------
\* The callback of the change to IDLE resumes the awaiter.
Idle ==
    /\ ctx' = "idle"
    /\ refused' = FALSE
    /\ stopAwaiter' = IF stopAwaiter = "suspended" THEN "resumed" ELSE stopAwaiter

\* Mutant: the keys are not asked for.
DoStopAnyway(keys) ==
    IF ctx = "running"
    THEN Idle \/ (ctx' = "stopping" /\ refused' = FALSE /\ UNCHANGED stopAwaiter)
    ELSE UNCHANGED ctxVars

\* do_stop_if_able with keys as loaded_keys_.  DOCA stops the context at once,
\* or later, or refuses; a second attempt finds it stopping or without handle.
DoStopIfAble(keys) ==
    IF keys = 0 /\ ctx = "running"
    THEN \/ Idle
         \/ ctx' = "stopping" /\ refused' = FALSE /\ UNCHANGED stopAwaiter
         \/ refused' = TRUE /\ UNCHANGED <<ctx, stopAwaiter>>
    ELSE UNCHANGED ctxVars

\* Mutant: the context does not come back to a stop it has put off.
SignalWithoutStop ==
    /\ loaded' = loaded - 1
    /\ UNCHANGED ctxVars

\* signal_key_destroyed, which asserts that there is a key.
SignalKeyDestroyed ==
    /\ loaded' = loaded - 1
    /\ IF stopRequested THEN DoStopIfAble(loaded') ELSE UNCHANGED ctxVars

\* What s held is destroyed by an assignment.
Overwrite(s) == overwritten' = overwritten + IF s \in held THEN 1 ELSE 0

-----------------------------------------------------------------------------
\* s = context->load_key(...): DOCA makes a key for a running context, also for
\* one whose stop is put off.
LoadKey(s) ==
    /\ ctx = "running"
    /\ loaded < MaxLoaded
    /\ loaded' = loaded + 1
    /\ held' = held \cup {s}
    /\ Overwrite(s)
    /\ UNCHANGED <<ctxVars, stopRequested>>

\* s = std::move(t), or the construction of s from t.
MoveKey(s, t) ==
    /\ s # t
    /\ held' = IF t \in held THEN (held \ {t}) \cup {s} ELSE held \ {s}
    /\ Overwrite(s)
    /\ UNCHANGED <<ctxVars, stopRequested, loaded>>

\* clear(), and the destructor.
Clear(s) ==
    /\ s \in held
    /\ held' = held \ {s}
    /\ SignalKeyDestroyed
    /\ UNCHANGED <<stopRequested, overwritten>>

Stop ==
    /\ stopRequested' = TRUE
    /\ DoStopIfAble(loaded)
    /\ UNCHANGED <<loaded, held, overwritten>>

\* co_await of what stop() has returned.
AwaitStop ==
    /\ stopRequested
    /\ stopAwaiter = "none"
    /\ stopAwaiter' = IF ctx = "idle" THEN "resumed" ELSE "suspended"
    /\ UNCHANGED <<ctx, refused, stopRequested, loaded, held, overwritten>>

\* STOPPING to IDLE.
Stopped ==
    /\ ctx = "stopping"
    /\ Idle
    /\ UNCHANGED <<stopRequested, loaded, held, overwritten>>

Next ==
    \/ Stop \/ AwaitStop \/ Stopped
    \/ \E s \in Slots :
         \/ LoadKey(s)
         \/ Clear(s)
         \/ \E t \in Slots : MoveKey(s, t)

Spec == Init /\ [][Next]_vars

\* DOCA delivers the state change it has promised.
FairSpec == Spec /\ WF_vars(Stopped)

-----------------------------------------------------------------------------
\* The type invariant; loaded_keys_ never becomes negative.
TypeOK ==
    /\ ctx \in {"running", "stopping", "idle"}
    /\ stopRequested \in BOOLEAN
    /\ loaded \in Nat
    /\ held \in SUBSET Slots
    /\ overwritten \in Nat
    /\ refused \in BOOLEAN
    /\ stopAwaiter \in {"none", "suspended", "resumed"}

\* No key outlives the context its destructor would use.
KeysGoFirst == ctx # "running" => held = {} /\ stopRequested

\* A stop that was requested takes place when the last key is gone, whether the
\* keys go before or after the request, unless a key was overwritten or DOCA
\* refuses.
StopCompletes ==
    stopRequested /\ held = {} /\ overwritten = 0 ~>
        (ctx = "idle" /\ stopAwaiter # "suspended") \/ held # {} \/ refused
=============================================================================
