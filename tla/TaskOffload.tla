----------------------------- MODULE TaskOffload -----------------------------
(***************************************************************************)
(* Offloading a task: status_offload and plain_status_callback             *)
(* (shoc/progress_engine.hpp), submit_task and delayed_resubmission        *)
(* (shoc/progress_engine.cpp), and the awaitable both ends meet in         *)
(* (shoc/coro/status_awaitable.hpp).                                       *)
(*                                                                         *)
(* An offload is one call of status_offload.  It allocates a task in a     *)
(* context, submits it, and returns an awaitable that a client fiber       *)
(* co_awaits then or later.  When DOCA says AGAIN often enough, a detached *)
(* fiber goes on submitting at the ticks of a timer.  Everything runs in   *)
(* one thread; the actions are the pieces of code between suspensions.     *)
(*                                                                         *)
(* The awaitable of a fiber that was resumed is gone: client code writes   *)
(* co_await on the temporary the offload returned.                         *)
(***************************************************************************)
EXTENDS Naturals

CONSTANTS
    Offloads,               \* calls of status_offload
    Contexts,               \* contexts the engine knows
    CtxOf,                  \* the context a task is allocated in
    DeferredOffloads,       \* offloads whose callback defers the resumption
    ResubmissionAttempts,   \* cfg_.resubmission_attempts
    UInt32Range             \* 2^32, or a smaller range to wrap in

ASSUME OffloadConstants ==
    /\ CtxOf \in [Offloads -> Contexts]
    /\ DeferredOffloads \subseteq Offloads
    /\ UInt32Range \in Nat \ {0}
    /\ ResubmissionAttempts \in 0..(UInt32Range - 1)

VARIABLES
    connected,      \* connected_contexts_: contexts that have not stopped
    task,           \* where the DOCA task of an offload is
    hasValue,       \* has_value() of the offload's receptable
    awaiter,        \* what the client fiber does with the awaitable
    posted,         \* offloads whose resumption waits in the executor
    attempts,       \* attempts of the delayed_resubmission fiber
    resubmissions,  \* history: how often that fiber called doca_task_submit
    strayed         \* history: a posted resumption found its receptable gone

vars == <<connected, task, hasValue, awaiter, posted, attempts, resubmissions, strayed>>

Init ==
    /\ connected = Contexts
    /\ task = [o \in Offloads |-> "none"]
    /\ hasValue = [o \in Offloads |-> FALSE]
    /\ awaiter = [o \in Offloads |-> "none"]
    /\ posted = {}
    /\ attempts = [o \in Offloads |-> 0]
    /\ resubmissions = [o \in Offloads |-> 0]
    /\ strayed = FALSE

-----------------------------------------------------------------------------
(* Offloading, in the client fiber *)

\* Results of doca_task_submit the code tells apart.
SubmitResult == {"success", "again", "failure"}

\* create_task_object fails: there is no task, the error is the result.
AllocationFails(o) ==
    /\ task' = [task EXCEPT ![o] = "absent"]
    /\ hasValue' = [hasValue EXCEPT ![o] = TRUE]
    /\ UNCHANGED attempts

\* Mutant: a refused task is freed, nobody is told.
SubmitTaskSilently(o, err) ==
    \/ /\ err = "success"
       /\ task' = [task EXCEPT ![o] = "submitted"]
       /\ UNCHANGED <<hasValue, attempts>>
    \/ /\ err = "again"
       /\ task' = [task EXCEPT ![o] = "delayed"]
       /\ attempts' = [attempts EXCEPT ![o] = ResubmissionAttempts]
       /\ UNCHANGED hasValue
    \/ /\ err = "failure"
       /\ task' = [task EXCEPT ![o] = "freed"]
       /\ UNCHANGED <<hasValue, attempts>>

\* submit_task: err is the result of the last of its immediate attempts.
SubmitTask(o, err) ==
    \/ /\ err = "success"
       /\ task' = [task EXCEPT ![o] = "submitted"]
       /\ UNCHANGED <<hasValue, attempts>>
    \/ /\ err = "again"
       /\ task' = [task EXCEPT ![o] = "delayed"]
       /\ attempts' = [attempts EXCEPT ![o] = ResubmissionAttempts]
       /\ UNCHANGED hasValue
    \/ /\ err = "failure"
       /\ task' = [task EXCEPT ![o] = "freed"]
       /\ hasValue' = [hasValue EXCEPT ![o] = TRUE]
       /\ UNCHANGED attempts

StatusOffload(o) ==
    /\ task[o] = "none"
    /\ CtxOf[o] \in connected
    /\ AllocationFails(o) \/ \E err \in SubmitResult : SubmitTask(o, err)
    /\ awaiter' = [awaiter EXCEPT ![o] = "held"]
    /\ UNCHANGED <<connected, posted, resubmissions, strayed>>

\* co_await: await_ready, then either await_resume or await_suspend.
CoAwait(o) ==
    /\ awaiter[o] = "held"
    /\ awaiter' = [awaiter EXCEPT ![o] =
                     IF hasValue[o] THEN "resumed" ELSE "suspended"]
    /\ UNCHANGED <<connected, task, hasValue, posted, attempts, resubmissions, strayed>>

-----------------------------------------------------------------------------
(* The delayed_resubmission fiber *)

\* Mutant: attempts is tested before it is decremented.
ResubmitTestFirst(o, err) ==
    LET again == err = "again" /\ attempts[o] > 0 /\ connected # {}
    IN  /\ task[o] = "delayed"
        /\ attempts' = [attempts EXCEPT ![o] = (@ + UInt32Range - 1) % UInt32Range]
        /\ resubmissions' = [resubmissions EXCEPT ![o] = @ + 1]
        /\ task' = [task EXCEPT ![o] =
                      CASE err = "success" -> "submitted"
                        [] again -> "delayed"
                        [] OTHER -> "freed"]
        /\ hasValue' = [hasValue EXCEPT ![o] = err # "success" /\ ~again]
        /\ UNCHANGED <<connected, awaiter, posted, strayed>>

\* One turn of its loop after the timer, attempts counting down in uint32.
\* A task whose context is gone is freed memory; DOCA may answer anything.
ResubmitTick(o, err) ==
    LET left == (attempts[o] + UInt32Range - 1) % UInt32Range
        again == err = "again" /\ left > 0 /\ connected # {}
    IN  /\ task[o] = "delayed"
        /\ attempts' = [attempts EXCEPT ![o] = left]
        /\ resubmissions' = [resubmissions EXCEPT ![o] = @ + 1]
        /\ task' = [task EXCEPT ![o] =
                      CASE err = "success" -> "submitted"
                        [] again -> "delayed"
                        [] OTHER -> "freed"]
        /\ hasValue' = [hasValue EXCEPT ![o] = err # "success" /\ ~again]
        /\ UNCHANGED <<connected, awaiter, posted, strayed>>

-----------------------------------------------------------------------------
(* Events *)

\* value_receptable::resume(): without a waiter it does nothing.
Resume(o) == [awaiter EXCEPT ![o] = IF @ = "suspended" THEN "resumed" ELSE @]

\* Mutant: the status is set, the fiber is not resumed.
CallbackWithoutResume(o) ==
    /\ task[o] = "submitted"
    /\ task' = [task EXCEPT ![o] = "freed"]
    /\ hasValue' = [hasValue EXCEPT ![o] = TRUE]
    /\ UNCHANGED <<connected, awaiter, posted, attempts, resubmissions, strayed>>

\* Mutant: the fiber is resumed before the status is set.
CallbackResumesFirst(o) ==
    /\ task[o] = "submitted"
    /\ \/ awaiter[o] = "suspended" /\ awaiter' = Resume(o) /\ UNCHANGED <<task, hasValue>>
       \/ /\ awaiter[o] # "suspended"
          /\ task' = [task EXCEPT ![o] = "freed"]
          /\ hasValue' = [hasValue EXCEPT ![o] = TRUE]
          /\ UNCHANGED awaiter
    /\ UNCHANGED <<connected, posted, attempts, resubmissions, strayed>>

\* plain_status_callback: free the task, set the status, resume now or later.
StatusCallback(o) ==
    /\ task[o] = "submitted"
    /\ task' = [task EXCEPT ![o] = "freed"]
    /\ hasValue' = [hasValue EXCEPT ![o] = TRUE]
    /\ IF o \in DeferredOffloads
       THEN posted' = posted \cup {o} /\ UNCHANGED awaiter
       ELSE awaiter' = Resume(o) /\ UNCHANGED posted
    /\ UNCHANGED <<connected, attempts, resubmissions, strayed>>

\* The lambda plain_status_callback posted, with a pointer to the receptable.  A
\* fiber that came for its value in between has destroyed that receptable; the
\* memory may since hold the one of some other offload.
RunPosted(o) ==
    /\ o \in posted
    /\ posted' = posted \ {o}
    /\ IF awaiter[o] = "resumed"
       THEN (\E p \in Offloads : awaiter' = Resume(p)) /\ strayed' = TRUE
       ELSE awaiter' = Resume(o) /\ UNCHANGED strayed
    /\ UNCHANGED <<connected, task, hasValue, attempts, resubmissions>>

\* A context reaches IDLE, is taken off the registry and its handle destroyed.
\* DOCA completes every submitted task first; nobody looks for delayed ones.
ContextStops(c) ==
    /\ c \in connected
    /\ \A o \in Offloads : CtxOf[o] = c => task[o] # "submitted"
    /\ connected' = connected \ {c}
    /\ UNCHANGED <<task, hasValue, awaiter, posted, attempts, resubmissions, strayed>>

-----------------------------------------------------------------------------
Next ==
    \/ \E o \in Offloads :
         \/ StatusOffload(o)
         \/ CoAwait(o)
         \/ \E err \in SubmitResult : ResubmitTick(o, err)
         \/ StatusCallback(o)
         \/ RunPosted(o)
    \/ \E c \in Contexts : ContextStops(c)

Spec == Init /\ [][Next]_vars

\* Timers fire, DOCA completes what it accepted, the executor runs what was
\* posted.  Clients may leave an awaitable alone for as long as they like.
Fairness ==
    \A o \in Offloads :
        /\ WF_vars(\E err \in SubmitResult : ResubmitTick(o, err))
        /\ WF_vars(StatusCallback(o))
        /\ WF_vars(RunPosted(o))

FairSpec == Spec /\ Fairness

-----------------------------------------------------------------------------
(* Properties *)

\* Types of the engine's registry and of every offload's task and awaitable.
TypeOK ==
    /\ connected \subseteq Contexts
    /\ task \in [Offloads -> {"none", "absent", "delayed", "submitted", "freed"}]
    /\ hasValue \in [Offloads -> BOOLEAN]
    /\ awaiter \in [Offloads -> {"none", "held", "suspended", "resumed"}]
    /\ posted \subseteq Offloads
    /\ attempts \in [Offloads -> 0..(UInt32Range - 1)]
    /\ resubmissions \in [Offloads -> Nat]
    /\ strayed \in BOOLEAN

\* A result is reported exactly when the task is done with: no path frees a
\* task and leaves the receptable empty, or fills it with the task still alive.
ResultIffFreed ==
    \A o \in Offloads : hasValue[o] <=> task[o] \in {"absent", "freed"}

\* A resumed fiber finds a value (value() throws otherwise), as long as no posted
\* resumption was led astray, and a suspended one that DOCA still owes a result
\* has its task under way.
ResumedWithValue ==
    \A o \in Offloads :
        /\ awaiter[o] = "resumed" => hasValue[o] \/ strayed
        /\ awaiter[o] = "suspended" /\ ~hasValue[o] => task[o] \in {"delayed", "submitted"}

\* "How often to reattempt task submission in regular intervals after the
\* immediate resubmission attempts are exhausted" (progress_engine_config).
ResubmissionsBounded ==
    \A o \in Offloads : resubmissions[o] <= ResubmissionAttempts

\* Once a result is reported neither it nor the task changes again: a freed
\* task is not submitted, completed or freed a second time.
ResultSticks ==
    [][\A o \in Offloads :
         hasValue[o] => hasValue'[o] /\ task'[o] = task[o]]_vars

\* An awaitable "must be kept alive long enough for a callback to fill the
\* receptable" (status_awaitable), and no longer: whoever still has to resume its
\* fiber finds it there.
FilledMayGo ==
    \A o \in posted : awaiter[o] # "resumed"

\* The delayed_resubmission fiber gives up or succeeds, and a fiber that waits
\* for a task DOCA has accepted is resumed.
CompletionResumes ==
    \A o \in Offloads :
        /\ task[o] = "delayed" ~> task[o] \in {"submitted", "freed"}
        /\ (task[o] = "submitted" /\ awaiter[o] = "suspended") ~> awaiter[o] = "resumed"

\* "If a coroutine handle is associated with the receptable when the result
\* is generated, that coroutine is resumed" (README).
ResultResumes ==
    \A o \in Offloads :
        (hasValue[o] /\ awaiter[o] = "suspended") ~> awaiter[o] = "resumed"
=============================================================================
