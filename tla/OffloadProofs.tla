---------------------------- MODULE OffloadProofs ----------------------------
(***************************************************************************)
(* Proofs about the contexts that offload tasks: one task from submission  *)
(* to resumption (TaskOffload), the pools the tasks come from and the keys *)
(* that hold up a stop (OffloadContexts).                                  *)
(***************************************************************************)
EXTENDS TaskOffload, OffloadContexts, FiniteSetTheorems, TLAPS

-----------------------------------------------------------------------------
(* TaskOffload, for any offloads, contexts and attempts.

   The bound on resubmissions rests on a count the code does not keep: as long
   as a task is delayed, the attempts left and the attempts made add up to
   resubmission_attempts, and one is left.  That is true only when
   resubmission_attempts is not 0, where the counter would wrap. *)

\* An awaitable exists from the call of status_offload on.
AwaiterFollowsTask ==
    \A o \in Offloads : awaiter[o] = "none" <=> task[o] = "none"

\* A resumption is posted after the value was set.
PostedHasValue == \A o \in posted : hasValue[o]

\* Attempts left and attempts made.
AttemptsAddUp ==
    \A o \in Offloads :
        /\ task[o] = "none" => resubmissions[o] = 0
        /\ task[o] = "delayed" =>
             /\ attempts[o] > 0
             /\ attempts[o] + resubmissions[o] = ResubmissionAttempts

TaskInv ==
    /\ TypeOK
    /\ ResultIffFreed
    /\ ResumedWithValue
    /\ AwaiterFollowsTask
    /\ PostedHasValue

\* Before anything is offloaded.
LEMMA TaskInvInit == Init => TaskInv
  <1> SUFFICES ASSUME Init PROVE TaskInv
    OBVIOUS
  <1> USE OffloadConstants
  <1>1. TypeOK
    <2>1. /\ task \in [Offloads -> {"none", "absent", "delayed", "submitted", "freed"}]
          /\ attempts \in [Offloads -> 0..(UInt32Range - 1)]
          /\ resubmissions \in [Offloads -> Nat]
      BY DEF Init
    <2> QED
      BY Zenon, <2>1 DEF Init, TypeOK
  <1>2. ResultIffFreed /\ ResumedWithValue /\ AwaiterFollowsTask /\ PostedHasValue
    BY DEF Init, ResultIffFreed, ResumedWithValue, AwaiterFollowsTask, PostedHasValue
  <1> QED
    BY <1>1, <1>2 DEF TaskInv

\* Every step keeps the types, and results and tasks in step.
LEMMA TaskInvStep == TaskInv /\ [Next]_vars => TaskInv'
  <1> SUFFICES ASSUME TaskInv, [Next]_vars PROVE TaskInv'
    OBVIOUS
  <1> USE OffloadConstants
  <1>1. ASSUME NEW o \in Offloads, StatusOffload(o) PROVE TaskInv'
    <2>1. CASE AllocationFails(o)
      BY <1>1, <2>1 DEF TaskInv, TypeOK, ResultIffFreed, ResumedWithValue,
         AwaiterFollowsTask, PostedHasValue, StatusOffload, AllocationFails
    <2>2. ASSUME NEW err \in SubmitResult, SubmitTask(o, err) PROVE TaskInv'
      <3>1. TypeOK'
        BY ZenonT(60), <1>1, <2>2 DEF TaskInv, TypeOK, StatusOffload, SubmitTask
      <3>2. ResultIffFreed' /\ PostedHasValue'
        BY <1>1, <2>2 DEF TaskInv, TypeOK, ResultIffFreed, PostedHasValue,
           StatusOffload, SubmitTask
      <3>3. ResumedWithValue' /\ AwaiterFollowsTask'
        BY <1>1, <2>2 DEF TaskInv, TypeOK, ResultIffFreed, ResumedWithValue,
           AwaiterFollowsTask, StatusOffload, SubmitTask
      <3> QED
        BY <3>1, <3>2, <3>3 DEF TaskInv
    <2> QED
      BY <1>1, <2>1, <2>2 DEF StatusOffload
  <1>2. ASSUME NEW o \in Offloads, CoAwait(o) PROVE TaskInv'
    BY <1>2 DEF TaskInv, TypeOK, ResultIffFreed, ResumedWithValue,
       AwaiterFollowsTask, PostedHasValue, CoAwait
  <1>3. ASSUME NEW o \in Offloads, NEW err \in SubmitResult, ResubmitTick(o, err)
        PROVE  TaskInv'
    <2>1. (attempts[o] + UInt32Range - 1) % UInt32Range \in 0..(UInt32Range - 1)
      BY DEF TaskInv, TypeOK
    <2>2. TypeOK'
      BY <1>3, <2>1 DEF TaskInv, TypeOK, ResubmitTick
    <2>3. ResultIffFreed' /\ ResumedWithValue' /\ AwaiterFollowsTask' /\ PostedHasValue'
      BY Zenon, <1>3 DEF TaskInv, TypeOK, ResultIffFreed, ResumedWithValue,
         AwaiterFollowsTask, PostedHasValue, ResubmitTick, SubmitResult
    <2> QED
      BY <2>2, <2>3 DEF TaskInv
  <1>4. ASSUME NEW o \in Offloads, StatusCallback(o) PROVE TaskInv'
    BY <1>4 DEF TaskInv, TypeOK, ResultIffFreed, ResumedWithValue,
       AwaiterFollowsTask, PostedHasValue, StatusCallback, Resume
  <1>5. ASSUME NEW o \in Offloads, RunPosted(o) PROVE TaskInv'
    <2>1. PICK p \in Offloads : awaiter' = Resume(p) /\ (p = o \/ strayed')
      BY <1>5 DEF RunPosted
    <2>2. strayed' \in BOOLEAN /\ (strayed => strayed')
      BY <1>5 DEF TaskInv, TypeOK, RunPosted
    <2> QED
      BY <1>5, <2>1, <2>2 DEF TaskInv, TypeOK, ResultIffFreed, ResumedWithValue,
         AwaiterFollowsTask, PostedHasValue, RunPosted, Resume
  <1>6. ASSUME NEW c \in Contexts, ContextStops(c) PROVE TaskInv'
    BY <1>6 DEF TaskInv, TypeOK, ResultIffFreed, ResumedWithValue,
       AwaiterFollowsTask, PostedHasValue, ContextStops
  <1>7. CASE UNCHANGED vars
    BY <1>7 DEF TaskInv, TypeOK, ResultIffFreed, ResumedWithValue,
       AwaiterFollowsTask, PostedHasValue, vars
  <1> QED
    BY <1>1, <1>2, <1>3, <1>4, <1>5, <1>6, <1>7 DEF Next

\* Types and results in every reachable state.
LEMMA TaskInvariant == Spec => []TaskInv
  BY TaskInvInit, TaskInvStep, PTL DEF Spec

\* The offload state keeps its types; attempts stays within uint32.
THEOREM TypeCorrect == Spec => []TypeOK
  <1>1. TaskInv => TypeOK
    BY DEF TaskInv
  <1> QED
    BY <1>1, TaskInvariant, PTL

\* On every path, the synchronous errors, the delayed ones and the completion,
\* a result is reported exactly when the task is freed (or never existed).
THEOREM ResultWithFree == Spec => []ResultIffFreed
  <1>1. TaskInv => ResultIffFreed
    BY DEF TaskInv
  <1> QED
    BY <1>1, TaskInvariant, PTL

\* No fiber is resumed before its receptable has a value, but for what a stray
\* resumption does, and none is suspended on an empty receptable whose task is
\* already gone.
THEOREM ResumptionHasValue == Spec => []ResumedWithValue
  <1>1. TaskInv => ResumedWithValue
    BY DEF TaskInv
  <1> QED
    BY <1>1, TaskInvariant, PTL

\* A reported result is final and its task is never touched again.
THEOREM ResultIsFinal == Spec => ResultSticks
  <1> DEFINE A == \A o \in Offloads :
                    hasValue[o] => hasValue'[o] /\ task'[o] = task[o]
  <1>1. ASSUME TaskInv, [Next]_vars PROVE [A]_vars
    <2>1. ASSUME NEW o \in Offloads, StatusOffload(o) PROVE A
      <3>1. ~hasValue[o]
        BY <1>1, <2>1 DEF TaskInv, ResultIffFreed, StatusOffload
      <3> QED
        BY <1>1, <2>1, <3>1
        DEF TaskInv, TypeOK, StatusOffload, AllocationFails, SubmitTask
    <2>2. ASSUME NEW o \in Offloads, NEW err \in SubmitResult, ResubmitTick(o, err)
          PROVE  A
      <3>1. ~hasValue[o]
        BY <1>1, <2>2 DEF TaskInv, ResultIffFreed, ResubmitTick
      <3> QED
        BY <1>1, <2>2, <3>1 DEF TaskInv, TypeOK, ResubmitTick
    <2>3. ASSUME NEW o \in Offloads, StatusCallback(o) PROVE A
      <3>1. ~hasValue[o]
        BY <1>1, <2>3 DEF TaskInv, ResultIffFreed, StatusCallback
      <3> QED
        BY <1>1, <2>3, <3>1 DEF TaskInv, TypeOK, StatusCallback
    <2>4. CASE UNCHANGED <<task, hasValue>>
      BY <2>4
    <2> QED
      BY <1>1, <2>1, <2>2, <2>3, <2>4
      DEF Next, CoAwait, RunPosted, ContextStops, vars
  <1> QED
    BY <1>1, TaskInvariant, PTL DEF Spec, ResultSticks

-----------------------------------------------------------------------------
(* The bound on resubmissions *)

BoundInv == TaskInv /\ AttemptsAddUp /\ ResubmissionsBounded

\* One turn of the delayed_resubmission loop moves one attempt from those
\* left to those made, and only goes on when one is left.
LEMMA TickBound ==
    ASSUME ResubmissionAttempts # 0, BoundInv,
           NEW o \in Offloads, NEW err \in SubmitResult, ResubmitTick(o, err)
    PROVE  AttemptsAddUp' /\ ResubmissionsBounded'
  <1> USE OffloadConstants
  <1> DEFINE left == (attempts[o] + UInt32Range - 1) % UInt32Range
  <1>1. /\ attempts[o] \in 1..(UInt32Range - 1)
        /\ resubmissions[o] \in Nat
        /\ attempts[o] + resubmissions[o] = ResubmissionAttempts
    BY DEF BoundInv, TaskInv, TypeOK, AttemptsAddUp, ResubmitTick
  <1>2. left = attempts[o] - 1
    BY <1>1
  <1>3. /\ attempts' = [attempts EXCEPT ![o] = attempts[o] - 1]
        /\ resubmissions' = [resubmissions EXCEPT ![o] = @ + 1]
        /\ task'[o] = "delayed" => attempts[o] - 1 > 0
        /\ task'[o] # "none"
        /\ \A q \in Offloads : q # o => task'[q] = task[q]
    BY Zenon, <1>2 DEF ResubmitTick, SubmitResult, BoundInv, TaskInv, TypeOK
  <1> QED
    BY <1>1, <1>3 DEF BoundInv, TaskInv, TypeOK, AttemptsAddUp, ResubmissionsBounded

\* With at least one attempt configured, delayed_resubmission submits at most
\* resubmission_attempts times: its uint32 counter never wraps.
THEOREM BoundedResubmission ==
    ASSUME ResubmissionAttempts # 0
    PROVE  Spec => []ResubmissionsBounded
  <1> USE OffloadConstants
  <1>1. Init => BoundInv
    <2> SUFFICES ASSUME Init PROVE AttemptsAddUp /\ ResubmissionsBounded
      BY TaskInvInit DEF BoundInv
    <2> QED
      BY DEF Init, AttemptsAddUp, ResubmissionsBounded
  <1>2. BoundInv /\ [Next]_vars => BoundInv'
    <2> SUFFICES ASSUME BoundInv, [Next]_vars
                 PROVE  AttemptsAddUp' /\ ResubmissionsBounded'
      BY TaskInvStep DEF BoundInv
    <2>1. ASSUME NEW o \in Offloads, StatusOffload(o)
          PROVE  AttemptsAddUp' /\ ResubmissionsBounded'
      <3>1. resubmissions[o] = 0 /\ UNCHANGED resubmissions
        BY <2>1 DEF StatusOffload, BoundInv, AttemptsAddUp
      <3>2. task'[o] # "none"
        BY <2>1 DEF BoundInv, TaskInv, TypeOK, StatusOffload, AllocationFails, SubmitTask
      <3>3. task'[o] = "delayed" => attempts'[o] = ResubmissionAttempts
        BY <2>1 DEF BoundInv, TaskInv, TypeOK, StatusOffload, AllocationFails, SubmitTask
      <3>4. \A q \in Offloads : q # o => task'[q] = task[q] /\ attempts'[q] = attempts[q]
        BY <2>1 DEF BoundInv, TaskInv, TypeOK, StatusOffload, AllocationFails, SubmitTask
      <3> QED
        BY <3>1, <3>2, <3>3, <3>4 DEF BoundInv, AttemptsAddUp, ResubmissionsBounded
    <2>2. ASSUME NEW o \in Offloads, NEW err \in SubmitResult, ResubmitTick(o, err)
          PROVE  AttemptsAddUp' /\ ResubmissionsBounded'
      BY <2>2, TickBound
    <2>3. ASSUME NEW o \in Offloads, StatusCallback(o)
          PROVE  AttemptsAddUp' /\ ResubmissionsBounded'
      BY <2>3 DEF BoundInv, TaskInv, TypeOK, AttemptsAddUp, ResubmissionsBounded,
                  StatusCallback
    <2>4. CASE UNCHANGED <<task, attempts, resubmissions>>
      BY <2>4 DEF BoundInv, AttemptsAddUp, ResubmissionsBounded
    <2> QED
      BY <2>1, <2>2, <2>3, <2>4 DEF Next, CoAwait, RunPosted, ContextStops, vars
  <1>3. BoundInv => ResubmissionsBounded
    BY SMTT(30) DEF BoundInv
  <1> QED
    BY <1>1, <1>2, <1>3, PTL DEF Spec

-----------------------------------------------------------------------------
(* OffloadContexts, for any fibers, max_tasks and key objects.

   The invariant of the pools is PoolConserved itself, with the types.  A fiber
   may call again from inside the callback that has freed its task, so a step is
   proved in two halves: what the pool holds once that task is back (Balanced),
   and what the fiber then does with it. *)

\* Every operation of every class belongs to a task type that the constructor has
\* configured, and its receptable is what the callback of that type expects.
LEMMA OpsConfigured == \A c \in DOMAIN Classes : Classes[c][1] = Classes[c][2]
<1> DEFINE Names == {"compress", "sha", "dma", "ec", "aes_gcm", "sync_event", "eth_txq",
                     "eth_rxq", "rdma", "producer", "consumer"}
<1>1. DOMAIN Classes = Names
  BY DEF Classes
<1>2. CompressOps = CompressConf
  BY DEF CompressOps, CompressConf
<1>3. /\ ShaOps = ShaConf /\ DmaOps = DmaConf /\ EcOps = EcConf /\ AesGcmOps = AesGcmConf
      /\ SyncEventOps = SyncEventConf /\ EthTxqOps = EthTxqConf /\ EthRxqOps = EthRxqConf
      /\ ProducerOps = ProducerConf /\ ConsumerOps = ConsumerConf
  BY DEF ShaOps, ShaConf, DmaOps, DmaConf, EcOps, EcConf, AesGcmOps, AesGcmConf, SyncEventOps,
     SyncEventConf, EthTxqOps, EthTxqConf, EthRxqOps, EthRxqConf, ProducerOps, ProducerConf,
     ConsumerOps, ConsumerConf, Statuses, Only
<1>4. RdmaOps = RdmaConf
  BY DEF RdmaOps, RdmaMessageOps, RdmaOneSidedOps, RdmaConf, Statuses
<1> QED
  BY <1>1, <1>2, <1>3, <1>4, SMTT(30) DEF Classes

PoolInv == PoolTypeOK /\ PoolConserved /\ NeverStarved

\* pool is what DOCA has left, f's own task not being in use any more.
Balanced(f, pool) ==
    /\ pool \in [DOMAIN Conf -> 0..MaxTasks]
    /\ \A t \in DOMAIN Conf : pool[t] + Cardinality(Users(t) \ {f}) + leaked[t] = MaxTasks

\* The fibers that use a task of a type can be counted.
LEMMA UsersFinite ==
    ASSUME NEW f, NEW t
    PROVE  /\ IsFiniteSet(Users(t)) /\ IsFiniteSet(Users(t) \ {f})
           /\ Cardinality(Users(t)) \in Nat /\ Cardinality(Users(t) \ {f}) \in Nat
<1>1. IsFiniteSet(Users(t)) /\ IsFiniteSet(Users(t) \ {f})
  BY TaskPoolsConstants, FS_Subset DEF Users
<1> QED
  BY <1>1, FS_CardinalityType

\* A fiber without a task does not count.
LEMMA FreeBalanced ==
    ASSUME PoolInv, NEW f \in Fibers, place[f] \notin {"delayed", "inflight"}
    PROVE  Balanced(f, free)
<1>1. \A t : Users(t) \ {f} = Users(t)
  BY DEF Users
<1> QED
  BY <1>1, ZenonT(40) DEF Balanced, PoolInv, PoolTypeOK, PoolConserved

\* A fiber whose task has been freed does not count any more.
LEMMA FreedBalanced ==
    ASSUME PoolInv, NEW f \in Fibers, place[f] \in {"delayed", "inflight"}
    PROVE  Balanced(f, [free EXCEPT ![type[f]] = @ + 1])
<1> DEFINE pool == [free EXCEPT ![type[f]] = @ + 1]
<1>1. type[f] \in DOMAIN Conf /\ f \in Users(type[f])
  BY DEF PoolInv, PoolTypeOK, Users
<1>2. ASSUME NEW t \in DOMAIN Conf
      PROVE  /\ pool[t] \in 0..MaxTasks
             /\ pool[t] + Cardinality(Users(t) \ {f}) + leaked[t] = MaxTasks
  <2>1. free[t] + Cardinality(Users(t)) + leaked[t] = MaxTasks
    BY DEF PoolInv, PoolConserved
  <2>2. free[t] \in Nat /\ leaked[t] \in Nat /\ MaxTasks \in Nat
    BY TaskPoolsConstants DEF PoolInv, PoolTypeOK
  <2>3. CASE t = type[f]
    <3>1. Cardinality(Users(t) \ {f}) = Cardinality(Users(t)) - 1
      BY <1>1, <2>3, UsersFinite, FS_RemoveElement, ZenonT(40)
    <3>2. pool[t] = free[t] + 1
      BY <1>1, <2>3 DEF PoolInv, PoolTypeOK
    <3>3. Cardinality(Users(t)) \in Nat /\ Cardinality(Users(t) \ {f}) \in Nat
      BY UsersFinite, ZenonT(40)
    <3> HIDE DEF pool
    <3> QED
      BY <2>1, <2>2, <3>1, <3>2, <3>3
  <2>4. CASE t # type[f]
    <3>1. Users(t) \ {f} = Users(t)
      BY <2>4 DEF Users
    <3>2. pool[t] = free[t] /\ free[t] \in 0..MaxTasks
      BY <2>4 DEF PoolInv, PoolTypeOK
    <3> QED
      BY <2>1, <3>1, <3>2
  <2> QED
    BY <2>3, <2>4
<1>3. pool \in [DOMAIN Conf -> 0..MaxTasks]
  <2>1. pool = [t \in DOMAIN Conf |-> pool[t]]
    BY ZenonT(40) DEF PoolInv, PoolTypeOK
  <2> HIDE DEF pool
  <2> QED
    BY <1>2, <2>1, ZenonT(40)
<1> QED
  BY <1>2, <1>3 DEF Balanced

\* The fiber ends up outside its operation, with the pool as it is.
LEMMA OutsideKeeps ==
    ASSUME PoolInv, NEW f \in Fibers, NEW p \in {"running", "posted", "stuck"},
           NEW pool, Balanced(f, pool),
           free' = pool, place' = [place EXCEPT ![f] = p], type' = [type EXCEPT ![f] = "none"],
           starved' = FALSE, UNCHANGED <<class, ctx, leaked>>
    PROVE  PoolInv'
<1>1. UNCHANGED <<Conf, Ops>>
  BY DEF Conf, Ops
<1>2. \A t : Users(t)' = Users(t) \ {f}
  BY DEF PoolInv, PoolTypeOK, Users
<1>3. PoolTypeOK'
  BY <1>1, ZenonT(40) DEF PoolInv, PoolTypeOK, Balanced
<1>4. PoolConserved'
  BY <1>1, <1>2 DEF PoolInv, PoolTypeOK, PoolConserved, Balanced
<1> QED
  BY <1>3, <1>4 DEF PoolInv, NeverStarved

\* The fiber gets a task of type t from the pool.
LEMMA ObtainsKeeps ==
    ASSUME PoolInv, NEW f \in Fibers, NEW t \in DOMAIN Conf, NEW pool, Balanced(f, pool),
           Obtains(f, t, pool), UNCHANGED <<class, ctx>>
    PROVE  PoolInv'
<1>1. UNCHANGED <<Conf, Ops>> /\ starved' = FALSE
  BY DEF Conf, Ops, Obtains, PoolInv, NeverStarved, PoolTypeOK
<1>2. /\ pool[t] \in 1..MaxTasks /\ leaked[t] \in 0..MaxTasks /\ MaxTasks \in Nat
      /\ pool[t] + Cardinality(Users(t) \ {f}) + leaked[t] = MaxTasks
      /\ Cardinality(Users(t) \ {f}) \in Nat
  <2>1. pool[t] \in 0..MaxTasks /\ leaked[t] \in 0..MaxTasks
    BY DEF Balanced, PoolInv, PoolTypeOK
  <2>2. pool[t] > 0
    BY DEF Obtains
  <2>3. pool[t] + Cardinality(Users(t) \ {f}) + leaked[t] = MaxTasks
    BY DEF Balanced
  <2>4. Cardinality(Users(t) \ {f}) \in Nat
    BY UsersFinite
  <2>5. MaxTasks \in Nat
    BY TaskPoolsConstants
  <2> QED
    BY <2>1, <2>2, <2>3, <2>4, <2>5
<1> DEFINE taken == [pool EXCEPT ![t] = @ - 1]
<1>3. /\ taken \in [DOMAIN Conf -> 0..MaxTasks]
      /\ taken[t] = pool[t] - 1
      /\ \A u \in DOMAIN Conf \ {t} : taken[u] = pool[u]
  BY <1>2, SMTT(30) DEF Balanced
<1> HIDE DEF taken
<1>4. CASE \E p \in {"inflight", "delayed"} :
             /\ free' = taken /\ place' = [place EXCEPT ![f] = p]
             /\ type' = [type EXCEPT ![f] = t] /\ UNCHANGED leaked
  <2>1. Users(t)' = (Users(t) \ {f}) \cup {f}
    BY <1>4 DEF PoolInv, PoolTypeOK, Users
  <2>2. \A u \in DOMAIN Conf \ {t} : Users(u)' = Users(u) \ {f}
    BY <1>4 DEF PoolInv, PoolTypeOK, Users
  <2>3. Cardinality(Users(t)') = Cardinality(Users(t) \ {f}) + 1
    BY <2>1, UsersFinite, FS_AddElement, ZenonT(40)
  <2>4. PoolTypeOK'
    BY <1>1, <1>3, <1>4, ZenonT(40) DEF PoolInv, PoolTypeOK
  <2>5. ASSUME NEW u \in DOMAIN Conf
        PROVE  free'[u] + Cardinality(Users(u)') + leaked'[u] = MaxTasks
    <3>1. CASE u = t
      BY <1>2, <1>3, <1>4, <2>3, <3>1
    <3>2. CASE u # t
      BY <1>3, <1>4, <2>2, <3>2 DEF Balanced
    <3> QED
      BY <3>1, <3>2
  <2>6. \A g \in Fibers : place'[g] = "inflight" => Conf[type'[g]] = Ops[type'[g]]
    BY OpsConfigured DEF PoolInv, PoolTypeOK, Conf, Ops
  <2> QED
    BY <1>1, <2>4, <2>5, <2>6 DEF PoolInv, PoolConserved, NeverStarved
<1>5. CASE Returns(f, pool) /\ UNCHANGED leaked
  BY <1>1, <1>5, OutsideKeeps, ZenonT(40) DEF Returns
<1>6. CASE Returns(f, taken) /\ leaked' = [leaked EXCEPT ![t] = @ + 1]
  <2>1. \A u : Users(u)' = Users(u) \ {f}
    BY <1>6 DEF PoolInv, PoolTypeOK, Users, Returns
  <2>2. /\ leaked' \in [DOMAIN Conf -> 0..MaxTasks]
        /\ leaked'[t] = leaked[t] + 1
        /\ \A u \in DOMAIN Conf \ {t} : leaked'[u] = leaked[u]
    BY <1>2, <1>6 DEF PoolInv, PoolTypeOK
  <2>3. PoolTypeOK'
    BY <1>1, <1>3, <1>6, <2>2, ZenonT(40) DEF PoolInv, PoolTypeOK, Returns
  <2>4. ASSUME NEW u \in DOMAIN Conf
        PROVE  free'[u] + Cardinality(Users(u)') + leaked'[u] = MaxTasks
    <3>1. CASE u = t
      <4>1. /\ free'[u] = pool[t] - 1 /\ leaked'[u] = leaked[t] + 1
            /\ Cardinality(Users(u)') = Cardinality(Users(t) \ {f})
        BY <1>3, <1>6, <2>1, <2>2, <3>1, ZenonT(40) DEF Returns
      <4> QED
        BY <1>2, <4>1
    <3>2. CASE u # t
      BY <1>3, <1>6, <2>1, <2>2, <3>2 DEF Balanced, Returns
    <3> QED
      BY <3>1, <3>2
  <2>5. \A g \in Fibers : place'[g] = "inflight" => Conf[type'[g]] = Ops[type'[g]]
    BY OpsConfigured DEF PoolInv, PoolTypeOK, Conf, Ops
  <2> QED
    BY <1>1, <2>3, <2>4, <2>5 DEF PoolInv, PoolConserved, NeverStarved
<1> QED
  BY <1>4, <1>5, <1>6 DEF Obtains, taken

\* What a fiber does when it runs.
LEMMA ContinueKeeps ==
    ASSUME PoolInv, NEW f \in Fibers, NEW pool, Balanced(f, pool), Continue(f, pool)
    PROVE  PoolInv'
<1>1. CASE Returns(f, pool) /\ UNCHANGED <<leaked, starved>>
  BY <1>1, OutsideKeeps, ZenonT(40) DEF Continue, Returns, PoolInv, NeverStarved, PoolTypeOK
<1>2. ASSUME NEW t \in DOMAIN Ops, Refused(f, t, pool) PROVE PoolInv'
  <2>1. t \in DOMAIN Conf
    BY OpsConfigured DEF PoolInv, PoolTypeOK, Ops, Conf
  <2>2. pool[t] + Cardinality(Users(t) \ {f}) + leaked[t] = MaxTasks
    BY <2>1 DEF Balanced
  <2>3. Cardinality(Users(t) \ {f}) \in Nat /\ leaked[t] \in Nat /\ MaxTasks \in Nat
    <3>1. Cardinality(Users(t) \ {f}) \in Nat
      BY UsersFinite, ZenonT(40)
    <3>2. MaxTasks \in Nat
      BY TaskPoolsConstants
    <3> QED
      BY <2>1, <3>1, <3>2 DEF PoolInv, PoolTypeOK
  <2>4. ctx = "running" => ~(Cardinality(Users(t) \ {f}) + leaked[t] < MaxTasks)
    BY <1>2, <2>1, <2>2, <2>3 DEF Refused
  <2>5. starved' = FALSE
    BY <1>2, <2>1, <2>4 DEF Refused, PoolInv, PoolTypeOK, NeverStarved
  <2> QED
    BY <1>2, <2>5, OutsideKeeps, ZenonT(40) DEF Continue, Refused, Returns
<1>3. ASSUME NEW t \in DOMAIN Ops, Obtains(f, t, pool) PROVE PoolInv'
  BY <1>3, ObtainsKeeps DEF Continue, Obtains
<1> QED
  BY <1>1, <1>2, <1>3 DEF Continue

\* Every call and every completion callback of a fiber keeps the balance.
LEMMA TaskStepKeeps ==
    ASSUME PoolInv, NEW f \in Fibers, TaskStep(f)
    PROVE  PoolInv'
<1>1. CASE Call(f) \/ ResumePosted(f)
  BY <1>1, FreeBalanced, ContinueKeeps DEF Call, ResumePosted
<1> DEFINE freed == [free EXCEPT ![type[f]] = @ + 1]
<1>2. CASE Complete(f)
  <2>1. Balanced(f, freed)
    BY <1>2, FreedBalanced DEF Complete
  <2>2. CASE Continue(f, freed)
    BY <2>1, <2>2, ContinueKeeps, SMTT(30)
  <2>3. CASE ~Continue(f, freed)
    <3>1. /\ free' = freed /\ place' = [place EXCEPT ![f] = "posted"]
          /\ type' = [type EXCEPT ![f] = "none"]
          /\ UNCHANGED <<class, ctx, leaked, starved>>
      BY <1>2, <2>3 DEF Complete
    <3> HIDE DEF freed
    <3> QED
      BY <2>1, <3>1, OutsideKeeps, ZenonT(40) DEF PoolInv, NeverStarved, PoolTypeOK
  <2> QED
    BY <2>2, <2>3
<1>3. CASE Resubmit(f)
  <2>1. CASE free' = freed
    <3>1. Balanced(f, freed)
      BY <1>3, FreedBalanced DEF Resubmit
    <3>2. /\ place' = [place EXCEPT ![f] = "stuck"]
          /\ type' = [type EXCEPT ![f] = "none"]
          /\ UNCHANGED <<class, ctx, leaked, starved>>
      <4>1. type[f] \in DOMAIN Conf
        BY <1>3 DEF Resubmit, PoolInv, PoolTypeOK
      <4>2. freed # free
        BY <4>1 DEF PoolInv, PoolTypeOK
      <4> QED
        BY <1>3, <2>1, <4>2 DEF Resubmit
    <3> HIDE DEF freed
    <3> QED
      BY <2>1, <3>1, <3>2, OutsideKeeps, ZenonT(40) DEF PoolInv, NeverStarved, PoolTypeOK
  <2>2. CASE free' # freed
    <3>1. /\ place[f] = "delayed" /\ place' = [place EXCEPT ![f] = "inflight"]
          /\ UNCHANGED <<free, type, class, ctx, leaked, starved>>
      BY <1>3, <2>2 DEF Resubmit
    <3>2. UNCHANGED <<Conf, Ops>>
      BY <3>1 DEF Conf, Ops
    <3>3. \A t : Users(t)' = Users(t)
      BY <3>1 DEF Users, PoolInv, PoolTypeOK
    <3>4. PoolTypeOK'
      BY <3>1, <3>2, SMTT(30) DEF PoolInv, PoolTypeOK
    <3>5. \A g \in Fibers : place'[g] = "inflight" => Conf[type'[g]] = Ops[type'[g]]
      BY OpsConfigured, SMTT(30) DEF PoolInv, PoolTypeOK, Conf, Ops
    <3> QED
      BY <3>1, <3>2, <3>3, <3>4, <3>5 DEF PoolInv, PoolConserved, NeverStarved
  <2> QED
    BY <2>1, <2>2
<1> QED
  BY <1>1, <1>2, <1>3 DEF TaskStep

\* A change of the state of the context alone.
LEMMA StateStepKeeps ==
    ASSUME PoolInv, UNCHANGED poolVars, ctx' \in {"running", "stopping", "idle"}
    PROVE  PoolInv'
<1>1. UNCHANGED <<Conf, Ops>> /\ \A t : Users(t)' = Users(t)
  BY DEF poolVars, Conf, Ops, Users
<1> QED
  BY <1>1 DEF PoolInv, PoolTypeOK, PoolConserved, NeverStarved, poolVars

\* The keys move only the state of the context, and only along its life.
LEMMA KeyStepState ==
    ASSUME ctx \in {"running", "stopping", "idle"}, Keys!Next
    PROVE  ctx' \in {"running", "stopping", "idle"}
  BY DEF Keys!Next, Keys!Stop, Keys!AwaitStop, Keys!Stopped, Keys!LoadKey, Keys!Clear,
     Keys!MoveKey, Keys!DoStopIfAble, Keys!SignalKeyDestroyed, Keys!Idle, Keys!ctxVars

\* Every step of every class of context keeps it.
LEMMA PoolInvStep == PoolInv /\ [ContextNext]_allVars => PoolInv'
<1> SUFFICES ASSUME PoolInv, [ContextNext]_allVars PROVE PoolInv'
  OBVIOUS
<1>1. ctx \in {"running", "stopping", "idle"}
  BY DEF PoolInv, PoolTypeOK
<1>2. CASE KeyStep
  BY <1>1, <1>2, KeyStepState, StateStepKeeps DEF KeyStep
<1>3. CASE PlainStop
  BY <1>3, StateStepKeeps DEF PlainStop, Stop, Stopped, poolVars
<1>4. CASE \E f \in Fibers : TaskStep(f)
  BY <1>4, TaskStepKeeps
<1>5. CASE UNCHANGED allVars
  BY <1>1, <1>5, StateStepKeeps DEF allVars
<1> QED
  BY <1>2, <1>3, <1>4, <1>5 DEF ContextNext

\* Every task of a new context is free.
LEMMA PoolInvInit == ContextInit => PoolInv
<1> SUFFICES ASSUME ContextInit PROVE PoolInv
  OBVIOUS
<1>1. MaxTasks \in Nat /\ 0 \in 0..MaxTasks /\ MaxTasks \in 0..MaxTasks
  BY TaskPoolsConstants
<1>2. PoolTypeOK
  BY <1>1, ZenonT(40) DEF ContextInit, PoolInit, PoolTypeOK
<1>3. \A t : Users(t) = {}
  BY DEF ContextInit, PoolInit, Users
<1>4. PoolConserved
  BY <1>1, <1>3, FS_EmptySet DEF ContextInit, PoolInit, PoolConserved
<1> QED
  BY <1>2, <1>4 DEF PoolInv, ContextInit, PoolInit, NeverStarved

\* The balance holds from the constructor of a context on.
LEMMA PoolInvariant == ContextSpec => []PoolInv
  BY PoolInvInit, PoolInvStep, PTL DEF ContextSpec

\* PoolConserved holds throughout, for any max_tasks and any number of fibers: no
\* task is lost or freed twice on any path through submission, resubmission,
\* completion, flush and the calls a fiber makes from inside a callback.
THEOREM PoolIsConserved == ContextSpec => []PoolConserved
<1>1. PoolInv => PoolConserved
  BY DEF PoolInv
<1> QED
  BY <1>1, PoolInvariant, PTL

\* NeverStarved holds throughout: a running context has a task for every call for
\* which its max_tasks leaves room.
THEOREM NobodyIsStarved == ContextSpec => []NeverStarved
<1>1. PoolInv => NeverStarved
  BY DEF PoolInv
<1> QED
  BY <1>1, PoolInvariant, PTL

-----------------------------------------------------------------------------
(* The keys of an AES-GCM context *)

\* loaded_keys_ counts the keys that objects hold and those that were overwritten,
\* so that clear() never finds it at zero.
KeysCounted == loaded = Cardinality(held) + overwritten

KeyInv ==
    /\ loaded \in Nat
    /\ overwritten \in Nat
    /\ held \in SUBSET Slots
    /\ KeysCounted
    /\ class = "aes_gcm" => Keys!KeysGoFirst

\* The keys that objects hold can be counted.
LEMMA HeldFinite ==
    ASSUME held \in SUBSET Slots
    PROVE  IsFiniteSet(held) /\ Cardinality(held) \in Nat
  BY KeysConstants, FS_Subset, FS_CardinalityType

\* do_stop_if_able leaves a context alone that has keys.
LEMMA StopWithoutKeys ==
    ASSUME NEW keys, Keys!DoStopIfAble(keys), ctx' # "running"
    PROVE  ctx # "running" \/ keys = 0
  BY DEF Keys!DoStopIfAble, Keys!Idle, Keys!ctxVars

\* load_key of aes_gcm.cpp counts the key that it makes.
LEMMA LoadKeyKeeps ==
    ASSUME KeyInv, NEW s \in Slots, Keys!LoadKey(s), UNCHANGED class
    PROVE  KeyInv'
<1>1. s \in held => held' = held
  BY DEF Keys!LoadKey
<1>2. s \notin held => Cardinality(held') = Cardinality(held) + 1
  BY HeldFinite, FS_AddElement DEF Keys!LoadKey, KeyInv
<1>3. KeysCounted'
  <2>1. Cardinality(held) \in Nat
    BY HeldFinite DEF KeyInv
  <2>2. CASE s \in held
    <3>1. held' = held /\ loaded' = loaded + 1 /\ overwritten' = overwritten + 1
      BY <1>1, <2>2 DEF Keys!LoadKey, Keys!Overwrite
    <3>2. Cardinality(held') = Cardinality(held)
      BY <3>1
    <3> QED
      BY <2>1, <3>1, <3>2 DEF KeysCounted, KeyInv
  <2>3. CASE s \notin held
    BY <1>2, <2>1, <2>3 DEF Keys!LoadKey, Keys!Overwrite, KeysCounted, KeyInv
  <2> QED
    BY <2>2, <2>3
<1> QED
  BY <1>3 DEF Keys!LoadKey, Keys!Overwrite, KeyInv, Keys!KeysGoFirst, Keys!ctxVars

\* A move assignment destroys the key of its target without counting it.
LEMMA MoveKeyKeeps ==
    ASSUME KeyInv, NEW s \in Slots, NEW t \in Slots, Keys!MoveKey(s, t), UNCHANGED class
    PROVE  KeyInv'
<1>1. Cardinality(held') = Cardinality(held) - IF s \in held THEN 1 ELSE 0
  <2>1. CASE t \in held
    <3>1. IsFiniteSet(held \ {t}) /\ Cardinality(held \ {t}) = Cardinality(held) - 1
      BY <2>1, HeldFinite, FS_RemoveElement DEF KeyInv
    <3>2. CASE s \in held
      BY <2>1, <3>1, <3>2 DEF Keys!MoveKey
    <3>3. CASE s \notin held
      <4>1. Cardinality((held \ {t}) \cup {s}) = Cardinality(held \ {t}) + 1
        BY <3>1, <3>3, FS_AddElement, ZenonT(40)
      <4> QED
        BY <2>1, <3>1, <3>3, <4>1, HeldFinite DEF Keys!MoveKey, KeyInv
    <3> QED
      BY <3>2, <3>3
  <2>2. CASE t \notin held
    BY <2>2, HeldFinite, FS_RemoveElement DEF Keys!MoveKey, KeyInv
  <2> QED
    BY <2>1, <2>2
<1>2. KeysCounted'
  BY <1>1, HeldFinite DEF Keys!MoveKey, Keys!Overwrite, KeysCounted, KeyInv
<1> QED
  BY <1>2 DEF Keys!MoveKey, Keys!Overwrite, KeyInv, Keys!KeysGoFirst, Keys!ctxVars

\* The destructor of a key counts it, and the last one lets the context stop.
LEMMA ClearKeeps ==
    ASSUME KeyInv, NEW s \in Slots, Keys!Clear(s), UNCHANGED class
    PROVE  KeyInv'
<1>1. IsFiniteSet(held') /\ Cardinality(held') = Cardinality(held) - 1 /\ s \in held
  BY HeldFinite, FS_RemoveElement DEF Keys!Clear, KeyInv
<1>2. Cardinality(held) \in Nat /\ Cardinality(held') \in Nat
  BY <1>1, HeldFinite, FS_CardinalityType DEF KeyInv
<1>3. KeysCounted' /\ loaded' \in Nat
  BY <1>1, <1>2 DEF Keys!Clear, Keys!SignalKeyDestroyed, KeysCounted, KeyInv
<1>4. (class = "aes_gcm" => Keys!KeysGoFirst)'
  <2>1. ASSUME class = "aes_gcm", ctx' # "running" PROVE held' = {} /\ stopRequested
    <3>1. ctx = "running"
      BY <1>1, <2>1 DEF KeyInv, Keys!KeysGoFirst
    <3>2. stopRequested /\ Keys!DoStopIfAble(loaded')
      BY <2>1, <3>1 DEF Keys!Clear, Keys!SignalKeyDestroyed, Keys!ctxVars
    <3>3. loaded' = 0
      BY <2>1, <3>1, <3>2, StopWithoutKeys
    <3>4. Cardinality(held') = 0
      BY <1>2, <1>3, <3>3 DEF KeysCounted, Keys!Clear, KeyInv
    <3> QED
      BY <1>1, <3>2, <3>4, FS_EmptySet
  <2> QED
    BY <1>3, <2>1 DEF Keys!KeysGoFirst, Keys!Clear
<1> QED
  BY <1>3, <1>4 DEF Keys!Clear, KeyInv

\* aes_gcm_context::stop waits for keys that are still held.
LEMMA StopKeeps ==
    ASSUME KeyInv, Keys!Stop, UNCHANGED class
    PROVE  KeyInv'
<1>1. KeysCounted'
  BY DEF Keys!Stop, KeysCounted, KeyInv
<1>2. ASSUME class = "aes_gcm", ctx' # "running" PROVE held' = {} /\ stopRequested'
  <2>1. CASE ctx # "running"
    BY <1>2, <2>1 DEF KeyInv, Keys!KeysGoFirst, Keys!Stop
  <2>2. CASE ctx = "running"
    <3>1. loaded = 0
      BY <1>2, <2>2, StopWithoutKeys DEF Keys!Stop
    <3>2. IsFiniteSet(held) /\ Cardinality(held) \in Nat
      BY HeldFinite DEF KeyInv
    <3>3. Cardinality(held) = 0
      BY <3>1, <3>2 DEF KeyInv, KeysCounted
    <3> QED
      BY <3>2, <3>3, FS_EmptySet DEF Keys!Stop
  <2> QED
    BY <2>1, <2>2
<1> QED
  BY <1>1, <1>2 DEF KeyInv, Keys!KeysGoFirst, Keys!Stop

\* Every step of every class of context keeps the count of keys.
LEMMA KeyInvStep == KeyInv /\ [ContextNext]_allVars => KeyInv'
<1> SUFFICES ASSUME KeyInv, [ContextNext]_allVars PROVE KeyInv'
  OBVIOUS
<1>1. CASE KeyStep
  <2>1. UNCHANGED class
    BY <1>1 DEF KeyStep, poolVars
  <2>2. CASE Keys!AwaitStop \/ Keys!Stopped
    BY <2>1, <2>2 DEF Keys!AwaitStop, Keys!Stopped, Keys!Idle, KeyInv,
       Keys!KeysGoFirst, KeysCounted
  <2> QED
    BY <1>1, <2>1, <2>2, StopKeeps, LoadKeyKeeps, ClearKeeps, MoveKeyKeeps DEF KeyStep, Keys!Next
<1>2. CASE PlainStop
  BY <1>2 DEF PlainStop, Stop, Stopped, keyVars, KeyInv, KeysCounted
<1>3. ASSUME NEW f \in Fibers, TaskStep(f) PROVE KeyInv'
  <2>1. UNCHANGED <<keyVars, class, ctx>>
    BY <1>3 DEF TaskStep, Call, Complete, ResumePosted, Resubmit, Continue
  <2> QED
    BY <2>1, SMTT(30) DEF keyVars, KeyInv, Keys!KeysGoFirst, KeysCounted
<1>4. CASE UNCHANGED allVars
  BY <1>4 DEF allVars, poolVars, keyVars, KeyInv, Keys!KeysGoFirst,
     KeysCounted
<1> QED
  BY <1>1, <1>2, <1>3, <1>4 DEF ContextNext

\* The count of keys is right from the constructor of a context on.
LEMMA KeyInvariant == ContextSpec => []KeyInv
<1>1. ContextInit => KeyInv
  BY FS_EmptySet DEF ContextInit, PoolInit, Keys!Init, KeyInv,
     Keys!KeysGoFirst, KeysCounted
<1> QED
  BY <1>1, KeyInvStep, PTL DEF ContextSpec

\* KeysGoFirst holds throughout, for any number of key objects and however they
\* are loaded, moved and cleared before or after the stop is requested.
THEOREM KeysAlwaysGoFirst == ContextSpec => []KeysGoFirst
<1>1. KeyInv => KeysGoFirst
  BY DEF KeyInv, KeysCounted, KeysGoFirst
<1> QED
  BY <1>1, KeyInvariant, PTL

\* The safety half of StopCompletes: a stop that was requested is under way when
\* no object holds a key and none was overwritten, unless DOCA has refused it.
StopNotForgotten ==
    class = "aes_gcm" /\ stopRequested /\ held = {} /\ overwritten = 0 =>
        ctx # "running" \/ refused

\* do_stop_if_able without keys.
LEMMA StopTried ==
    ASSUME Keys!DoStopIfAble(0)
    PROVE  ctx' # "running" \/ refused'
  BY DEF Keys!DoStopIfAble, Keys!Idle, Keys!ctxVars

\* Every step that leaves a requested stop without keys has tried it.
LEMMA StopNotForgottenStep ==
    KeyInv /\ StopNotForgotten /\ [ContextNext]_allVars => StopNotForgotten'
<1> SUFFICES ASSUME KeyInv, StopNotForgotten, [ContextNext]_allVars,
                    class' = "aes_gcm", stopRequested', held' = {}, overwritten' = 0
             PROVE  ctx' # "running" \/ refused'
  BY DEF StopNotForgotten
<1>1. CASE KeyStep
  <2>1. class = "aes_gcm" /\ Keys!Next
    BY <1>1 DEF KeyStep
  <2>2. CASE Keys!Stop
    <3>1. loaded = 0
      BY <2>2, FS_EmptySet DEF Keys!Stop, KeyInv, KeysCounted
    <3> QED
      BY <2>2, <3>1, StopTried DEF Keys!Stop
  <2>3. CASE Keys!AwaitStop \/ Keys!Stopped
    BY <2>1, <2>3, ZenonT(40) DEF Keys!AwaitStop, Keys!Stopped, Keys!Idle, StopNotForgotten
  <2>4. ASSUME NEW s \in Slots, Keys!LoadKey(s) PROVE FALSE
    BY <2>4 DEF Keys!LoadKey
  <2>5. ASSUME NEW s \in Slots, Keys!Clear(s) PROVE ctx' # "running" \/ refused'
    <3>1. KeysCounted' /\ stopRequested
      BY <1>1, <2>5, ClearKeeps, ZenonT(40) DEF KeyInv, KeyStep, poolVars, Keys!Clear
    <3>2. loaded' = 0
      BY <3>1, FS_EmptySet DEF KeysCounted
    <3> QED
      BY <2>5, <3>1, <3>2, StopTried DEF Keys!Clear, Keys!SignalKeyDestroyed
  <2>6. ASSUME NEW s \in Slots, NEW t \in Slots, Keys!MoveKey(s, t)
        PROVE  ctx' # "running" \/ refused'
    <3>1. t \notin held /\ held \subseteq {s}
      BY <2>6 DEF Keys!MoveKey
    <3>2. s \notin held /\ overwritten = 0
      BY <2>6 DEF Keys!MoveKey, Keys!Overwrite, KeyInv
    <3> QED
      BY <2>1, <2>6, <3>1, <3>2 DEF Keys!MoveKey, Keys!ctxVars, StopNotForgotten
  <2> QED
    BY <2>1, <2>2, <2>3, <2>4, <2>5, <2>6 DEF Keys!Next
<1>2. CASE PlainStop
  BY <1>2 DEF PlainStop, Stop, Stopped
<1>3. ASSUME NEW f \in Fibers, TaskStep(f) PROVE ctx' # "running" \/ refused'
  <2>1. UNCHANGED <<keyVars, class, ctx>>
    BY <1>3 DEF TaskStep, Call, Complete, ResumePosted, Resubmit, Continue
  <2> QED
    BY <2>1, SMTT(30) DEF keyVars, StopNotForgotten
<1>4. CASE UNCHANGED allVars
  BY <1>4 DEF allVars, poolVars, keyVars, StopNotForgotten
<1> QED
  BY <1>1, <1>2, <1>3, <1>4 DEF ContextNext

\* StopNotForgotten holds throughout: whichever of stop() and the last clear()
\* comes last, it calls doca_ctx_stop.
THEOREM StopIsNotForgotten == ContextSpec => []StopNotForgotten
<1>1. ContextInit => StopNotForgotten
  BY DEF ContextInit, Keys!Init, StopNotForgotten
<1> QED
  BY <1>1, KeyInvariant, StopNotForgottenStep, PTL DEF ContextSpec

=============================================================================
