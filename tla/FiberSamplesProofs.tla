------------------------- MODULE FiberSamplesProofs -------------------------
(***************************************************************************)
(* The windows of the C++ sample programs, for every number of blocks and  *)
(* every parallelism: what they keep, what they come to, and the memory    *)
(* that the reads of dma_client.cpp need.                                  *)
(***************************************************************************)
EXTENDS FiberSamples, Integers, FiniteSetTheorems, TLAPS

-----------------------------------------------------------------------------
(* Slots: the remainders of the iterations' numbers. *)

\* Division with remainder, as `i % slots` of the samples computes it.
LEMMA Remainder ==
    ASSUME NEW i \in Int, NEW s \in Nat \ {0}
    PROVE  /\ i = s * (i \div s) + (i % s)
           /\ i % s \in 0..(s - 1)
           /\ (i \div s) \in Int
  OBVIOUS

\* Every iteration has a slot.
LEMMA SlotRange ==
    ASSUME NEW i \in Nat, NEW s \in Nat \ {0}
    PROVE  i % s \in 0..(s - 1)
  OBVIOUS

\* The only multiple of s that is nearer to 0 than s is 0.
LEMMA NoMultiple ==
    ASSUME NEW q \in Int, NEW s \in Nat \ {0}, NEW d \in Int,
           d = s * q, -s < d, d < s
    PROVE  q = 0
<1>1. CASE q >= 1
  <2>1. s * q >= s * 1
    BY <1>1, SMT
  <2> QED BY <2>1
<1>2. CASE q <= -1
  <2>1. s * q <= s * (-1)
    BY <1>2, SMT
  <2> QED BY <2>1
<1> QED BY <1>1, <1>2

\* Iterations that are less than a window apart use different slots.
LEMMA SlotsDiffer ==
    ASSUME NEW i \in Int, NEW j \in Int, NEW s \in Nat \ {0}, j < i, i - j < s
    PROVE  i % s # j % s
<1> SUFFICES ASSUME i % s = j % s PROVE FALSE
  OBVIOUS
<1> DEFINE q == (i \div s) - (j \div s)
<1>1. i - j = s * (i \div s) - s * (j \div s)
  BY Remainder
<1>2. (i \div s) \in Int /\ (j \div s) \in Int /\ s \in Int
  BY Remainder
<1>3. \A a, b \in Int : s * a - s * b = s * (a - b)
  BY SMT
<1>4. i - j = s * q /\ q \in Int
  BY <1>1, <1>2, <1>3
<1> HIDE DEF q
<1>5. q = 0
  BY <1>4, NoMultiple
<1> QED BY <1>4, <1>5

\* Iterations that are a window apart use the same slot.
LEMMA SlotReused ==
    ASSUME NEW i \in Int, NEW s \in Nat \ {0}
    PROVE  (i - s) % s = i % s
<1> DEFINE q == (i \div s) - ((i - s) \div s) - 1
           d == ((i - s) % s) - (i % s)
<1>1. /\ i = s * (i \div s) + (i % s)
      /\ i - s = s * ((i - s) \div s) + ((i - s) % s)
  BY Remainder
<1>2. /\ (i \div s) \in Int /\ ((i - s) \div s) \in Int /\ s \in Int
      /\ i % s \in 0..(s - 1) /\ (i - s) % s \in 0..(s - 1)
  BY Remainder
<1>3. \A a, b \in Int : s * a - s * b - s = s * (a - b - 1)
  BY SMT
<1>4. d = s * q /\ q \in Int /\ d \in Int /\ -s < d /\ d < s
  BY <1>1, <1>2, <1>3
<1>5. q = 0
  BY <1>4, NoMultiple
<1> QED BY <1>4, <1>5, <1>2

\* The first iterations use one slot each.
LEMMA FirstSlots ==
    ASSUME NEW i \in Nat, NEW s \in Nat \ {0}, i < s
    PROVE  i % s = i
  OBVIOUS

\* An interval of a window less one, and block 0, are at most a window.
LEMMA WindowSize ==
    ASSUME NEW i \in Int, NEW s \in Nat \ {0}, NEW S,
           S \subseteq {0} \cup ((i - s + 1)..(i - 1))
    PROVE  Cardinality(S) < s + 1
<1> DEFINE I == (i - s + 1)..(i - 1)
<1>1. IsFiniteSet(I) /\ Cardinality(I) = IF i - s + 1 > i - 1 THEN 0 ELSE (i - 1) - (i - s + 1) + 1
  BY FS_Interval
<1>2. Cardinality(I) = s - 1
  BY <1>1
<1>3. IsFiniteSet(I \cup {0}) /\ Cardinality(I \cup {0}) <= Cardinality(I) + 1
  <2>1. /\ IsFiniteSet(I \cup {0})
        /\ Cardinality(I \cup {0}) = IF 0 \in I THEN Cardinality(I) ELSE Cardinality(I) + 1
    BY <1>1, FS_AddElement, ZenonT(40)
  <2> QED BY <2>1, <1>2
<1>4. S \subseteq I \cup {0}
  OBVIOUS
<1> HIDE DEF I
<1>5. Cardinality(S) <= Cardinality(I \cup {0}) /\ IsFiniteSet(S)
  BY <1>3, <1>4, FS_Subset, ZenonT(40)
<1>6. Cardinality(S) \in Nat /\ Cardinality(I \cup {0}) \in Nat
  BY <1>3, <1>5, FS_CardinalityType
<1> QED BY <1>2, <1>3, <1>5, <1>6
-----------------------------------------------------------------------------
(* The inductive invariant. *)

\* s has the fields of a window.
HasFields(s) ==
    s \in [block_count : {s.block_count}, slots : {s.slots}, tasks : {s.tasks},
           i : {s.i}, at : {s.at}, pending : {s.pending}, inflight : {s.inflight},
           good : {s.good}, dropped : {s.dropped}, serving : {s.serving},
           told : {s.told}]

\* s is a window: before its slots are filled, they are empty.
IsWindow(s) ==
    /\ HasFields(s)
    /\ s.slots \in Nat \ {0} /\ s.block_count \in Nat /\ s.i \in Nat
    /\ s.pending \in [0..(s.slots - 1) -> SUBSET Nat]
    /\ s.inflight \subseteq Nat
    /\ \A k \in 0..(s.slots - 1) : k >= s.i => s.pending[k] = {}

\* While nothing has failed, what is under way in dma_client.cpp is block 0 or in
\* the last slots iterations, and still in its slot; and an offload that is in a
\* slot has succeeded or is under way, because there was a task for it.
Undisturbed(s) ==
    /\ s.inflight \subseteq 0..(s.block_count - 1)
    /\ s.inflight \ {0} \subseteq (s.i - s.slots)..(s.i - 1)
    /\ \A b \in s.inflight \ {0} : b \in s.pending[b % s.slots]
    /\ \A k \in 0..(s.slots - 1) : s.pending[k] \subseteq s.good \cup s.inflight
    /\ s.i <= s.slots => s.pending[0] \subseteq {0}

CompressInv == IsWindow(st) /\ st.dropped = {}

\* f is a function of the processes.
OfProcesses(f) == f \in [Proc -> {f[p] : p \in Proc}]

DmaInv ==
    /\ IsWindow(st)
    /\ st.tasks = st.slots + 1
    /\ phase \in [Proc -> {"start", "loop", "ended"}]
    /\ OfProcesses(sends)
    /\ faults = {} => st.dropped \subseteq {0}
    /\ faults = {} /\ phase["client"] # "ended" =>
          /\ Undisturbed(st)
          /\ sends["client"] # <<>> => st.i = st.block_count + st.slots

WindowInv ==
    /\ program = "compress_fibers" => CompressInv
    /\ program = "dma_fibers" => DmaInv
-----------------------------------------------------------------------------
(* The steps. *)

\* An assignment for a process leaves the other one alone.
LEMMA ForProcess ==
    ASSUME NEW f, OfProcesses(f), NEW q \in Proc, NEW v
    PROVE  LET g == [f EXCEPT ![q] = v] IN
           OfProcesses(g) /\ \A p \in Proc : g[p] = IF p = q THEN v ELSE f[p]
  BY DEF OfProcesses

\* What an assignment to a slot does to a window: it stays one.
LEMMA LaunchKeepsWindow ==
    ASSUME NEW s, IsWindow(s)
    PROVE  LET l == Launch(s) IN
           /\ IsWindow(l)
           /\ l.slots = s.slots /\ l.block_count = s.block_count /\ l.tasks = s.tasks
           /\ l.i = s.i + 1 /\ l.good = s.good
           /\ l.pending = [s.pending EXCEPT ![s.i % s.slots] = {s.i}]
           /\ l.inflight = IF Cardinality(s.inflight) < s.tasks
                           THEN s.inflight \cup {s.i} ELSE s.inflight
           /\ l.dropped = s.dropped \cup (s.pending[s.i % s.slots] \cap s.inflight)
<1> DEFINE l == Launch(s)
<1>0. s.i \in Nat /\ s.slots \in Nat \ {0}
  BY DEF IsWindow
<1>1. s.i % s.slots \in 0..(s.slots - 1)
  BY <1>0, SlotRange
<1>2. l = [s EXCEPT !.i = s.i + 1,
                    !.pending = [s.pending EXCEPT ![s.i % s.slots] = {s.i}],
                    !.inflight = IF Cardinality(s.inflight) < s.tasks
                                 THEN s.inflight \cup {s.i} ELSE s.inflight,
                    !.dropped = s.dropped \cup (s.pending[s.i % s.slots] \cap s.inflight)]
  BY DEF IsWindow, HasFields, Launch, Slot
<1>3. /\ l.slots = s.slots /\ l.block_count = s.block_count /\ l.tasks = s.tasks
      /\ l.i = s.i + 1 /\ l.good = s.good
      /\ l.pending = [s.pending EXCEPT ![s.i % s.slots] = {s.i}]
      /\ l.inflight = IF Cardinality(s.inflight) < s.tasks
                      THEN s.inflight \cup {s.i} ELSE s.inflight
      /\ l.dropped = s.dropped \cup (s.pending[s.i % s.slots] \cap s.inflight)
      /\ HasFields(l)
  BY <1>2, ZenonT(40) DEF IsWindow, HasFields
<1> HIDE DEF l
<1>4. l.pending \in [0..(l.slots - 1) -> SUBSET Nat] /\ l.inflight \subseteq Nat
  BY <1>0, <1>1, <1>3 DEF IsWindow
<1>5. ASSUME NEW k \in 0..(l.slots - 1), k >= l.i PROVE l.pending[k] = {}
  <2>1. s.i < s.slots /\ s.i % s.slots = s.i
    BY <1>0, <1>3, <1>5, FirstSlots
  <2>2. k \in 0..(s.slots - 1) /\ k # s.i /\ k >= s.i
    BY <1>0, <1>3, <1>5
  <2>3. l.pending[k] = s.pending[k]
    BY <1>3, <2>1, <2>2, SMTT(30) DEF IsWindow
  <2> QED BY <2>2, <2>3 DEF IsWindow
<1>6. IsWindow(l)
  BY <1>0, <1>3, <1>4, <1>5 DEF IsWindow
<1> QED BY <1>3, <1>6 DEF l

\* compress_file of simple_compress.cpp and parallel_compress.cpp: an offload is
\* awaited before its awaitable is replaced.
LEMMA CompressInvStep ==
    ASSUME CompressInv, CompressSteps \/ CompressFailures
    PROVE  CompressInv'
<1>0. IsWindow(st) /\ st.dropped = {} /\ st.i \in Nat /\ st.slots \in Nat \ {0}
  BY DEF CompressInv, IsWindow
<1>1. CASE UNCHANGED st
  BY <1>0, <1>1 DEF CompressInv
<1>2. ASSUME NEW a, st' = [st EXCEPT !.at = a]
      PROVE  CompressInv'
  <2>1. /\ HasFields(st') /\ st'.dropped = st.dropped /\ st'.pending = st.pending
        /\ st'.i = st.i /\ st'.slots = st.slots /\ st'.block_count = st.block_count
        /\ st'.inflight = st.inflight
    BY <1>0, <1>2 DEF IsWindow, HasFields
  <2> QED BY <1>0, <2>1 DEF CompressInv, IsWindow
<1>3. ASSUME NEW b, NEW g, st' = [st EXCEPT !.inflight = st.inflight \ {b}, !.good = g]
      PROVE  CompressInv'
  <2>1. /\ HasFields(st') /\ st'.dropped = st.dropped /\ st'.pending = st.pending
        /\ st'.i = st.i /\ st'.slots = st.slots /\ st'.block_count = st.block_count
        /\ st'.inflight = st.inflight \ {b}
    BY <1>0, <1>3, ZenonT(40) DEF IsWindow, HasFields
  <2> QED BY <1>0, <2>1 DEF CompressInv, IsWindow
<1>4. CASE CompressIteration
  <2>1. st' = Launch(st) /\ (st.i >= st.slots => Ready(st, Slot(st)))
    BY <1>4 DEF CompressIteration
  <2>2. st.pending[st.i % st.slots] \cap st.inflight = {}
    <3>1. CASE st.i >= st.slots
      BY <2>1, <3>1 DEF Ready, Slot
    <3>2. CASE st.i < st.slots
      <4>1. st.i % st.slots = st.i /\ st.i \in 0..(st.slots - 1)
        BY <1>0, <3>2, FirstSlots
      <4>2. \A k \in 0..(st.slots - 1) : k >= st.i => st.pending[k] = {}
        BY <1>0 DEF IsWindow
      <4>3. st.i >= st.i
        BY <1>0
      <4>4. st.pending[st.i] = {}
        BY <4>1, <4>2, <4>3, Zenon
      <4>5. st.pending[st.i % st.slots] = {}
        BY <4>1, <4>4, ZenonT(40)
      <4> QED BY <4>5, Zenon
    <3> QED BY <1>0, <3>1, <3>2
  <2> QED BY <1>0, <2>1, <2>2, LaunchKeepsWindow, ZenonT(40) DEF CompressInv
<1>5. CASE \E b \in st.inflight : Completion(b) \/ FailedCompletion(b)
  <2>1. PICK b \in st.inflight : Completion(b) \/ FailedCompletion(b)
    BY <1>5
  <2>2. st' = [st EXCEPT !.inflight = st.inflight \ {b}, !.good = st.good \cup {b}]
        \/ st' = [st EXCEPT !.inflight = st.inflight \ {b}, !.good = st.good]
    BY <1>0, <2>1, ZenonT(40) DEF Completion, FailedCompletion, IsWindow, HasFields
  <2> QED BY <1>3, <2>2, ZenonT(40)
<1>6. CASE CompressRunning \/ CompressDrained \/ CompressStopped
  BY <1>1, <1>2, <1>6
  DEF CompressRunning, CompressDrained, CompressStopped
<1>7. CASE Begin("client", "client", TRUE) \/ Begin("client", "client", FALSE)
  BY <1>1, <1>7 DEF Begin
<1> QED BY <1>4, <1>5, <1>6, <1>7, ZenonT(40) DEF CompressSteps, CompressFailures

\* A step that leaves the window of dma_client.cpp as it is.
SameWindow ==
    /\ HasFields(st')
    /\ st'.block_count = st.block_count /\ st'.slots = st.slots /\ st'.tasks = st.tasks
    /\ st'.i = st.i /\ st'.pending = st.pending /\ st'.inflight = st.inflight
    /\ st'.good = st.good /\ st'.dropped = st.dropped

\* What a step may do to the processes: an end and a failure are for good, and
\* only send_done begins a send of the client.
Onward ==
    /\ phase' \in [Proc -> {"start", "loop", "ended"}]
    /\ OfProcesses(sends')
    /\ faults \subseteq faults'
    /\ phase["client"] = "ended" => phase'["client"] = "ended"
    /\ sends'["client"] # <<>> =>
          sends["client"] # <<>> \/ st.i = st.block_count + st.slots

\* Only at, serving and told are assigned.
LEMMA FieldsKept ==
    ASSUME HasFields(st), NEW a, NEW b,
           \/ UNCHANGED st
           \/ st' = [st EXCEPT !.at = a]
           \/ st' = [st EXCEPT !.serving = a]
           \/ st' = [st EXCEPT !.serving = a, !.told = b]
    PROVE  SameWindow
<1>1. CASE UNCHANGED st
  BY <1>1 DEF SameWindow, HasFields
<1>2. CASE st' = [st EXCEPT !.at = a]
  BY <1>2 DEF SameWindow, HasFields
<1>3. CASE st' = [st EXCEPT !.serving = a]
  BY <1>3 DEF SameWindow, HasFields
<1>4. CASE st' = [st EXCEPT !.serving = a, !.told = b]
  BY <1>4, ZenonT(40) DEF SameWindow, HasFields
<1> QED BY <1>1, <1>2, <1>3, <1>4

\* The invariant is about the window and the processes.
LEMMA SameWindowStep ==
    ASSUME DmaInv, SameWindow, Onward
    PROVE  DmaInv'
<1>1. IsWindow(st)'
  BY DEF DmaInv, IsWindow, SameWindow
<1>2. faults' = {} => faults = {}
  BY DEF Onward
<1>3. Undisturbed(st) => Undisturbed(st)'
  BY DEF Undisturbed, SameWindow
<1> QED BY <1>1, <1>2, <1>3 DEF DmaInv, SameWindow, Onward

\* DOCA completes an offload of dma_client.cpp, or lets it fail.
LEMMA DmaCompletionStep ==
    ASSUME DmaInv, NEW b \in st.inflight,
           Completion(b) \/ FailedCompletion(b)
    PROVE  DmaInv'
<1>0. IsWindow(st) /\ HasFields(st)
  BY DEF DmaInv, IsWindow
<1>1. /\ HasFields(st')
      /\ st'.block_count = st.block_count /\ st'.slots = st.slots /\ st'.tasks = st.tasks
      /\ st'.i = st.i /\ st'.pending = st.pending /\ st'.inflight = st.inflight \ {b}
      /\ st'.dropped = st.dropped /\ UNCHANGED <<phase, sends>>
  BY <1>0, ZenonT(40) DEF HasFields, Completion, FailedCompletion
<1>2. IsWindow(st)'
  BY <1>0, <1>1 DEF IsWindow
<1>3. CASE FailedCompletion(b)
  <2>1. faults' # {}
    BY <1>3, ZenonT(40) DEF FailedCompletion
  <2> QED BY <1>1, <1>2, <2>1 DEF DmaInv
<1>4. CASE Completion(b)
  <2>1. UNCHANGED faults /\ st'.good = st.good \cup {b}
    BY <1>0, <1>4 DEF HasFields, Completion
  <2>2. Undisturbed(st) => Undisturbed(st)'
    BY <1>1, <2>1 DEF Undisturbed
  <2> QED BY <1>1, <1>2, <2>1, <2>2 DEF DmaInv
<1> QED BY <1>3, <1>4

\* The fiber of dma_client.cpp ends with nothing but block 0 under way, or after a
\* failure.
LEMMA ReturnStep ==
    ASSUME DmaInv, NEW cause, Return(cause),
           cause = "none" /\ faults = {} => st.inflight \subseteq {0}
    PROVE  DmaInv'
<1> DEFINE D == (UNION Range(st.pending)) \cap st.inflight
<1>1. IsWindow(st) /\ HasFields(st)
  BY DEF DmaInv, IsWindow
<1>2. st' = [st EXCEPT !.at = "end", !.inflight = {}, !.dropped = st.dropped \cup D]
  BY DEF Return
<1>3. /\ phase' = [phase EXCEPT !["client"] = "ended"]
      /\ sends' = [sends EXCEPT !["client"] = <<>>]
      /\ faults' = IF cause = "none" THEN faults ELSE faults \cup {<<"client", cause>>}
  BY DEF Return
<1>4. D \subseteq st.inflight
  OBVIOUS
<1> HIDE DEF D
<1>5. /\ HasFields(st')
      /\ st'.block_count = st.block_count /\ st'.slots = st.slots /\ st'.tasks = st.tasks
      /\ st'.i = st.i /\ st'.pending = st.pending /\ st'.inflight = {}
      /\ st'.dropped = st.dropped \cup D
  BY <1>1, <1>2, ZenonT(40) DEF HasFields
<1>6. IsWindow(st)'
  BY <1>1, <1>5 DEF IsWindow
<1>7. /\ phase' \in [Proc -> {"start", "loop", "ended"}]
      /\ phase'["client"] = "ended"
  BY <1>3 DEF DmaInv, Proc
<1>8. OfProcesses(sends')
  BY <1>3, ForProcess, ZenonT(40) DEF DmaInv, Proc
<1>9. faults' = {} => cause = "none" /\ faults = {}
  BY <1>3, ZenonT(40)
<1>10. faults' = {} => st'.dropped \subseteq {0}
  <2>1. faults = {} => st.dropped \subseteq {0}
    BY DEF DmaInv
  <2> QED BY <1>4, <1>5, <1>9, <2>1
<1> QED BY <1>5, <1>6, <1>7, <1>8, <1>10 DEF DmaInv

\* After the loop, only block 0 may be under way when "done" is sent.
LEMMA SentStep ==
    ASSUME DmaInv, done_sent \/ done_not_sent
    PROVE  DmaInv'
<1>1. CASE done_sent
  <2>1. phase["client"] # "ended" /\ sends["client"] # <<>> /\ Return("none")
    BY <1>1 DEF done_sent
  <2>2. ASSUME faults = {} PROVE st.inflight \subseteq {0}
    <3>1. Undisturbed(st) /\ st.i = st.block_count + st.slots
      BY <2>1, <2>2 DEF DmaInv
    <3>2. st.i \in Nat /\ st.block_count \in Nat /\ st.slots \in Nat
      BY DEF DmaInv, IsWindow
    <3> QED BY <3>1, <3>2 DEF Undisturbed
  <2> QED BY <2>1, <2>2, ReturnStep
<1>2. CASE done_not_sent
  BY <1>2, ReturnStep DEF done_not_sent
<1> QED BY <1>1, <1>2

\* An iteration of dma_client.cpp that does not end the fiber, before anything has
\* failed: the slot has been waited for, or it is empty, or it holds block 0.
LEMMA SlotFree ==
    ASSUME IsWindow(st), Undisturbed(st),
           AwaitsFirst(st) => Ready(st, Slot(st))
    PROVE  /\ st.pending[st.i % st.slots] \cap st.inflight \subseteq {0}
           /\ st.inflight \ {0} \subseteq (st.i + 1 - st.slots)..(st.i - 1)
<1>0. st.i \in Nat /\ st.slots \in Nat \ {0} /\ st.inflight \subseteq Nat
  BY DEF IsWindow
<1>1. st.pending[st.i % st.slots] \cap st.inflight \subseteq {0}
  <2>1. CASE st.i > st.slots
    BY <2>1 DEF AwaitsFirst, Ready, Slot
  <2>2. CASE st.i = st.slots
    <3>1. st.i % st.slots = 0
      BY <1>0, <2>2
    <3> QED BY <1>0, <2>2, <3>1 DEF Undisturbed
  <2>3. CASE st.i < st.slots
    <3>1. st.i % st.slots = st.i /\ st.i \in 0..(st.slots - 1)
      BY <1>0, <2>3, FirstSlots
    <3> QED BY <1>0, <3>1, SMTT(30) DEF IsWindow
  <2> QED BY <1>0, <2>1, <2>2, <2>3, SMTT(30)
<1>2. ASSUME NEW b \in st.inflight \ {0} PROVE b \in (st.i + 1 - st.slots)..(st.i - 1)
  <2>1. b \in (st.i - st.slots)..(st.i - 1) /\ b \in st.pending[b % st.slots]
    BY <1>2 DEF Undisturbed
  <2>2. ASSUME b = st.i - st.slots PROVE FALSE
    <3>0. st.i \in Int
      BY <1>0
    <3>1. (st.i - st.slots) % st.slots = st.i % st.slots
      BY <1>0, <3>0, SlotReused, ZenonT(40)
    <3> QED BY <1>1, <1>2, <2>1, <2>2, <3>1, SMTT(30)
  <2> QED BY <1>0, <2>1, <2>2
<1> QED BY <1>1, <1>2

\* The next iteration of dma_client.cpp, with a new offload.
LEMMA LaunchUndisturbed ==
    ASSUME IsWindow(st), Undisturbed(st), st.tasks = st.slots + 1,
           AwaitsFirst(st) => Ready(st, Slot(st)),
           st.i < st.block_count, st' = Launch(st)
    PROVE  Undisturbed(st)' /\ st'.dropped \subseteq st.dropped \cup {0}
<1>0. /\ st.i \in Nat /\ st.slots \in Nat \ {0} /\ st.block_count \in Nat
      /\ st.pending \in [0..(st.slots - 1) -> SUBSET Nat] /\ st.inflight \subseteq Nat
  BY DEF IsWindow
<1>1. /\ st.pending[st.i % st.slots] \cap st.inflight \subseteq {0}
      /\ st.inflight \ {0} \subseteq (st.i + 1 - st.slots)..(st.i - 1)
  BY SlotFree
<1>2. Cardinality(st.inflight) < st.tasks
  <2>1. st.inflight \subseteq {0} \cup ((st.i - st.slots + 1)..(st.i - 1))
    BY <1>0, <1>1, SMTT(30)
  <2>2. st.i \in Int
    BY <1>0
  <2>3. Cardinality(st.inflight) < st.slots + 1
    BY <1>0, <2>1, <2>2, WindowSize, ZenonT(40)
  <2> QED BY <2>3
<1>3. /\ st'.slots = st.slots /\ st'.block_count = st.block_count
      /\ st'.i = st.i + 1 /\ st'.good = st.good
      /\ st'.inflight = st.inflight \cup {st.i}
      /\ st'.dropped = st.dropped \cup (st.pending[st.i % st.slots] \cap st.inflight)
  BY <1>2, LaunchKeepsWindow, ZenonT(40)
<1>4. st'.pending = [st.pending EXCEPT ![st.i % st.slots] = {st.i}]
  BY LaunchKeepsWindow, ZenonT(40)
<1>5. st.i % st.slots \in 0..(st.slots - 1)
  BY <1>0, SlotRange, ZenonT(40)
<1>6. /\ st'.pending[st.i % st.slots] = {st.i}
      /\ \A k \in 0..(st.slots - 1) : k # st.i % st.slots => st'.pending[k] = st.pending[k]
  BY <1>0, <1>4, <1>5
<1>7. st'.inflight \subseteq 0..(st'.block_count - 1)
  BY <1>0, <1>3 DEF Undisturbed
<1>8. st'.inflight \ {0} \subseteq (st'.i - st'.slots)..(st'.i - 1)
  BY <1>0, <1>1, <1>3
<1>9. ASSUME NEW b \in st'.inflight \ {0} PROVE b \in st'.pending[b % st'.slots]
  <2>1. CASE b = st.i
    BY <1>3, <1>6, <2>1
  <2>2. CASE b # st.i
    <3>1. b \in st.inflight \ {0} /\ b \in Nat /\ b < st.i /\ st.i - b < st.slots
      BY <1>0, <1>1, <1>3, <1>9, <2>2, SMTT(30)
    <3>2. b % st.slots # st.i % st.slots
      BY <1>0, <3>1, SlotsDiffer
    <3>3. b % st.slots \in 0..(st.slots - 1)
      BY <1>0, <3>1, SlotRange, ZenonT(40)
    <3>4. b \in st.pending[b % st.slots]
      BY <3>1 DEF Undisturbed
    <3> QED BY <1>3, <1>6, <3>2, <3>3, <3>4, SMTT(30)
  <2> QED BY <2>1, <2>2
<1>10. \A k \in 0..(st'.slots - 1) : st'.pending[k] \subseteq st'.good \cup st'.inflight
  BY <1>3, <1>6 DEF Undisturbed
<1>11. st'.i <= st'.slots => st'.pending[0] \subseteq {0}
  <2>1. SUFFICES ASSUME st.i < st.slots PROVE st'.pending[0] \subseteq {0}
    BY <1>0, <1>3
  <2>2. st.i % st.slots = st.i
    BY <1>0, <2>1, FirstSlots, ZenonT(40)
  <2> QED BY <1>0, <1>6, <2>1, <2>2, SMTT(30) DEF Undisturbed
<1> QED BY <1>1, <1>3, <1>7, <1>8, <1>9, <1>10, <1>11, SMTT(30) DEF Undisturbed

\* An iteration of dma_client.cpp: unless something has failed, what it waited for
\* has succeeded.
LEMMA IterationStep ==
    ASSUME DmaInv, dma_iteration
    PROVE  DmaInv'
<1> DEFINE Fails == AwaitsFirst(st) /\ ~(st.pending[Slot(st)] \subseteq st.good)
<1>0. /\ IsWindow(st) /\ HasFields(st)
      /\ st.i \in Nat /\ st.slots \in Nat \ {0} /\ st.block_count \in Nat
  BY DEF DmaInv, IsWindow
<1>1. /\ phase["client"] # "ended" /\ st.i < st.block_count + st.slots
      /\ AwaitsFirst(st) => Ready(st, Slot(st))
  BY DEF dma_iteration
<1>2. faults = {} => Undisturbed(st) /\ sends["client"] = <<>>
  BY <1>0, <1>1 DEF DmaInv
<1>3. CASE Fails
  <2>1. Return("none")
    BY <1>3 DEF dma_iteration
  <2>2. ASSUME faults = {} PROVE FALSE
    <3>1. st.i % st.slots \in 0..(st.slots - 1)
      BY <1>0, SlotRange, SMTT(30)
    <3>2. st.pending[st.i % st.slots] \subseteq st.good \cup st.inflight
      BY <1>2, <2>2, <3>1 DEF Undisturbed
    <3> QED BY <1>1, <1>3, <3>2 DEF Ready, Slot
  <2> QED BY <2>1, <2>2, ReturnStep
<1>4. CASE ~Fails
  <2>1. /\ UNCHANGED <<phase, sends, faults>>
        /\ st' = IF st.i < st.block_count THEN Launch(st) ELSE [st EXCEPT !.i = st.i + 1]
    BY <1>4 DEF dma_iteration
  <2>2. CASE st.i < st.block_count
    <3>1. st' = Launch(st)
      BY <2>1, <2>2
    <3>2. IsWindow(st)' /\ st'.slots = st.slots /\ st'.tasks = st.tasks
      BY <1>0, <3>1, LaunchKeepsWindow, ZenonT(40)
    <3>3. faults = {} => Undisturbed(st)' /\ st'.dropped \subseteq st.dropped \cup {0}
      BY <1>0, <1>1, <1>2, <2>2, <3>1, LaunchUndisturbed DEF DmaInv
    <3>4. faults = {} => st'.dropped \subseteq {0}
      BY <3>3 DEF DmaInv
    <3> QED BY <1>2, <2>1, <3>2, <3>3, <3>4 DEF DmaInv
  <2>3. CASE ~(st.i < st.block_count)
    <3>1. /\ HasFields(st')
          /\ st'.block_count = st.block_count /\ st'.slots = st.slots
          /\ st'.tasks = st.tasks /\ st'.i = st.i + 1 /\ st'.pending = st.pending
          /\ st'.inflight = st.inflight /\ st'.good = st.good /\ st'.dropped = st.dropped
      BY <1>0, <2>1, <2>3 DEF HasFields
    <3>2. IsWindow(st)'
      BY <1>0, <3>1, SMTT(30) DEF IsWindow
    <3>3. ASSUME faults = {} PROVE Undisturbed(st)'
      <4>1. st.inflight \ {0} \subseteq (st.i + 1 - st.slots)..(st.i - 1)
        BY <1>0, <1>1, <1>2, <3>3, SlotFree, SMTT(30)
      <4>2. st'.inflight \ {0} \subseteq (st'.i - st'.slots)..(st'.i - 1)
        BY <1>0, <3>1, <4>1
      <4>3. Undisturbed(st)
        BY <1>2, <3>3
      <4> QED BY <1>0, <3>1, <4>2, <4>3 DEF Undisturbed
    <3> QED BY <1>2, <2>1, <3>1, <3>2, <3>3, SMTT(30) DEF DmaInv
  <2> QED BY <2>2, <2>3
<1> QED BY <1>3, <1>4

\* The steps of the processes that do not concern the window.
LEMMA OtherStep ==
    ASSUME DmaInv,
           \/ \E p \in Proc : Begin(p, p, TRUE) \/ Begin(p, p, FALSE) \/ Arrives(p)
           \/ client_created \/ extents_received \/ dma_created \/ client_not_created
           \/ send_done \/ dma_serve \/ extents_not_sent \/ Throw("exception")
    PROVE  DmaInv'
<1>0. HasFields(st) /\ phase \in [Proc -> {"start", "loop", "ended"}] /\ OfProcesses(sends)
  BY DEF DmaInv, IsWindow
<1>1. ASSUME UNCHANGED <<phase, sends>>, faults \subseteq faults', SameWindow
      PROVE  DmaInv'
  BY <1>0, <1>1, SameWindowStep DEF Onward
<1>2. ASSUME NEW v, sends' = [sends EXCEPT !["server"] = v], UNCHANGED phase,
             faults \subseteq faults', SameWindow
      PROVE  DmaInv'
  <2>1. OfProcesses(sends') /\ sends'["client"] = sends["client"]
    BY <1>0, <1>2, ForProcess, ZenonT(40) DEF Proc
  <2> QED BY <1>0, <1>2, <2>1, SameWindowStep DEF Onward
<1>3. ASSUME NEW p \in Proc, Begin(p, p, TRUE) \/ Begin(p, p, FALSE) PROVE DmaInv'
  <2>1. UNCHANGED <<st, sends>> /\ faults \subseteq faults'
    BY <1>3 DEF Begin
  <2>2. PICK v \in {"loop", "ended"} : phase' = [phase EXCEPT ![p] = v] /\ phase[p] = "start"
    BY <1>3 DEF Begin
  <2>3. /\ phase' \in [Proc -> {"start", "loop", "ended"}]
        /\ phase["client"] = "ended" => phase'["client"] = "ended"
    BY <1>0, <2>2 DEF Proc
  <2>4. SameWindow
    BY <1>0, <2>1, FieldsKept
  <2> QED BY <1>0, <2>1, <2>3, <2>4, SameWindowStep DEF Onward
<1>4. ASSUME NEW p \in Proc, Arrives(p) PROVE DmaInv'
  <2>0. PICK v : sends' = [sends EXCEPT ![p] = v]
    BY <1>4, ZenonT(40) DEF Arrives
  <2>1. UNCHANGED <<st, phase, faults>> /\ sends[p] # <<>>
    BY <1>4 DEF Arrives
  <2>2. OfProcesses(sends') /\ (sends'["client"] # <<>> => sends["client"] # <<>>)
    <3>1. "client" \in Proc
      BY DEF Proc
    <3>2. /\ OfProcesses([sends EXCEPT ![p] = v])
          /\ \A q \in Proc : [sends EXCEPT ![p] = v][q] = IF q = p THEN v ELSE sends[q]
      BY <1>0 DEF OfProcesses
    <3>3. sends'["client"] = IF "client" = p THEN v ELSE sends["client"]
      BY <2>0, <3>1, <3>2
    <3> QED BY <2>0, <2>1, <3>2, <3>3
  <2>3. SameWindow
    BY <1>0, <2>1, FieldsKept, SMTT(30)
  <2> QED BY <1>0, <2>1, <2>2, <2>3, SameWindowStep, SMTT(30) DEF Onward
<1>5. CASE client_created \/ extents_received \/ dma_created \/ client_not_created \/ ServerRuns
  <2>1. /\ UNCHANGED <<phase, sends>> /\ faults \subseteq faults'
        /\ UNCHANGED st \/ \E a : st' = [st EXCEPT !.at = a]
    BY <1>5 DEF client_created, extents_received, dma_created, client_not_created, ServerRuns
  <2> QED BY <1>0, <1>1, <2>1, FieldsKept, ZenonT(40)
<1>6. CASE send_done
  <2>1. /\ UNCHANGED <<phase, faults>> /\ st' = [st EXCEPT !.at = "send"]
        /\ st.i = st.block_count + st.slots
        /\ sends' = [sends EXCEPT !["client"] = <<[msg |-> "done", arrived |-> FALSE]>>]
    BY <1>6 DEF send_done
  <2>2. OfProcesses(sends')
    BY <1>0, <2>1, ForProcess, ZenonT(40) DEF Proc
  <2>3. SameWindow
    BY <1>0, <2>1, FieldsKept, ZenonT(40)
  <2> QED BY <1>0, <2>1, <2>2, <2>3, SameWindowStep DEF Onward
<1>7. CASE handle_connection \/ extents_sent \/ extents_not_sent
  <2>1. /\ UNCHANGED phase /\ faults \subseteq faults'
        /\ \E v : sends' = [sends EXCEPT !["server"] = v]
        /\ \/ \E a : st' = [st EXCEPT !.serving = a]
           \/ \E a, b : st' = [st EXCEPT !.serving = a, !.told = b]
    BY <1>7, ZenonT(40) DEF handle_connection, extents_sent, extents_not_sent, SendDone, Leave
  <2>2. SameWindow
    BY <1>0, <2>1, FieldsKept, ZenonT(40)
  <2> QED BY <1>2, <2>1, <2>2, ZenonT(40)
<1>8. CASE Throw("exception")
  <2>1. /\ phase' = [phase EXCEPT !["server"] = "ended"]
        /\ sends' = [sends EXCEPT !["server"] = <<>>]
        /\ faults \subseteq faults'
        /\ st' = [st EXCEPT !.serving = "end", !.told = st.told]
    BY <1>8 DEF Throw, Leave
  <2>2. OfProcesses(sends') /\ sends'["client"] = sends["client"]
    BY <1>0, <2>1, ForProcess, ZenonT(40) DEF Proc
  <2>3. phase' \in [Proc -> {"start", "loop", "ended"}] /\ phase'["client"] = phase["client"]
    BY <1>0, <2>1 DEF Proc
  <2>4. SameWindow
    BY <1>0, <2>1, FieldsKept, ZenonT(40)
  <2> QED BY <2>1, <2>2, <2>3, <2>4, SameWindowStep, SMTT(30) DEF Onward
<1>9. CASE done_received \/ server_disconnected
  <2>1. /\ UNCHANGED <<phase, sends>> /\ faults \subseteq faults'
        /\ UNCHANGED st \/ \E a, b : st' = [st EXCEPT !.serving = a, !.told = b]
    BY <1>9, ZenonT(40) DEF done_received, server_disconnected, Leave
  <2>2. SameWindow
    BY <1>0, <2>1, FieldsKept, ZenonT(40)
  <2> QED BY <1>1, <2>1, <2>2, ZenonT(40)
<1> QED BY <1>3, <1>4, <1>5, <1>6, <1>7, <1>8, <1>9, ZenonT(40) DEF dma_serve

\* All steps of dma_client.cpp and dma_server.cpp.
LEMMA DmaInvStep ==
    ASSUME DmaInv, DmaSteps \/ DmaFailures
    PROVE  DmaInv'
<1>1. CASE \E b \in st.inflight : Completion(b) \/ FailedCompletion(b)
  BY <1>1, DmaCompletionStep
<1>2. CASE client_disconnected
  <2>1. CASE Return("exception")
    BY <2>1, ReturnStep
  <2>2. CASE UNCHANGED <<phase, sends, st, faults>>
    <3>1. SameWindow
      BY <2>2, FieldsKept DEF DmaInv, IsWindow
    <3> QED BY <2>2, <3>1, SameWindowStep DEF Onward, DmaInv
  <2> QED BY <1>2, <2>1, <2>2 DEF client_disconnected
<1>3. CASE Return("exception")
  BY <1>3, ReturnStep
<1>4. CASE dma_iteration
  BY <1>4, IterationStep
<1>5. CASE done_sent \/ done_not_sent
  BY <1>5, SentStep
<1>6. CASE \/ \E p \in Proc : Begin(p, p, TRUE) \/ Begin(p, p, FALSE) \/ Arrives(p)
           \/ client_created \/ extents_received \/ dma_created \/ client_not_created
           \/ send_done \/ dma_serve \/ extents_not_sent \/ Throw("exception")
  BY <1>6, OtherStep, ZenonT(40)
<1> QED BY <1>1, <1>2, <1>3, <1>4, <1>5, <1>6, ZenonT(40) DEF DmaSteps, DmaFailures

-----------------------------------------------------------------------------
(* The result. *)

\* std::vector<status_awaitable<>>(slots): the awaitables have no offload yet.
LEMMA FreshWindow ==
    ASSUME NEW n \in Nat, NEW slots \in Nat \ {0}, NEW tasks, NEW s,
           s = Window(n, slots, tasks)
    PROVE  /\ IsWindow(s) /\ s.dropped = {} /\ Undisturbed(s)
           /\ s.slots = slots /\ s.tasks = tasks
<1>1. /\ s.block_count = n /\ s.slots = slots /\ s.tasks = tasks /\ s.i = 0
      /\ s.pending = [k \in 0..(slots - 1) |-> {}] /\ s.inflight = {}
      /\ s.good = {} /\ s.dropped = {}
  BY DEF Window
<1>2. HasFields(s)
  BY DEF Window, HasFields
<1>3. 0 \in 0..(slots - 1)
  OBVIOUS
<1> QED BY <1>1, <1>2, <1>3 DEF IsWindow, Undisturbed

\* The programs begin with a window that is empty.
LEMMA WindowInit == Init => WindowInv
<1> SUFFICES ASSUME Init PROVE WindowInv
  OBVIOUS
<1>1. CASE program = "compress_fibers"
  <2>1. PICK n \in BlockCounts : st = Window(n, 1, 16) \/ st = Window(n, 4, 4)
    BY <1>1 DEF Init, compress_file
  <2>2. n \in Nat
    BY WorkAssumption
  <2> QED BY <1>1, <2>1, <2>2, FreshWindow DEF WindowInv, CompressInv
<1>2. CASE program = "dma_fibers"
  <2>1. PICK n \in BlockCounts, p \in Parallelisms :
          st = LET slots == IF p < n THEN p ELSE n IN Window(n, slots, slots + 1)
    BY <1>2 DEF Init, dma_transfer
  <2>2. n \in Nat /\ (IF p < n THEN p ELSE n) \in Nat \ {0}
    BY WorkAssumption
  <2>3. /\ IsWindow(st) /\ st.dropped = {} /\ Undisturbed(st) /\ st.tasks = st.slots + 1
    BY <2>1, <2>2, FreshWindow
  <2>4. phase \in [Proc -> {"start", "loop", "ended"}] /\ sends = [q \in Proc |-> <<>>]
    BY <1>2 DEF Init, Blank
  <2>5. OfProcesses(sends) /\ sends["client"] = <<>>
    BY <2>4 DEF OfProcesses, Proc
  <2> QED BY <1>2, <2>3, <2>4, <2>5 DEF WindowInv, DmaInv
<1> QED BY <1>1, <1>2 DEF WindowInv

\* Every step of either program keeps the invariant.
LEMMA WindowStep == WindowInv /\ [Next]_vars => WindowInv'
<1> SUFFICES ASSUME WindowInv, [Next]_vars PROVE WindowInv'
  OBVIOUS
<1>1. CASE UNCHANGED vars
  BY <1>1 DEF vars, WindowInv, CompressInv, DmaInv
<1>2. CASE Next
  <2>1. UNCHANGED program
    BY <1>2 DEF Next
  <2>2. CASE program = "compress_fibers"
    BY <1>2, <2>1, <2>2, CompressInvStep DEF Next, Steps, Failures, WindowInv
  <2>3. CASE program = "dma_fibers"
    BY <1>2, <2>1, <2>3, DmaInvStep DEF Next, Steps, Failures, WindowInv
  <2> QED BY <2>1, <2>2, <2>3 DEF WindowInv
<1> QED BY <1>1, <1>2

\* Whatever the number of blocks, the parallelism and the order of completions, a
\* slot of a window (parallel_compress.cpp:65, dma_client.cpp:84) is reused, or
\* goes out of scope, only when its offload is complete, but for block 0 of
\* dma_client.cpp, and for what a failure leaves behind there.
THEOREM AwaitablesAlwaysKept == Spec => []AwaitablesKept
<1>1. WindowInv => AwaitablesKept
  BY DEF WindowInv, CompressInv, DmaInv, AwaitablesKept
<1> QED BY <1>1, WindowInit, WindowStep, PTL DEF Spec
-----------------------------------------------------------------------------
(* What the windows come to. *)

\* While nothing has failed, each block that compress_file has offloaded is done
\* or under way, and if it is under way it is in its slot and not older than the
\* window.
CompressProgress(s) ==
    /\ s.good \cup s.inflight = 0..(s.i - 1)
    /\ s.i <= s.block_count
    /\ s.inflight \subseteq (s.i - s.slots)..(s.i - 1)
    /\ \A b \in s.inflight : b \in s.pending[b % s.slots]

CtxStates == {"none", "starting", "running", "stopping", "idle"}

CompressResult ==
    /\ st.slots \in Nat /\ st.tasks \in Nat /\ st.slots <= st.tasks
    /\ phase \in [Proc -> {"start", "loop", "ended"}]
    /\ ctx \in [Ctx -> CtxStates]
    /\ ctx["client"] = "stopping" => st.at = "stop"
    /\ faults = {} =>
        /\ CompressProgress(st)
        /\ st.at \in {"stop", "end"} => st.inflight = {} /\ st.i = st.block_count
        /\ phase["client"] = "ended" => st.at = "end" \/ st.slots > st.block_count

\* The blocks of a window less one.
LEMMA YoungerSize ==
    ASSUME NEW i \in Int, NEW s \in Nat \ {0}, NEW S, S \subseteq (i - s + 1)..(i - 1)
    PROVE  Cardinality(S) \in Nat /\ Cardinality(S) < s
<1> DEFINE I == (i - s + 1)..(i - 1)
<1>1. IsFiniteSet(I) /\ Cardinality(I) = IF i - s + 1 > i - 1 THEN 0 ELSE (i - 1) - (i - s + 1) + 1
  BY FS_Interval
<1>2. Cardinality(I) = s - 1
  BY <1>1
<1>3. S \subseteq I
  OBVIOUS
<1> HIDE DEF I
<1>4. Cardinality(S) <= Cardinality(I) /\ IsFiniteSet(S)
  BY <1>1, <1>3, FS_Subset, ZenonT(40)
<1>5. Cardinality(S) \in Nat /\ Cardinality(I) \in Nat
  BY <1>1, <1>4, FS_CardinalityType
<1> QED BY <1>2, <1>4, <1>5

\* The next iteration of compress_file: there is a task for its offload, because
\* what was in its slot is done.
LEMMA LaunchCompresses ==
    ASSUME IsWindow(st), CompressProgress(st), st.tasks \in Nat, st.slots <= st.tasks,
           st.i >= st.slots => Ready(st, Slot(st)),
           st.i < st.block_count, st' = Launch(st)
    PROVE  CompressProgress(st)'
<1>0. /\ st.i \in Nat /\ st.i \in Int /\ st.slots \in Nat \ {0} /\ st.block_count \in Nat
      /\ st.pending \in [0..(st.slots - 1) -> SUBSET Nat] /\ st.inflight \subseteq Nat
  BY DEF IsWindow
<1>1. ASSUME NEW b \in st.inflight PROVE b \in (st.i - st.slots + 1)..(st.i - 1)
  <2>1. b \in (st.i - st.slots)..(st.i - 1) /\ b \in st.pending[b % st.slots] /\ b \in Nat
    BY <1>0, <1>1 DEF CompressProgress
  <2>2. ASSUME b = st.i - st.slots PROVE FALSE
    <3>1. (st.i - st.slots) % st.slots = st.i % st.slots
      BY <1>0, SlotReused, ZenonT(40)
    <3>2. st.i >= st.slots
      BY <1>0, <2>1, <2>2
    <3>3. st.pending[st.i % st.slots] \cap st.inflight = {}
      BY <3>2 DEF Ready, Slot
    <3>4. b \in st.pending[st.i % st.slots]
      BY <2>1, <2>2, <3>1, ZenonT(40)
    <3> QED BY <1>1, <3>3, <3>4, ZenonT(40)
  <2> QED BY <1>0, <2>1, <2>2
<1>2. Cardinality(st.inflight) < st.tasks
  <2>1. st.inflight \subseteq (st.i - st.slots + 1)..(st.i - 1)
    BY <1>1
  <2>2. Cardinality(st.inflight) \in Nat /\ Cardinality(st.inflight) < st.slots
    BY <1>0, <2>1, YoungerSize, ZenonT(40)
  <2> QED BY <1>0, <2>2
<1>3. /\ st'.slots = st.slots /\ st'.block_count = st.block_count
      /\ st'.i = st.i + 1 /\ st'.good = st.good
      /\ st'.inflight = st.inflight \cup {st.i}
      /\ st'.pending = [st.pending EXCEPT ![st.i % st.slots] = {st.i}]
  BY <1>2, LaunchKeepsWindow, ZenonT(40)
<1>4. st.i % st.slots \in 0..(st.slots - 1)
  BY <1>0, SlotRange, ZenonT(40)
<1>5. /\ st'.pending[st.i % st.slots] = {st.i}
      /\ \A k \in 0..(st.slots - 1) : k # st.i % st.slots => st'.pending[k] = st.pending[k]
  BY <1>0, <1>3, <1>4
<1>6. st'.good \cup st'.inflight = 0..(st'.i - 1)
  <2>1. st.good \cup st.inflight = 0..(st.i - 1)
    BY DEF CompressProgress
  <2>2. 0..(st.i - 1) \cup {st.i} = 0..((st.i + 1) - 1)
    BY <1>0
  <2> QED BY <1>3, <2>1, <2>2, ZenonT(40)
<1>7. st'.inflight \subseteq (st'.i - st'.slots)..(st'.i - 1)
  BY <1>0, <1>1, <1>3, SMTT(30)
<1>8. ASSUME NEW b \in st'.inflight PROVE b \in st'.pending[b % st'.slots]
  <2>1. CASE b = st.i
    BY <1>3, <1>5, <2>1, SMTT(30)
  <2>2. CASE b # st.i
    <3>1. b \in st.inflight /\ b \in Nat /\ b < st.i /\ st.i - b < st.slots
      BY <1>0, <1>1, <1>3, <1>8, <2>2, SMTT(30)
    <3>2. b % st.slots # st.i % st.slots
      BY <1>0, <3>1, SlotsDiffer
    <3>3. b % st.slots \in 0..(st.slots - 1)
      BY <1>0, <3>1, SlotRange, ZenonT(40)
    <3>4. b \in st.pending[b % st.slots]
      BY <3>1 DEF CompressProgress
    <3> QED BY <1>3, <1>5, <3>2, <3>3, <3>4, SMTT(30)
  <2> QED BY <2>1, <2>2
<1>9. st'.i <= st'.block_count
  BY <1>0, <1>3
<1> QED BY <1>6, <1>7, <1>8, <1>9, ZenonT(40) DEF CompressProgress

\* What the last co_await of compress_file has waited for: everything is done.
LEMMA DrainedIsDone ==
    ASSUME IsWindow(st), CompressProgress(st), \A k \in DOMAIN st.pending : Ready(st, k)
    PROVE  st.inflight = {}
<1> SUFFICES ASSUME NEW b \in st.inflight PROVE FALSE
  OBVIOUS
<1>1. b \in Nat /\ st.slots \in Nat \ {0} /\ DOMAIN st.pending = 0..(st.slots - 1)
  BY DEF IsWindow
<1>2. b % st.slots \in 0..(st.slots - 1)
  BY <1>1, SlotRange, ZenonT(40)
<1>3. b \in st.pending[b % st.slots]
  BY DEF CompressProgress
<1> QED BY <1>1, <1>2, <1>3, Zenon DEF Ready

\* All steps of simple_compress.cpp and parallel_compress.cpp.
LEMMA CompressResultStep ==
    ASSUME CompressInv, CompressResult, CompressSteps \/ CompressFailures
    PROVE  CompressResult'
<1>0. /\ IsWindow(st) /\ HasFields(st) /\ st.i \in Nat /\ st.block_count \in Nat
      /\ st.slots \in Nat /\ st.tasks \in Nat /\ st.slots <= st.tasks
      /\ phase \in [Proc -> {"start", "loop", "ended"}] /\ ctx \in [Ctx -> CtxStates]
      /\ "client" \in Proc /\ "client" \in Ctx
  BY DEF CompressInv, CompressResult, IsWindow, Ctx, Proc
<1>1. CASE Begin("client", "client", TRUE) \/ Begin("client", "client", FALSE)
  <2>1. /\ phase["client"] = "start" /\ UNCHANGED st
        /\ \/ /\ phase' = [phase EXCEPT !["client"] = "loop"] /\ UNCHANGED faults
              /\ ctx' = [ctx EXCEPT !["client"] = "starting"]
           \/ /\ phase' = [phase EXCEPT !["client"] = "ended"] /\ faults' # {}
              /\ UNCHANGED ctx
    BY <1>1, ZenonT(40) DEF Begin
  <2>2. phase' \in [Proc -> {"start", "loop", "ended"}] /\ ctx' \in [Ctx -> CtxStates]
    BY <1>0, <2>1 DEF CtxStates
  <2>3. \/ phase'["client"] = "loop" /\ ctx'["client"] = "starting" /\ UNCHANGED faults
        \/ faults' # {} /\ UNCHANGED ctx
    BY <1>0, <2>1
  <2> QED BY <2>1, <2>2, <2>3 DEF CompressResult
<1>2. CASE CompressRunning
  <2>1. /\ ctx["client"] = "starting" /\ phase["client"] = "loop" /\ UNCHANGED <<phase, faults>>
        /\ ctx' \in [Ctx -> CtxStates] /\ ctx'["client"] = "running"
    BY <1>0, <1>2 DEF CompressRunning, CtxStates
  <2>2. /\ st'.at = "window" /\ st'.slots = st.slots /\ st'.tasks = st.tasks
        /\ st'.block_count = st.block_count /\ st'.i = st.i /\ st'.good = st.good
        /\ st'.inflight = st.inflight /\ st'.pending = st.pending
    BY <1>0, <1>2 DEF CompressRunning, HasFields
  <2>3. CompressProgress(st) => CompressProgress(st)'
    BY <2>2 DEF CompressProgress
  <2> QED BY <1>0, <2>1, <2>2, <2>3 DEF CompressResult
<1>3. CASE CompressIteration
  <2>1. /\ phase["client"] = "loop" /\ st.at = "window" /\ st.i < st.block_count
        /\ st.i >= st.slots => Ready(st, Slot(st))
        /\ st' = Launch(st) /\ UNCHANGED <<phase, ctx, faults>>
    BY <1>3 DEF CompressIteration
  <2>2. st'.slots = st.slots /\ st'.tasks = st.tasks /\ st'.block_count = st.block_count
    BY <1>0, <2>1, LaunchKeepsWindow, ZenonT(40)
  <2>3. st'.at = "window"
    BY <1>0, <2>1 DEF HasFields, Launch
  <2>4. CompressProgress(st) => CompressProgress(st)'
    BY <1>0, <2>1, LaunchCompresses
  <2> QED BY <1>0, <2>1, <2>2, <2>3, <2>4 DEF CompressResult
<1>4. CASE CompressDrained
  <2>1. /\ phase["client"] = "loop" /\ st.at = "window" /\ st.i = st.block_count
        /\ \A k \in DOMAIN st.pending : Ready(st, k)
        /\ UNCHANGED faults
    BY <1>4 DEF CompressDrained
  <2>2. CASE st.slots > st.block_count
    <3>1. phase' = [phase EXCEPT !["client"] = "ended"] /\ UNCHANGED <<ctx, st>>
      BY <1>4, <2>2 DEF CompressDrained
    <3>2. phase' \in [Proc -> {"start", "loop", "ended"}]
      BY <1>0, <3>1
    <3> QED BY <2>1, <2>2, <3>1, <3>2 DEF CompressResult
  <2>3. CASE ~(st.slots > st.block_count)
    <3>1. /\ ctx' = [ctx EXCEPT !["client"] = Stop(ctx["client"])]
          /\ st' = [st EXCEPT !.at = "stop"] /\ UNCHANGED phase
      BY <1>4, <2>3 DEF CompressDrained
    <3>2. ctx' \in [Ctx -> CtxStates]
      BY <1>0, <3>1 DEF Stop, CtxStates
    <3>3. /\ st'.at = "stop" /\ st'.slots = st.slots /\ st'.tasks = st.tasks
          /\ st'.block_count = st.block_count /\ st'.i = st.i /\ st'.good = st.good
          /\ st'.inflight = st.inflight /\ st'.pending = st.pending
      BY <1>0, <3>1, SMTT(30) DEF HasFields
    <3>4. CompressProgress(st) => CompressProgress(st)' /\ st.inflight = {}
      BY <1>0, <2>1, <3>3, DrainedIsDone, SMTT(30) DEF CompressProgress
    <3> QED BY <1>0, <2>1, <3>1, <3>2, <3>3, <3>4 DEF CompressResult
  <2> QED BY <2>2, <2>3
<1>5. CASE CompressStopped
  <2>1. st.at = "stop" /\ UNCHANGED faults
    BY <1>5 DEF CompressStopped, CompressResult
  <2>2. /\ phase' \in [Proc -> {"start", "loop", "ended"}]
        /\ ctx' \in [Ctx -> CtxStates] /\ ctx'["client"] = "idle"
    BY <1>0, <1>5 DEF CompressStopped, CtxStates
  <2>3. /\ st'.at = "end" /\ st'.slots = st.slots /\ st'.tasks = st.tasks
        /\ st'.block_count = st.block_count /\ st'.i = st.i /\ st'.good = st.good
        /\ st'.inflight = st.inflight /\ st'.pending = st.pending
    BY <1>0, <1>5 DEF CompressStopped, HasFields
  <2>4. CompressProgress(st) => CompressProgress(st)'
    BY <2>3 DEF CompressProgress
  <2> QED BY <1>0, <2>1, <2>2, <2>3, <2>4 DEF CompressResult
<1>6. ASSUME NEW b \in st.inflight, Completion(b) \/ FailedCompletion(b)
      PROVE  CompressResult'
  <2>1. /\ st'.at = st.at /\ st'.slots = st.slots /\ st'.tasks = st.tasks
        /\ st'.block_count = st.block_count /\ st'.i = st.i
        /\ st'.inflight = st.inflight \ {b} /\ st'.pending = st.pending
        /\ UNCHANGED <<phase, ctx>>
        /\ \/ UNCHANGED faults /\ st'.good = st.good \cup {b}
           \/ faults' # {}
    BY <1>0, <1>6, ZenonT(40) DEF Completion, FailedCompletion, HasFields
  <2>2. CompressProgress(st) /\ faults' = {} => CompressProgress(st)'
    BY <1>6, <2>1 DEF CompressProgress
  <2> QED BY <1>0, <2>1, <2>2 DEF CompressResult
<1> QED BY <1>1, <1>2, <1>3, <1>4, <1>5, <1>6, ZenonT(40) DEF CompressSteps, CompressFailures

\* Whatever has failed, the window of dma_client.cpp holds the last blocks, and
\* what is older has succeeded, but for block 0.
DmaProgress(s) ==
    /\ s.good \cup s.inflight \subseteq 0..(s.block_count - 1)
    /\ s.good \cup s.inflight \subseteq 0..(s.i - 1)
    /\ s.good \cap s.inflight = {}
    /\ s.i <= s.block_count + s.slots
    /\ \A b \in 0..(s.block_count - 1) :
          /\ b < s.i /\ b >= s.i - s.slots => s.pending[b % s.slots] = {b}
          /\ b > 0 /\ b < s.i - s.slots => b \in s.good

\* The loop of dma_client.cpp is over.
AllRead == st.i = st.block_count + st.slots

\* After the loop every block is there, but for block 0, and nothing else is
\* under way.
LEMMA AllReadIsGood ==
    ASSUME IsWindow(st), DmaProgress(st), AllRead
    PROVE  /\ st.inflight \subseteq {0}
           /\ st.block_count > 0 => st.good \cup {0} = 0..(st.block_count - 1)
<1>1. st.i \in Nat /\ st.slots \in Nat /\ st.block_count \in Nat
  BY DEF IsWindow
<1>2. ASSUME NEW b \in 0..(st.block_count - 1), b > 0 PROVE b \in st.good
  BY <1>1, <1>2 DEF DmaProgress, AllRead
<1>3. st.good \subseteq 0..(st.block_count - 1) /\ st.inflight \subseteq 0..(st.block_count - 1)
      /\ st.good \cap st.inflight = {}
  BY DEF DmaProgress
<1> QED BY <1>1, <1>2, <1>3

\* An iteration: the block that it has waited for is in the slot of the next one.
LEMMA IterationProgress ==
    ASSUME IsWindow(st), DmaProgress(st), st.i < st.block_count + st.slots,
           AwaitsFirst(st) => st.pending[Slot(st)] \subseteq st.good,
           st' = IF st.i < st.block_count THEN Launch(st) ELSE [st EXCEPT !.i = st.i + 1]
    PROVE  DmaProgress(st)'
<1>0. /\ st.i \in Nat /\ st.i \in Int /\ st.slots \in Nat \ {0} /\ st.block_count \in Nat
      /\ st.pending \in [0..(st.slots - 1) -> SUBSET Nat] /\ HasFields(st)
  BY DEF IsWindow
<1>1. /\ st'.slots = st.slots /\ st'.block_count = st.block_count
      /\ st'.i = st.i + 1 /\ st'.good = st.good
      /\ st'.inflight \subseteq st.inflight \cup {b \in {st.i} : b < st.block_count}
      /\ st'.pending = IF st.i < st.block_count
                       THEN [st.pending EXCEPT ![st.i % st.slots] = {st.i}] ELSE st.pending
  <2>1. CASE st.i < st.block_count
    BY <2>1, LaunchKeepsWindow, ZenonT(40)
  <2>2. CASE ~(st.i < st.block_count)
    BY <1>0, <2>2 DEF HasFields
  <2> QED BY <2>1, <2>2
<1>2. st.i % st.slots \in 0..(st.slots - 1)
  BY <1>0, SlotRange, ZenonT(40)
<1>8. /\ st'.slots = st.slots /\ st'.block_count = st.block_count
      /\ st'.i = st.i + 1 /\ st'.good = st.good
  BY <1>1
<1>3. ASSUME NEW b \in 0..(st'.block_count - 1), b < st'.i, b >= st'.i - st'.slots
      PROVE  st'.pending[b % st'.slots] = {b}
  <2>0. /\ b \in 0..(st.block_count - 1) /\ b < st.i + 1 /\ b >= st.i + 1 - st.slots
        /\ st'.slots = st.slots
    BY <1>0, <1>8, <1>3, SMTT(30)
  <2>1. CASE b = st.i
    BY <1>0, <1>1, <1>2, <2>0, <2>1, SMTT(30)
  <2>2. CASE b # st.i
    <3>1. b \in Nat /\ b \in Int /\ b < st.i /\ st.i - b < st.slots /\ b >= st.i - st.slots
      BY <1>0, <2>0, <2>2, SMTT(30)
    <3>2. b % st.slots # st.i % st.slots
      BY <1>0, <3>1, SlotsDiffer
    <3>3. b % st.slots \in 0..(st.slots - 1)
      BY <1>0, <3>1, SlotRange
    <3>4. st.pending[b % st.slots] = {b}
      BY <2>0, <3>1 DEF DmaProgress
    <3> QED BY <1>0, <1>1, <1>2, <2>0, <3>2, <3>3, <3>4, SMTT(30)
  <2> QED BY <2>1, <2>2
<1>4. ASSUME NEW b \in 0..(st'.block_count - 1), b > 0, b < st'.i - st'.slots
      PROVE  b \in st'.good
  <2>0. /\ b \in 0..(st.block_count - 1) /\ b > 0 /\ b < st.i + 1 - st.slots
        /\ st'.good = st.good
    BY <1>0, <1>8, <1>4
  <2>1. CASE b < st.i - st.slots
    BY <2>0, <2>1 DEF DmaProgress
  <2>2. CASE b = st.i - st.slots
    <3>1. st.i > st.slots /\ b < st.i /\ b >= st.i - st.slots
      BY <1>0, <2>0, <2>2
    <3>2. st.pending[b % st.slots] = {b}
      BY <2>0, <3>1 DEF DmaProgress
    <3>3. (st.i - st.slots) % st.slots = st.i % st.slots
      BY <1>0, SlotReused, ZenonT(40)
    <3>4. st.pending[st.i % st.slots] \subseteq st.good
      BY <3>1 DEF AwaitsFirst, Slot
    <3>5. st.pending[st.i % st.slots] = {b}
      BY <2>2, <3>2, <3>3, ZenonT(40)
    <3> QED BY <2>0, <3>4, <3>5, ZenonT(40)
  <2> QED BY <1>0, <2>0, <2>1, <2>2, SMTT(30)
<1>5. /\ st'.good \cup st'.inflight \subseteq 0..(st'.block_count - 1)
      /\ st'.good \cup st'.inflight \subseteq 0..(st'.i - 1)
      /\ st'.good \cap st'.inflight = {}
  <2>1. /\ st.good \cup st.inflight \subseteq 0..(st.block_count - 1)
        /\ st.good \cup st.inflight \subseteq 0..(st.i - 1)
        /\ st.good \cap st.inflight = {}
    BY DEF DmaProgress
  <2> QED BY <1>0, <1>1, <2>1, SMTT(30)
<1>6. st'.i <= st'.block_count + st'.slots
  BY <1>0, <1>1
<1>7. \A b \in 0..(st'.block_count - 1) :
          /\ b < st'.i /\ b >= st'.i - st'.slots => st'.pending[b % st'.slots] = {b}
          /\ b > 0 /\ b < st'.i - st'.slots => b \in st'.good
  BY <1>3, <1>4, Zenon
<1> QED BY <1>5, <1>6, <1>7, ZenonT(40) DEF DmaProgress

\* A completion, or a failure, of what is under way.
LEMMA CompletionProgress ==
    ASSUME DmaProgress(st), HasFields(st), NEW b \in st.inflight,
           Completion(b) \/ FailedCompletion(b)
    PROVE  DmaProgress(st)'
<1>1. /\ st'.block_count = st.block_count /\ st'.slots = st.slots
      /\ st'.i = st.i /\ st'.pending = st.pending /\ st'.inflight = st.inflight \ {b}
      /\ st'.good = st.good \/ st'.good = st.good \cup {b}
  BY ZenonT(40) DEF HasFields, Completion, FailedCompletion
<1>2. /\ st'.good \cup st'.inflight \subseteq st.good \cup st.inflight
      /\ st'.good \cap st'.inflight \subseteq st.good \cap st.inflight
      /\ st.good \subseteq st'.good
  BY <1>1
<1> QED BY <1>1, <1>2 DEF DmaProgress
-----------------------------------------------------------------------------
(* Queues of events. *)

Events == {"connection", "disconnection", "done", "extents", "closed"}

Queues == [Proc -> Seq(Events)]

Has(q, e) == \E j \in 1..Len(q) : q[j] = e

\* A connection is the first thing that a server hears of.
Leading(q) == \A j \in 1..Len(q) : q[j] = "connection" => j = 1

\* An event is taken off a queue.
LEMMA Taken ==
    ASSUME NEW q \in Seq(Events), q # <<>>
    PROVE  /\ Tail(q) \in Seq(Events)
           /\ Has(q, Head(q))
           /\ \A e : Has(Tail(q), e) => Has(q, e)
           /\ Leading(q) => Leading(Tail(q)) /\ ~Has(Tail(q), "connection")
<1>1. /\ Len(q) \in Nat \ {0} /\ Tail(q) \in Seq(Events) /\ Len(Tail(q)) = Len(q) - 1
      /\ \A j \in 1..(Len(q) - 1) : Tail(q)[j] = q[j + 1]
      /\ Head(q) = q[1]
  OBVIOUS
<1> QED BY <1>1 DEF Has, Leading

\* An event is added to a queue.
LEMMA Added ==
    ASSUME NEW q \in Seq(Events), NEW x \in Events
    PROVE  /\ Append(q, x) \in Seq(Events)
           /\ \A e : Has(Append(q, x), e) <=> Has(q, e) \/ e = x
           /\ Leading(q) /\ (x # "connection" \/ q = <<>>) => Leading(Append(q, x))
<1>1. /\ Len(q) \in Nat /\ Append(q, x) \in Seq(Events) /\ Len(Append(q, x)) = Len(q) + 1
      /\ \A j \in 1..Len(q) : Append(q, x)[j] = q[j]
      /\ Append(q, x)[Len(q) + 1] = x
      /\ q = <<>> => Len(q) = 0
  OBVIOUS
<1> QED BY <1>1 DEF Has, Leading

\* Nothing is in an empty queue.
LEMMA Empty == <<>> \in Seq(Events) /\ Leading(<<>>) /\ \A e : ~Has(<<>>, e)
  BY DEF Has, Leading

\* A connection goes away: one side may be told, and there is nothing else.
LEMMA ClosedQueues ==
    ASSUME NEW f \in Queues, NEW p \in Proc
    PROVE  /\ Closed(p, f) \in Queues
           /\ \A o \in Proc \ {p} : Closed(p, f)[o] = f[o]
           /\ \A e \in {"connection", "done", "extents"} : Has(Closed(p, f)[p], e) => Has(f[p], e)
           /\ Leading(f[p]) => Leading(Closed(p, f)[p])
<1>1. CASE link # "up"
  BY <1>1 DEF Closed
<1>2. CASE link = "up"
  <2> DEFINE x == IF p = "server" THEN "disconnection" ELSE "closed"
             q == Append(f[p], x)
  <2>1. x \in Events /\ f[p] \in Seq(Events) /\ x \notin {"connection", "done", "extents"}
    BY DEF Events, Queues
  <2>2. /\ q \in Seq(Events)
        /\ \A e : Has(q, e) <=> Has(f[p], e) \/ e = x
        /\ Leading(f[p]) => Leading(q)
    BY <2>1, Added
  <2>3. Closed(p, f) = [f EXCEPT ![p] = q]
    BY <1>2 DEF Closed
  <2> HIDE DEF q, x
  <2>4. ASSUME NEW g, g = [f EXCEPT ![p] = q]
        PROVE  g \in Queues /\ g[p] = q /\ \A o \in Proc \ {p} : g[o] = f[o]
    BY <2>2, <2>4 DEF Queues
  <2> QED BY <2>1, <2>2, <2>3, <2>4, ZenonT(40)
<1> QED BY <1>1, <1>2
-----------------------------------------------------------------------------
(* The client and the server of a transfer. *)

\* A send of message m, which has arrived or not.
Message(m, a) == <<[msg |-> m, arrived |-> a]>>

Sending(m) == {<<>>, Message(m, FALSE), Message(m, TRUE)}

DmaTypes ==
    /\ inbox \in Queues
    /\ ctx \in [Ctx -> CtxStates]
    /\ OfProcesses(held)
    /\ sends["client"] \in Sending("done")
    /\ sends["server"] \in Sending("extents")

\* Whoever says, or has been told, that the transfer is complete is right.
Transfer ==
    /\ st.block_count > 0
    /\ DmaProgress(st)
    /\ sends["client"] # <<>> => AllRead
    /\ Has(inbox["server"], "done") => AllRead
    /\ st.told => AllRead
    /\ phase["client"] = "ended" /\ faults = {} => AllRead

\* The client knows of the exported memory, or will.
Reached ==
    \/ st.at \in {"create", "window", "send"}
    \/ Has(inbox["client"], "extents")
    \/ sends["server"] = Message("extents", TRUE)

\* A connection is handled once, and from when the client knows of the memory to
\* when the server is told that it is done, handle_connection does not return,
\* unless the server ends; nor is it told that the client is gone before it is.
Serving ==
    /\ st.serving \in {"none", "send", "msg_recv", "end"}
    /\ sends["server"] # <<>> <=> st.serving = "send"
    /\ st.serving \in {"send", "msg_recv"} => <<"mmap", 0>> \in held["server"]
    /\ Leading(inbox["server"])
    /\ Has(inbox["server"], "connection") => st.serving = "none"
    /\ phase["client"] = "start" => ctx["client"] = "none"
    /\ ctx["client"] \in {"none", "starting"} =>
          inbox["server"] = <<>> /\ st.serving = "none" /\ link = "none"
    /\ ctx["receiver"] = "starting" => st.at = "create"
    /\ st.inflight # {} => st.at \in {"window", "send"}
    /\ Has(inbox["server"], "disconnection") =>
          st.at = "end" /\ ~Has(inbox["client"], "extents") /\ link # "up"
    /\ Reached => /\ st.serving # "none"
                  /\ sends["server"] # Message("extents", FALSE)
                  /\ st.serving = "end" => st.told \/ phase["server"] = "ended"

DmaResult == DmaTypes /\ Transfer /\ Serving

\* A message arrives once.
LEMMA Arrival ==
    ASSUME NEW m
    PROVE  /\ \A a : Message(m, a) # <<>> /\ Head(Message(m, a)) = [msg |-> m, arrived |-> a]
           /\ Message(m, TRUE) # Message(m, FALSE)
           /\ <<[[msg |-> m, arrived |-> FALSE] EXCEPT !.arrived = TRUE]>> = Message(m, TRUE)
<1>1. \A a : Message(m, a) # <<>> /\ Head(Message(m, a)) = [msg |-> m, arrived |-> a]
  BY DEF Message
<1>2. [msg |-> m, arrived |-> TRUE].arrived # [msg |-> m, arrived |-> FALSE].arrived
  OBVIOUS
<1>3. Message(m, TRUE) # Message(m, FALSE)
  BY <1>1, <1>2, Zenon
<1>4. [[msg |-> m, arrived |-> FALSE] EXCEPT !.arrived = TRUE] = [msg |-> m, arrived |-> TRUE]
  <2> DEFINE r == [msg |-> m, arrived |-> FALSE]
             s == [r EXCEPT !.arrived = TRUE]
  <2>1. r \in [msg : {m}, arrived : BOOLEAN]
    OBVIOUS
  <2> HIDE DEF r
  <2>2. s \in [msg : {m}, arrived : BOOLEAN] /\ s.arrived = TRUE
    BY <2>1, ZenonT(40)
  <2> HIDE DEF s
  <2>3. s = [msg |-> m, arrived |-> TRUE]
    BY <2>2
  <2> QED BY <2>3 DEF s, r
<1> QED BY <1>1, <1>3, <1>4 DEF Message

\* The window is as it was: what is left to see is that nobody speaks too soon.
LEMMA TransferKept ==
    ASSUME Transfer, SameWindow,
           sends'["client"] # <<>> => sends["client"] # <<>> \/ AllRead,
           Has(inbox'["server"], "done") => Has(inbox["server"], "done") \/ sends["client"] # <<>>,
           st'.told => st.told \/ Has(inbox["server"], "done"),
           phase'["client"] = "ended" /\ faults' = {} =>
              (phase["client"] = "ended" /\ faults = {}) \/ AllRead
    PROVE  Transfer'
<1>1. st'.block_count = st.block_count /\ st'.slots = st.slots /\ st'.i = st.i
      /\ st'.pending = st.pending /\ st'.inflight = st.inflight /\ st'.good = st.good
  BY DEF SameWindow
<1>2. DmaProgress(st)' <=> DmaProgress(st)
  BY <1>1 DEF DmaProgress
<1>3. AllRead' <=> AllRead
  BY <1>1 DEF AllRead
<1> QED BY <1>1, <1>2, <1>3 DEF Transfer

\* A step that starts a process, or that DOCA takes to start its context.
LEMMA StartResult ==
    ASSUME DmaInv, DmaResult,
           \/ \E p \in Proc : Begin(p, p, TRUE) \/ Begin(p, p, FALSE)
           \/ ServerRuns \/ client_not_created
    PROVE  DmaResult'
<1> DEFINE Starts ==
       /\ ctx' \in [Ctx -> CtxStates]
       /\ ctx'["receiver"] = ctx["receiver"]
       /\ ctx'["client"] \in {"none", "starting"} => ctx["client"] \in {"none", "starting"}
       /\ phase'["client"] = "start" => phase["client"] = "start" /\ ctx'["client"] = ctx["client"]
       /\ phase["server"] = "ended" => phase'["server"] = "ended"
       /\ phase'["client"] = "ended" /\ faults' = {} => phase["client"] = "ended" /\ faults = {}
<1>0. /\ HasFields(st) /\ phase \in [Proc -> {"start", "loop", "ended"}]
      /\ ctx \in [Ctx -> CtxStates]
      /\ Proc = {"client", "server"} /\ Ctx = {"client", "server", "receiver", "producer"}
      /\ phase["client"] = "start" => ctx["client"] = "none"
  BY DEF DmaInv, IsWindow, DmaResult, DmaTypes, Serving, Proc, Ctx, Worker
<1>1. UNCHANGED <<st, held, link, inbox, sends>>
  BY DEF Begin, ServerRuns, client_not_created
<1>2. ASSUME NEW p \in Proc, Begin(p, p, TRUE) PROVE Starts
  <2>1. /\ phase[p] = "start" /\ phase' = [phase EXCEPT ![p] = "loop"]
        /\ ctx' = [ctx EXCEPT ![p] = "starting"] /\ faults' = faults
    BY <1>2 DEF Begin
  <2> QED BY <1>0, <2>1 DEF CtxStates
<1>3. ASSUME NEW p \in Proc, Begin(p, p, FALSE) PROVE Starts
  <2>1. /\ phase[p] = "start" /\ phase' = [phase EXCEPT ![p] = "ended"]
        /\ ctx' = ctx /\ faults' # {}
    BY <1>3, ZenonT(40) DEF Begin
  <2> QED BY <1>0, <2>1
<1>4. ASSUME ServerRuns PROVE Starts
  BY <1>0, <1>4 DEF ServerRuns, CtxStates
<1>5. ASSUME client_not_created PROVE Starts
  <2>1. /\ ctx' = [ctx EXCEPT !["client"] = "idle"] /\ phase' = phase /\ faults' # {}
        /\ ctx["client"] = "starting"
    BY <1>5, ZenonT(40) DEF client_not_created
  <2> QED BY <1>0, <2>1 DEF CtxStates
<1> HIDE DEF Starts
<1>6. Starts
  BY <1>2, <1>3, <1>4, <1>5, ZenonT(40)
<1>7. DmaTypes'
  BY <1>1, <1>6 DEF DmaResult, DmaTypes, Starts
<1>8. Transfer'
  <2>1. SameWindow
    BY <1>0, <1>1, FieldsKept
  <2> QED BY <1>1, <1>6, <2>1, TransferKept DEF Starts, DmaResult
<1>9. Serving'
  <2>1. Reached' <=> Reached
    BY <1>1 DEF Reached
  <2> QED BY <1>0, <1>1, <1>6, <2>1, ZenonT(40) DEF Starts, DmaResult, Serving
<1> QED BY <1>7, <1>8, <1>9 DEF DmaResult

\* A message arrives, and with "extents" the client knows of the memory.
LEMMA ArrivalResult ==
    ASSUME DmaInv, DmaResult, NEW p \in Proc, Arrives(p)
    PROVE  DmaResult'
<1> DEFINE m == IF p = "client" THEN "done" ELSE "extents"
<1>0. /\ HasFields(st) /\ OfProcesses(sends) /\ inbox \in Queues /\ sends[p] \in Sending(m)
      /\ Proc = {"client", "server"} /\ m \in Events /\ m # "connection"
  BY DEF DmaInv, IsWindow, DmaResult, DmaTypes, Proc, Events
<1>1. UNCHANGED <<phase, held, ctx, link, st, faults>> /\ link = "up"
  BY DEF Arrives
<1> HIDE DEF m
<1>2. sends[p] = Message(m, FALSE)
  <2>1. sends[p] # <<>> /\ ~Head(sends[p]).arrived
    BY DEF Arrives
  <2>2. Head(Message(m, TRUE)).arrived = TRUE
    BY DEF Message
  <2> QED BY <1>0, <2>1, <2>2, ZenonT(40) DEF Sending
<1>3. Head(sends[p]) = [msg |-> m, arrived |-> FALSE]
  BY <1>2, Arrival, ZenonT(40)
<1>4. sends' = [sends EXCEPT ![p] = Message(m, TRUE)]
  BY <1>3, Arrival, ZenonT(40) DEF Arrives
<1>5. inbox' = [inbox EXCEPT ![Peer(p)] = Append(inbox[Peer(p)], m)]
  <2>1. Head(sends[p]).msg = m
    BY <1>3
  <2> QED BY <2>1, ZenonT(40) DEF Arrives
<1>6. /\ inbox' \in Queues
      /\ inbox'[Peer(p)] = Append(inbox[Peer(p)], m) /\ inbox'[p] = inbox[p]
      /\ \A e : Has(inbox'[Peer(p)], e) <=> Has(inbox[Peer(p)], e) \/ e = m
      /\ Leading(inbox[Peer(p)]) => Leading(inbox'[Peer(p)])
  <2>1. Peer(p) \in Proc /\ Peer(p) # p /\ inbox[Peer(p)] \in Seq(Events)
    BY <1>0 DEF Peer, Queues
  <2>2. /\ Append(inbox[Peer(p)], m) \in Seq(Events)
        /\ \A e : Has(Append(inbox[Peer(p)], m), e) <=> Has(inbox[Peer(p)], e) \/ e = m
        /\ Leading(inbox[Peer(p)]) => Leading(Append(inbox[Peer(p)], m))
    BY <1>0, <2>1, Added, SMTT(30)
  <2>3. /\ inbox' \in Queues /\ inbox'[Peer(p)] = Append(inbox[Peer(p)], m)
        /\ \A o \in Proc \ {Peer(p)} : inbox'[o] = inbox[o]
    BY <1>0, <1>5, <2>1, <2>2, SMTT(30) DEF Queues
  <2> QED BY <2>1, <2>2, <2>3
<1>7. sends'[p] = Message(m, TRUE) /\ sends'[Peer(p)] = sends[Peer(p)]
  BY <1>0, <1>4, ZenonT(40) DEF OfProcesses, Peer
<1>8. CASE p = "client"
  <2>1. m = "done" /\ Peer(p) = "server"
    BY <1>8 DEF m, Peer
  <2>2. DmaTypes'
    BY <1>1, <1>6, <1>7, <1>8, <2>1, ZenonT(40) DEF DmaResult, DmaTypes, Sending
  <2>3. SameWindow
    BY <1>0, <1>1, FieldsKept
  <2>4. sends["client"] # <<>>
    BY <1>2, <1>8, Arrival, ZenonT(40)
  <2>5. Transfer'
    BY <1>1, <1>6, <1>8, <2>1, <2>3, <2>4, TransferKept DEF DmaResult
  <2>6. Reached' <=> Reached
    BY <1>1, <1>6, <1>7, <1>8, <2>1, ZenonT(40) DEF Reached
  <2>7. Serving'
    BY <1>1, <1>6, <1>7, <1>8, <2>1, <2>6, ZenonT(40) DEF DmaResult, Serving
  <2> QED BY <2>2, <2>5, <2>7 DEF DmaResult
<1>9. CASE p = "server"
  <2>1. m = "extents" /\ Peer(p) = "client"
    BY <1>9, SMTT(30) DEF m, Peer
  <2>2. DmaTypes'
    BY <1>1, <1>6, <1>7, <1>9, <2>1, ZenonT(40) DEF DmaResult, DmaTypes, Sending
  <2>3. SameWindow
    BY <1>0, <1>1, FieldsKept
  <2>4. Transfer'
    BY <1>1, <1>6, <1>7, <1>9, <2>1, <2>3, TransferKept DEF DmaResult
  <2>5. sends'["server"] # <<>> /\ sends["server"] # <<>>
        /\ sends'["server"] # Message("extents", FALSE)
    BY <1>2, <1>7, <1>9, <2>1, Arrival, ZenonT(40)
  <2>6. Serving'
    BY <1>1, <1>6, <1>7, <1>9, <2>1, <2>5, ZenonT(40) DEF DmaResult, Serving
  <2> QED BY <2>2, <2>4, <2>6 DEF DmaResult
<1> QED BY <1>0, <1>8, <1>9

\* A step of the client's fiber that changes where it is, and nothing of the
\* window.
Moves(a) ==
    /\ st' = [st EXCEPT !.at = a]
    /\ UNCHANGED <<phase, held, faults>>

\* Such a step leaves the window and the processes alone.
LEMMA Moved ==
    ASSUME HasFields(st), NEW a, Moves(a)
    PROVE  /\ SameWindow
           /\ st'.at = a /\ st'.serving = st.serving /\ st'.told = st.told
           /\ UNCHANGED <<phase, held, faults>>
<1>1. SameWindow
  BY FieldsKept, ZenonT(40) DEF Moves
<1>2. st'.at = a /\ st'.serving = st.serving /\ st'.told = st.told
  BY DEF HasFields, Moves
<1> QED BY <1>1, <1>2 DEF Moves

\* The client is connected: the server will hear of it, once.
LEMMA ConnectedResult ==
    ASSUME DmaInv, DmaResult, client_created
    PROVE  DmaResult'
<1>0. /\ HasFields(st) /\ inbox \in Queues /\ ctx \in [Ctx -> CtxStates]
      /\ Proc = {"client", "server"} /\ Ctx = {"client", "server", "receiver", "producer"}
  BY DEF DmaInv, IsWindow, DmaResult, DmaTypes, Proc, Ctx, Worker
<1>1. /\ ctx["client"] = "starting" /\ phase["client"] = "loop"
      /\ ctx' = [ctx EXCEPT !["client"] = "running"]
      /\ inbox' = [inbox EXCEPT !["server"] = Append(inbox["server"], "connection")]
      /\ UNCHANGED sends /\ Moves("msg_recv")
  BY DEF client_created, ClientConnects, Moves
<1>2. inbox["server"] = <<>> /\ st.serving = "none" /\ ~Reached
  BY <1>1, ZenonT(40) DEF DmaResult, Serving
<1>3. /\ SameWindow
      /\ st'.at = "msg_recv" /\ st'.serving = st.serving /\ st'.told = st.told
      /\ UNCHANGED <<phase, held, faults>>
  BY <1>0, <1>1, Moved
<1>4. /\ ctx' \in [Ctx -> CtxStates] /\ ctx'["client"] = "running"
      /\ ctx'["receiver"] = ctx["receiver"]
  BY <1>0, <1>1 DEF CtxStates
<1>5. /\ inbox["server"] \in Seq(Events) /\ "connection" \in Events
      /\ Leading(inbox["server"])
  BY <1>0 DEF Queues, Events, DmaResult, Serving
<1>6. /\ Append(inbox["server"], "connection") \in Seq(Events)
      /\ \A e : Has(Append(inbox["server"], "connection"), e) <=>
                   Has(inbox["server"], e) \/ e = "connection"
      /\ Leading(Append(inbox["server"], "connection"))
  BY <1>2, <1>5, Added, ZenonT(40)
<1>7. /\ inbox' \in Queues /\ inbox'["client"] = inbox["client"]
      /\ inbox'["server"] = Append(inbox["server"], "connection")
  BY <1>0, <1>1, <1>6 DEF Queues
<1>8. DmaTypes'
  BY <1>1, <1>3, <1>4, <1>7 DEF DmaResult, DmaTypes
<1>9. Transfer'
  BY <1>1, <1>3, <1>6, <1>7, TransferKept DEF DmaResult
<1>10. ~Reached' /\ st.inflight = {} /\ ctx["receiver"] # "starting"
  BY <1>1, <1>2, <1>3, <1>7, ZenonT(40) DEF Reached, DmaResult, Serving
<1>11. ~Has(inbox'["server"], "disconnection")
  BY <1>2, <1>6, <1>7, Empty, ZenonT(40)
<1>12. Serving'
  BY <1>1, <1>2, <1>3, <1>4, <1>6, <1>7, <1>10, <1>11 DEF DmaResult, Serving, SameWindow
<1> QED BY <1>8, <1>9, <1>12, SMTT(30) DEF DmaResult

\* The extents of the memory are there.
LEMMA ExtentsResult ==
    ASSUME DmaInv, DmaResult, extents_received
    PROVE  DmaResult'
<1>0. /\ HasFields(st) /\ inbox \in Queues /\ ctx \in [Ctx -> CtxStates]
      /\ Proc = {"client", "server"} /\ Ctx = {"client", "server", "receiver", "producer"}
  BY DEF DmaInv, IsWindow, DmaResult, DmaTypes, Proc, Ctx, Worker
<1>1. /\ inbox["client"] # <<>> /\ Head(inbox["client"]) = "extents" /\ st.at = "msg_recv"
      /\ ctx' = [ctx EXCEPT !["receiver"] = "starting"]
      /\ inbox' = [inbox EXCEPT !["client"] = Tail(inbox["client"])]
      /\ UNCHANGED <<sends, link>> /\ Moves("create")
  BY DEF extents_received, Event, Moves
<1>2. /\ SameWindow
      /\ st'.at = "create" /\ st'.serving = st.serving /\ st'.told = st.told
      /\ UNCHANGED <<phase, held, faults>>
  BY <1>0, <1>1, Moved
<1>3. /\ ctx' \in [Ctx -> CtxStates] /\ ctx'["client"] = ctx["client"]
  BY <1>0, <1>1 DEF CtxStates
<1>4. Tail(inbox["client"]) \in Seq(Events) /\ Has(inbox["client"], "extents")
  <2>1. inbox["client"] \in Seq(Events)
    BY <1>0 DEF Queues
  <2> QED BY <1>1, <2>1, Taken
<1>5. inbox' \in Queues /\ inbox'["server"] = inbox["server"]
  BY <1>0, <1>1, <1>4, SMTT(30) DEF Queues
<1>6. DmaTypes'
  BY <1>1, <1>2, <1>3, <1>5, SMTT(30) DEF DmaResult, DmaTypes
<1>7. Transfer'
  BY <1>1, <1>2, <1>5, TransferKept, SMTT(30) DEF DmaResult
<1>8. Reached
  BY <1>4, ZenonT(40) DEF Reached
<1>9. st'.inflight = {}
  BY <1>1, <1>2 DEF DmaResult, Serving, SameWindow
<1>10. Serving'
  BY <1>1, <1>2, <1>3, <1>5, <1>8, <1>9, ZenonT(40) DEF DmaResult, Serving
<1> QED BY <1>6, <1>7, <1>10 DEF DmaResult

\* The dma context runs, or the loop is over and "done" is sent.
LEMMA WindowResult ==
    ASSUME DmaInv, DmaResult, dma_created \/ send_done
    PROVE  DmaResult'
<1>0. /\ HasFields(st) /\ OfProcesses(sends) /\ ctx \in [Ctx -> CtxStates]
      /\ Proc = {"client", "server"} /\ Ctx = {"client", "server", "receiver", "producer"}
  BY DEF DmaInv, IsWindow, DmaResult, DmaTypes, Proc, Ctx, Worker
<1>1. CASE dma_created
  <2>1. /\ ctx' = [ctx EXCEPT !["receiver"] = "running"] /\ ctx["receiver"] = "starting"
        /\ UNCHANGED <<sends, link, inbox>> /\ Moves("window")
    BY <1>1 DEF dma_created, Moves
  <2>2. /\ SameWindow
        /\ st'.at = "window" /\ st'.serving = st.serving /\ st'.told = st.told
        /\ UNCHANGED <<phase, held, faults>>
    BY <1>0, <2>1, Moved
  <2>3. /\ ctx' \in [Ctx -> CtxStates] /\ ctx'["client"] = ctx["client"]
        /\ ctx'["receiver"] = "running"
    BY <1>0, <2>1 DEF CtxStates
  <2>4. DmaTypes'
    BY <2>1, <2>2, <2>3 DEF DmaResult, DmaTypes
  <2>5. Transfer'
    BY <2>1, <2>2, TransferKept DEF DmaResult
  <2>6. Reached
    BY <2>1, ZenonT(40) DEF Reached, DmaResult, Serving
  <2>7. Serving'
    BY <2>1, <2>2, <2>3, <2>6, ZenonT(40) DEF DmaResult, Serving
  <2> QED BY <2>4, <2>5, <2>7 DEF DmaResult
<1>2. CASE send_done
  <2>1. /\ sends' = [sends EXCEPT !["client"] = Message("done", FALSE)]
        /\ st.at = "window" /\ AllRead
        /\ UNCHANGED <<ctx, link, inbox>> /\ Moves("send")
    BY <1>2 DEF send_done, Moves, Message, AllRead
  <2>2. /\ SameWindow
        /\ st'.at = "send" /\ st'.serving = st.serving /\ st'.told = st.told
        /\ UNCHANGED <<phase, held, faults>>
    BY <1>0, <2>1, Moved
  <2>3. sends'["client"] = Message("done", FALSE) /\ sends'["server"] = sends["server"]
    BY <1>0, <2>1, SMTT(30) DEF OfProcesses
  <2>4. DmaTypes'
    BY <2>1, <2>2, <2>3, ZenonT(40) DEF DmaResult, DmaTypes, Sending
  <2>5. Transfer'
    BY <2>1, <2>2, TransferKept DEF DmaResult
  <2>6. Reached
    BY <2>1 DEF Reached
  <2>7. ctx["receiver"] # "starting"
    BY <2>1 DEF DmaResult, Serving
  <2>8. Serving'
    BY <2>1, <2>2, <2>3, <2>6, <2>7, ZenonT(40) DEF DmaResult, Serving
  <2> QED BY <2>4, <2>5, <2>8 DEF DmaResult
<1> QED BY <1>1, <1>2

\* An offload of the client is complete, or has failed.
LEMMA CompletionResult ==
    ASSUME DmaInv, DmaResult, NEW b \in st.inflight, Completion(b) \/ FailedCompletion(b)
    PROVE  DmaResult'
<1>0. HasFields(st)
  BY DEF DmaInv, IsWindow
<1>1. /\ UNCHANGED <<phase, held, ctx, link, inbox, sends>> /\ phase["client"] = "loop"
  BY DEF Completion, FailedCompletion
<1>2. /\ st'.at = st.at /\ st'.serving = st.serving /\ st'.told = st.told
      /\ st'.block_count = st.block_count /\ st'.slots = st.slots /\ st'.i = st.i
      /\ st'.inflight = st.inflight \ {b}
  BY <1>0, ZenonT(40) DEF Completion, FailedCompletion, HasFields
<1>3. DmaTypes'
  BY <1>1 DEF DmaResult, DmaTypes
<1>4. DmaProgress(st)'
  BY <1>0, CompletionProgress DEF DmaResult, Transfer
<1>5. AllRead' <=> AllRead
  BY <1>2 DEF AllRead
<1>6. Transfer'
  BY <1>1, <1>2, <1>4, <1>5 DEF DmaResult, Transfer
<1>7. Reached' <=> Reached
  BY <1>1, <1>2, SMTT(30) DEF Reached
<1>8. Serving'
  BY <1>1, <1>2, <1>7, ZenonT(40) DEF DmaResult, Serving
<1> QED BY <1>3, <1>6, <1>8 DEF DmaResult

\* The fiber of dma_client.cpp ends after its loop, or after a failure.
LEMMA ReturnResult ==
    ASSUME DmaInv, DmaResult, NEW cause, Return(cause),
           cause = "none" /\ faults = {} => AllRead
    PROVE  DmaResult'
<1> DEFINE D == (UNION Range(st.pending)) \cap st.inflight
           q == Closed("server", inbox)
<1>0. /\ HasFields(st) /\ phase \in [Proc -> {"start", "loop", "ended"}]
      /\ OfProcesses(sends) /\ inbox \in Queues /\ ctx \in [Ctx -> CtxStates]
      /\ Proc = {"client", "server"} /\ Ctx = {"client", "server", "receiver", "producer"}
  BY DEF DmaInv, IsWindow, DmaResult, DmaTypes, Proc, Ctx, Worker
<1>1. /\ phase' = [phase EXCEPT !["client"] = "ended"]
      /\ st' = [st EXCEPT !.at = "end", !.inflight = {}, !.dropped = st.dropped \cup D]
      /\ ctx' = [ctx EXCEPT !["client"] = "idle", !["receiver"] = "idle"]
      /\ inbox' = [q EXCEPT !["client"] = <<>>]
      /\ link' # "up" /\ (link = "none" => link' = "none")
      /\ sends' = [sends EXCEPT !["client"] = <<>>]
      /\ faults' = IF cause = "none" THEN faults ELSE faults \cup {<<"client", cause>>}
      /\ UNCHANGED held
  BY DEF Return
<1>2. /\ q \in Queues /\ q["client"] = inbox["client"]
      /\ \A e \in {"connection", "done", "extents"} : Has(q["server"], e) => Has(inbox["server"], e)
      /\ Leading(inbox["server"]) => Leading(q["server"])
  BY <1>0, ClosedQueues
<1> HIDE DEF D, q
<1>3. /\ st'.at = "end" /\ st'.serving = st.serving /\ st'.told = st.told
      /\ st'.block_count = st.block_count /\ st'.slots = st.slots /\ st'.i = st.i
      /\ st'.pending = st.pending /\ st'.good = st.good /\ st'.inflight = {}
  BY <1>0, <1>1 DEF HasFields
<1>4. /\ phase'["client"] = "ended" /\ phase'["server"] = phase["server"]
  BY <1>0, <1>1
<1>5. /\ ctx' \in [Ctx -> CtxStates] /\ ctx'["client"] = "idle" /\ ctx'["receiver"] = "idle"
  BY <1>0, <1>1 DEF CtxStates
<1>6. sends'["client"] = <<>> /\ sends'["server"] = sends["server"]
  BY <1>0, <1>1 DEF OfProcesses
<1>7. inbox' \in Queues /\ inbox'["client"] = <<>> /\ inbox'["server"] = q["server"]
  BY <1>0, <1>1, <1>2, Empty DEF Queues
<1>8. faults' = {} => cause = "none" /\ faults = {}
  BY <1>1, ZenonT(40)
<1>9. DmaTypes'
  BY <1>1, <1>5, <1>6, <1>7, ZenonT(40) DEF DmaResult, DmaTypes, Sending
<1>10. DmaProgress(st)'
  BY <1>3 DEF DmaResult, Transfer, DmaProgress
<1>11. AllRead' <=> AllRead
  BY <1>3 DEF AllRead
<1>12. Has(inbox'["server"], "done") => Has(inbox["server"], "done")
  BY <1>2, <1>7, SMTT(30)
<1>13. Transfer'
  BY <1>3, <1>6, <1>8, <1>10, <1>11, <1>12, SMTT(30) DEF DmaResult, Transfer
<1>14. Reached' => Reached
  BY <1>3, <1>6, <1>7, Empty, ZenonT(40) DEF Reached
<1>15. /\ Has(inbox'["server"], "connection") => Has(inbox["server"], "connection")
       /\ Leading(inbox["server"]) => Leading(inbox'["server"])
  BY <1>2, <1>7
<1>16. Serving'
  BY <1>1, <1>3, <1>4, <1>5, <1>6, <1>7, <1>14, <1>15, Empty, ZenonT(40) DEF DmaResult, Serving
<1> QED BY <1>9, <1>13, <1>16 DEF DmaResult

\* An iteration of the loop.
LEMMA IterationResult ==
    ASSUME DmaInv, DmaResult, dma_iteration
    PROVE  DmaResult'
<1> DEFINE Fails == AwaitsFirst(st) /\ ~(st.pending[Slot(st)] \subseteq st.good)
<1>0. /\ IsWindow(st) /\ HasFields(st) /\ st.i \in Nat /\ st.slots \in Nat \ {0}
      /\ phase["client"] = "loop" /\ st.at = "window"
      /\ st.i < st.block_count + st.slots
      /\ AwaitsFirst(st) => Ready(st, Slot(st))
  BY DEF DmaInv, IsWindow, dma_iteration
<1>1. CASE Fails
  <2>1. Return("none")
    BY <1>1 DEF dma_iteration
  <2>2. ASSUME faults = {} PROVE FALSE
    <3>1. st.i % st.slots \in 0..(st.slots - 1)
      BY <1>0, SlotRange, ZenonT(40)
    <3>2. st.pending[st.i % st.slots] \subseteq st.good \cup st.inflight
      BY <1>0, <2>2, <3>1 DEF DmaInv, Undisturbed
    <3> QED BY <1>0, <1>1, <3>2 DEF Ready, Slot
  <2> QED BY <2>1, <2>2, ReturnResult
<1>2. CASE ~Fails
  <2>1. /\ UNCHANGED <<phase, held, ctx, link, inbox, sends, faults>>
        /\ st' = IF st.i < st.block_count THEN Launch(st) ELSE [st EXCEPT !.i = st.i + 1]
    BY <1>2 DEF dma_iteration
  <2>2. /\ st'.at = st.at /\ st'.serving = st.serving /\ st'.told = st.told
        /\ st'.block_count = st.block_count /\ st'.slots = st.slots
    <3>1. CASE st.i < st.block_count
      BY <1>0, <2>1, <3>1 DEF Launch, HasFields
    <3>2. CASE ~(st.i < st.block_count)
      BY <1>0, <2>1, <3>2 DEF HasFields
    <3> QED BY <3>1, <3>2
  <2>3. DmaTypes'
    BY <2>1 DEF DmaResult, DmaTypes
  <2>4. DmaProgress(st)'
    <3>1. AwaitsFirst(st) => st.pending[Slot(st)] \subseteq st.good
      BY <1>2
    <3>2. DmaProgress(st)
      BY DEF DmaResult, Transfer
    <3> QED BY <1>0, <2>1, <3>1, <3>2, IterationProgress, SMTT(30)
  <2>5. ~AllRead
    <3>1. st.block_count \in Nat
      BY <1>0 DEF IsWindow
    <3> QED BY <1>0, <3>1 DEF AllRead
  <2>6. Transfer'
    BY <1>0, <2>1, <2>2, <2>4, <2>5 DEF DmaResult, Transfer
  <2>7. Reached' <=> Reached
    BY <2>1, <2>2, ZenonT(40) DEF Reached
  <2>8. Serving'
    BY <1>0, <2>1, <2>2, <2>7, ZenonT(40) DEF DmaResult, Serving
  <2> QED BY <2>3, <2>6, <2>8 DEF DmaResult
<1> QED BY <1>1, <1>2

\* The server has disconnected.
LEMMA ToldResult ==
    ASSUME DmaInv, DmaResult, client_disconnected
    PROVE  DmaResult'
<1>0. /\ HasFields(st) /\ inbox \in Queues /\ ctx \in [Ctx -> CtxStates]
      /\ Proc = {"client", "server"} /\ Ctx = {"client", "server", "receiver", "producer"}
  BY DEF DmaInv, IsWindow, DmaResult, DmaTypes, Proc, Ctx, Worker
<1>1. CASE st.at = "msg_recv"
  BY <1>1, ReturnResult, SMTT(30) DEF client_disconnected
<1>2. CASE st.at # "msg_recv"
  <2>1. /\ inbox["client"] # <<>> /\ phase["client"] = "loop"
        /\ inbox' = [inbox EXCEPT !["client"] = Tail(inbox["client"])]
        /\ ctx' = [ctx EXCEPT !["client"] = Stop(ctx["client"])]
        /\ UNCHANGED <<phase, held, link, sends, st, faults>>
    BY <1>2 DEF client_disconnected, Event
  <2>2. /\ ctx' \in [Ctx -> CtxStates] /\ ctx'["receiver"] = ctx["receiver"]
        /\ ctx'["client"] \in {"none", "starting"} => ctx'["client"] = ctx["client"]
    BY <1>0, <2>1 DEF CtxStates, Stop
  <2>3. /\ Tail(inbox["client"]) \in Seq(Events)
        /\ Has(Tail(inbox["client"]), "extents") => Has(inbox["client"], "extents")
    <3>1. inbox["client"] \in Seq(Events)
      BY <1>0 DEF Queues
    <3> QED BY <2>1, <3>1, Taken
  <2>4. /\ inbox' \in Queues /\ inbox'["server"] = inbox["server"]
        /\ inbox'["client"] = Tail(inbox["client"])
    BY <1>0, <2>1, <2>3 DEF Queues
  <2>5. DmaTypes'
    BY <2>1, <2>2, <2>4 DEF DmaResult, DmaTypes
  <2>6. SameWindow
    BY <1>0, <2>1, FieldsKept
  <2>7. Transfer'
    BY <2>1, <2>4, <2>6, TransferKept, SMTT(30) DEF DmaResult
  <2>8. Reached' => Reached
    BY <2>1, <2>3, <2>4, ZenonT(40) DEF Reached
  <2>9. Serving'
    BY <2>1, <2>2, <2>3, <2>4, <2>8, ZenonT(40) DEF DmaResult, Serving
  <2> QED BY <2>5, <2>7, <2>9 DEF DmaResult
<1> QED BY <1>1, <1>2

\* handle_connection returns, not before the client knows of the memory unless
\* it never will.
LEMMA LeaveResult ==
    ASSUME DmaInv, DmaResult, NEW f \in Queues, NEW t, Leave(f, t),
           f["client"] = inbox["client"], Leading(f["server"]),
           Has(f["server"], "done") => Has(inbox["server"], "done"),
           Has(f["server"], "disconnection") => Has(inbox["server"], "disconnection"),
           ~Has(f["server"], "connection"),
           sends'["client"] = sends["client"], sends'["server"] = <<>>,
           ctx' \in [Ctx -> CtxStates], ctx'["client"] = ctx["client"],
           ctx'["receiver"] = ctx["receiver"], ctx["client"] \notin {"none", "starting"},
           phase'["client"] = phase["client"], faults \subseteq faults',
           t => st.told \/ Has(inbox["server"], "done"),
           Reached => t \/ phase'["server"] = "ended"
    PROVE  DmaResult'
<1> DEFINE q == Closed("client", f)
<1>0. HasFields(st) /\ OfProcesses(held) /\ Proc = {"client", "server"}
  BY DEF DmaInv, IsWindow, DmaResult, DmaTypes, Proc
<1>1. /\ held' = [held EXCEPT !["server"] = {}]
      /\ st' = [st EXCEPT !.serving = "end", !.told = t]
      /\ inbox' = q /\ link' # "up"
  BY SMTT(30) DEF Leave
<1>2. /\ q \in Queues /\ q["server"] = f["server"]
      /\ Has(q["client"], "extents") => Has(f["client"], "extents")
  BY <1>0, ClosedQueues, SMTT(30)
<1> HIDE DEF q
<1>3. SameWindow
  BY <1>0, <1>1, FieldsKept, ZenonT(40)
<1>4. st'.at = st.at /\ st'.serving = "end" /\ st'.told = t
  BY <1>0, <1>1 DEF HasFields
<1>5. OfProcesses(held')
  BY <1>0, <1>1, ForProcess, ZenonT(40)
<1>6. DmaTypes'
  BY <1>1, <1>2, <1>5, ZenonT(40) DEF DmaResult, DmaTypes, Sending
<1>7. faults' = {} => faults = {}
  OBVIOUS
<1>8. Transfer'
  BY <1>1, <1>2, <1>3, <1>4, <1>7, TransferKept, SMTT(30) DEF DmaResult
<1>9. Reached' => Reached
  <2>1. Message("extents", TRUE) # <<>>
    BY Arrival, ZenonT(40)
  <2> QED BY <1>1, <1>2, <1>4, <2>1, ZenonT(40) DEF Reached
<1>10. st'.inflight = st.inflight
  BY <1>3 DEF SameWindow
<1>11. phase'["client"] = "start" => FALSE
  BY DEF DmaResult, Serving
<1>12. Message("extents", FALSE) # <<>>
  BY Arrival, ZenonT(40)
<1>13. Serving'
  BY <1>1, <1>2, <1>4, <1>9, <1>10, <1>11, <1>12, ZenonT(40) DEF DmaResult, Serving
<1> QED BY <1>6, <1>8, <1>13 DEF DmaResult

\* The server ends with an exception.
LEMMA ThrowResult ==
    ASSUME DmaInv, DmaResult, Throw("exception"), inbox["server"] # <<>>
    PROVE  DmaResult'
<1> DEFINE f == [inbox EXCEPT !["server"] = <<>>]
<1>0. /\ phase \in [Proc -> {"start", "loop", "ended"}] /\ OfProcesses(sends)
      /\ inbox \in Queues /\ ctx \in [Ctx -> CtxStates]
      /\ Proc = {"client", "server"} /\ Ctx = {"client", "server", "receiver", "producer"}
  BY DEF DmaInv, DmaResult, DmaTypes, Proc, Ctx, Worker
<1>1. /\ phase' = [phase EXCEPT !["server"] = "ended"]
      /\ ctx' = [ctx EXCEPT !["server"] = "none"]
      /\ Leave(f, st.told)
      /\ sends' = [sends EXCEPT !["server"] = <<>>]
      /\ faults \subseteq faults'
  BY DEF Throw
<1>2. f \in Queues /\ f["client"] = inbox["client"] /\ f["server"] = <<>>
  BY <1>0, Empty DEF Queues
<1> HIDE DEF f
<1>3. /\ ctx' \in [Ctx -> CtxStates] /\ ctx'["client"] = ctx["client"]
      /\ ctx'["receiver"] = ctx["receiver"]
  BY <1>0, <1>1 DEF CtxStates
<1>4. sends'["client"] = sends["client"] /\ sends'["server"] = <<>>
  BY <1>0, <1>1 DEF OfProcesses
<1>5. phase'["client"] = phase["client"] /\ phase'["server"] = "ended"
  BY <1>0, <1>1, SMTT(30)
<1>6. ctx["client"] \notin {"none", "starting"}
  BY DEF DmaResult, Serving
<1>7. Leading(f["server"]) /\ \A e : ~Has(f["server"], e)
  BY <1>2, Empty, SMTT(30)
<1> QED BY <1>1, <1>2, <1>3, <1>4, <1>5, <1>6, <1>7, LeaveResult, SMTT(30)

\* A connection is there: the memory is mapped and its extents are sent.
LEMMA HandledResult ==
    ASSUME DmaInv, DmaResult, handle_connection
    PROVE  DmaResult'
<1>0. /\ HasFields(st) /\ OfProcesses(sends) /\ OfProcesses(held) /\ inbox \in Queues
      /\ Proc = {"client", "server"}
  BY DEF DmaInv, IsWindow, DmaResult, DmaTypes, Proc
<1>1. /\ inbox["server"] # <<>> /\ Head(inbox["server"]) = "connection"
      /\ inbox' = [inbox EXCEPT !["server"] = Tail(inbox["server"])]
      /\ held' = [held EXCEPT !["server"] = Tag({"mmap"}, 0)]
      /\ sends' = [sends EXCEPT !["server"] = Message("extents", FALSE)]
      /\ st' = [st EXCEPT !.serving = "send"]
      /\ UNCHANGED <<phase, ctx, link, faults>>
  BY DEF handle_connection, Event, Message
<1>2. /\ Tail(inbox["server"]) \in Seq(Events) /\ Has(inbox["server"], "connection")
      /\ Has(Tail(inbox["server"]), "done") => Has(inbox["server"], "done")
      /\ Has(Tail(inbox["server"]), "disconnection") => Has(inbox["server"], "disconnection")
      /\ Leading(Tail(inbox["server"])) /\ ~Has(Tail(inbox["server"]), "connection")
  <2>1. inbox["server"] \in Seq(Events) /\ Leading(inbox["server"])
    BY <1>0 DEF Queues, DmaResult, Serving
  <2> QED BY <1>1, <2>1, Taken, SMTT(30)
<1>3. /\ inbox' \in Queues /\ inbox'["client"] = inbox["client"]
      /\ inbox'["server"] = Tail(inbox["server"])
  BY <1>0, <1>1, <1>2 DEF Queues
<1>4. OfProcesses(held') /\ <<"mmap", 0>> \in held'["server"]
  <2>1. <<"mmap", 0>> \in Tag({"mmap"}, 0)
    BY DEF Tag
  <2>2. held'["server"] = Tag({"mmap"}, 0)
    BY <1>0, <1>1 DEF OfProcesses
  <2>3. OfProcesses(held')
    BY <1>0, <1>1, ForProcess, ZenonT(40)
  <2> QED BY <2>1, <2>2, <2>3, Zenon
<1>5. sends'["server"] = Message("extents", FALSE) /\ sends'["client"] = sends["client"]
  BY <1>0, <1>1 DEF OfProcesses
<1>6. SameWindow
  BY <1>0, <1>1, FieldsKept, ZenonT(40)
<1>7. st'.at = st.at /\ st'.serving = "send" /\ st'.told = st.told
  BY <1>0, <1>1 DEF HasFields
<1>8. DmaTypes'
  BY <1>1, <1>3, <1>4, <1>5, ZenonT(40) DEF DmaResult, DmaTypes, Sending
<1>9. Transfer'
  BY <1>1, <1>2, <1>3, <1>5, <1>6, <1>7, TransferKept DEF DmaResult
<1>10. Message("extents", FALSE) # <<>> /\ Message("extents", TRUE) # Message("extents", FALSE)
  BY Arrival, ZenonT(40)
<1>11. st.serving = "none" /\ ~Reached /\ ctx["client"] \notin {"none", "starting"}
  BY <1>1, <1>2, ZenonT(40) DEF DmaResult, Serving
<1>12. ~Reached'
  BY <1>1, <1>3, <1>5, <1>7, <1>10, <1>11, ZenonT(40) DEF Reached
<1>13. st'.inflight = st.inflight
  BY <1>6 DEF SameWindow
<1>14. Serving'
  BY <1>1, <1>2, <1>3, <1>4, <1>5, <1>7, <1>10, <1>11, <1>12, <1>13, ZenonT(40)
  DEF DmaResult, Serving
<1> QED BY <1>8, <1>9, <1>14 DEF DmaResult

\* The send of the extents is complete, or has failed.
LEMMA SentResult ==
    ASSUME DmaInv, DmaResult, extents_sent \/ extents_not_sent
    PROVE  DmaResult'
<1>0. /\ HasFields(st) /\ OfProcesses(sends) /\ OfProcesses(held) /\ inbox \in Queues
      /\ Proc = {"client", "server"} /\ sends["server"] \in Sending("extents")
      /\ ctx \in [Ctx -> CtxStates]
  BY DEF DmaInv, IsWindow, DmaResult, DmaTypes, Proc
<1>1. CASE extents_sent
  <2>1. /\ sends["server"] # <<>>
        /\ sends' = [sends EXCEPT !["server"] = <<>>]
        /\ held' = [held EXCEPT !["server"] = held["server"] \ Tag({"send"}, 0)]
        /\ st' = [st EXCEPT !.serving = "msg_recv"]
        /\ UNCHANGED <<phase, ctx, link, inbox, faults>>
    BY <1>1 DEF extents_sent, SendDone
  <2>2. st.serving = "send" /\ <<"mmap", 0>> \in held["server"]
    BY <2>1 DEF DmaResult, Serving
  <2>3. OfProcesses(held') /\ <<"mmap", 0>> \in held'["server"]
    <3>1. <<"mmap", 0>> \notin Tag({"send"}, 0)
      BY DEF Tag
    <3>2. held'["server"] = held["server"] \ Tag({"send"}, 0)
      BY <1>0, <2>1 DEF OfProcesses
    <3>3. OfProcesses(held')
      BY <1>0, <2>1, ForProcess, ZenonT(40)
    <3> QED BY <2>2, <3>1, <3>2, <3>3, Zenon
  <2>4. sends'["server"] = <<>> /\ sends'["client"] = sends["client"]
    BY <1>0, <2>1 DEF OfProcesses
  <2>5. SameWindow
    BY <1>0, <2>1, FieldsKept, ZenonT(40)
  <2>6. st'.at = st.at /\ st'.serving = "msg_recv" /\ st'.told = st.told
    BY <1>0, <2>1 DEF HasFields
  <2>7. DmaTypes'
    BY <2>1, <2>3, <2>4, ZenonT(40) DEF DmaResult, DmaTypes, Sending
  <2>8. Transfer'
    BY <2>1, <2>4, <2>5, <2>6, TransferKept DEF DmaResult
  <2>9. st'.inflight = st.inflight
    BY <2>5 DEF SameWindow
  <2>10. Message("extents", FALSE) # <<>>
    BY Arrival, ZenonT(40)
  <2>11. Serving'
    BY <2>1, <2>2, <2>3, <2>4, <2>6, <2>9, <2>10, ZenonT(40) DEF DmaResult, Serving
  <2> QED BY <2>7, <2>8, <2>11 DEF DmaResult
<1>2. CASE extents_not_sent
  <2>1. /\ sends["server"] # <<>> /\ ~Head(sends["server"]).arrived
        /\ sends' = [sends EXCEPT !["server"] = <<>>] /\ Leave(inbox, FALSE)
        /\ faults \subseteq faults' /\ UNCHANGED <<phase, ctx>>
    BY <1>2, ZenonT(40) DEF extents_not_sent
  <2>2. sends["server"] = Message("extents", FALSE)
    <3>1. Head(Message("extents", TRUE)).arrived = TRUE
      BY DEF Message
    <3> QED BY <1>0, <2>1, <3>1, ZenonT(40) DEF Sending
  <2>3. sends'["server"] = <<>> /\ sends'["client"] = sends["client"]
    BY <1>0, <2>1 DEF OfProcesses
  <2>4. /\ st.serving = "send" /\ ~Reached /\ Leading(inbox["server"])
        /\ ~Has(inbox["server"], "connection") /\ ctx["client"] \notin {"none", "starting"}
    BY <2>1, <2>2, ZenonT(40) DEF DmaResult, Serving
  <2>5. /\ ctx' \in [Ctx -> CtxStates] /\ ctx'["client"] = ctx["client"]
        /\ ctx'["receiver"] = ctx["receiver"] /\ phase'["client"] = phase["client"]
    BY <1>0, <2>1
  <2>6. ASSUME NEW t, t = FALSE PROVE DmaResult'
    <3>1. Leave(inbox, t) /\ ~t
      BY <2>1, <2>6, ZenonT(40)
    <3> QED BY <1>0, <2>1, <2>3, <2>4, <2>5, <3>1, LeaveResult
  <2> QED BY <2>6, ZenonT(40)
<1> QED BY <1>1, <1>2

\* The server hears that the client is done, or gone.
LEMMA HeardResult ==
    ASSUME DmaInv, DmaResult, done_received \/ server_disconnected
    PROVE  DmaResult'
<1> DEFINE f == [inbox EXCEPT !["server"] = Tail(inbox["server"])]
<1>0. /\ HasFields(st) /\ inbox \in Queues /\ Proc = {"client", "server"}
      /\ inbox["server"] # <<>> /\ Leading(inbox["server"]) /\ ctx \in [Ctx -> CtxStates]
      /\ ctx["client"] \notin {"none", "starting"} /\ inbox["server"] \in Seq(Events)
  BY ZenonT(40) DEF DmaInv, IsWindow, DmaResult, DmaTypes, Serving, Proc, Queues,
         done_received, server_disconnected, Event
<1>1. /\ Tail(inbox["server"]) \in Seq(Events)
      /\ Has(inbox["server"], Head(inbox["server"]))
      /\ \A e : Has(Tail(inbox["server"]), e) => Has(inbox["server"], e)
      /\ Leading(Tail(inbox["server"])) /\ ~Has(Tail(inbox["server"]), "connection")
  BY <1>0, Taken
<1>2. f \in Queues /\ f["client"] = inbox["client"] /\ f["server"] = Tail(inbox["server"])
  BY <1>0, <1>1 DEF Queues
<1> HIDE DEF f
<1>3. CASE done_received
  <2>1. /\ Has(inbox["server"], "done") /\ st.serving = "msg_recv" /\ Leave(f, TRUE)
        /\ UNCHANGED <<phase, ctx, sends, faults>>
    BY <1>1, <1>3, ZenonT(40) DEF done_received, Event, f
  <2>2. sends["server"] = <<>>
    BY <2>1 DEF DmaResult, Serving
  <2> QED BY <1>0, <1>1, <1>2, <2>1, <2>2, LeaveResult, ZenonT(40)
<1>4. CASE server_disconnected
  <2>1. CASE st.serving = "msg_recv"
    <3>1. /\ Has(inbox["server"], "disconnection") /\ Leave(f, st.told)
          /\ UNCHANGED <<phase, ctx, sends>> /\ faults \subseteq faults'
      BY <1>1, <1>4, <2>1, ZenonT(40) DEF server_disconnected, Event, f
    <3>2. sends["server"] = <<>>
      BY <2>1 DEF DmaResult, Serving
    <3>3. Message("extents", TRUE) # <<>>
      BY Arrival, ZenonT(40)
    <3>4. ~Reached
      BY <3>1, <3>2, <3>3, ZenonT(40) DEF DmaResult, Serving, Reached
    <3> QED BY <1>0, <1>1, <1>2, <3>1, <3>2, <3>4, LeaveResult, ZenonT(40)
  <2>2. CASE st.serving # "msg_recv"
    <3>1. inbox' = f /\ UNCHANGED <<phase, held, ctx, link, sends, st, faults>>
      BY <1>4, <2>2 DEF server_disconnected, f
    <3>2. DmaTypes'
      BY <1>2, <3>1 DEF DmaResult, DmaTypes
    <3>3. SameWindow
      BY <1>0, <3>1, FieldsKept, SMTT(30)
    <3>4. Transfer'
      BY <1>1, <1>2, <3>1, <3>3, TransferKept, SMTT(30) DEF DmaResult
    <3>5. Reached' <=> Reached
      BY <1>2, <3>1, ZenonT(40) DEF Reached
    <3>6. Serving'
      BY <1>0, <1>1, <1>2, <3>1, <3>5, ZenonT(40) DEF DmaResult, Serving
    <3> QED BY <3>2, <3>4, <3>6 DEF DmaResult
  <2> QED BY <2>1, <2>2
<1> QED BY <1>3, <1>4

\* All steps of a transfer.
LEMMA DmaResultStep ==
    ASSUME DmaInv, DmaResult, DmaSteps \/ DmaFailures
    PROVE  DmaResult'
<1>1. CASE \/ \E p \in Proc : Begin(p, p, TRUE) \/ Begin(p, p, FALSE)
           \/ ServerRuns \/ client_not_created
  BY <1>1, StartResult, ZenonT(40)
<1>2. CASE \E p \in Proc : Arrives(p)
  BY <1>2, ArrivalResult
<1>3. CASE client_created \/ extents_received \/ dma_created \/ send_done
  BY <1>3, ConnectedResult, ExtentsResult, WindowResult
<1>4. CASE \E b \in st.inflight : Completion(b) \/ FailedCompletion(b)
  BY <1>4, CompletionResult
<1>5. CASE dma_iteration \/ client_disconnected
  BY <1>5, IterationResult, ToldResult
<1>6. CASE done_sent \/ done_not_sent \/ Return("exception")
  <2>1. CASE done_sent
    <3>1. AllRead
      BY <2>1 DEF done_sent, DmaResult, Transfer
    <3> QED BY <2>1, <3>1, ReturnResult, SMTT(30) DEF done_sent
  <2>2. CASE done_not_sent
    BY <2>2, ReturnResult DEF done_not_sent
  <2>3. CASE Return("exception")
    BY <2>3, ReturnResult
  <2> QED BY <1>6, <2>1, <2>2, <2>3, SMTT(30)
<1>7. CASE handle_connection \/ extents_sent \/ extents_not_sent
  BY <1>7, HandledResult, SentResult, SMTT(30)
<1>8. CASE done_received \/ server_disconnected
  BY <1>8, HeardResult
<1>9. CASE Event("server", "connection") /\ Throw("exception")
  BY <1>9, ThrowResult DEF Event
<1> QED BY <1>1, <1>2, <1>3, <1>4, <1>5, <1>6, <1>7, <1>8, <1>9, ZenonT(40)
        DEF DmaSteps, DmaFailures, dma_serve
-----------------------------------------------------------------------------
(* The results, for every number of blocks and every parallelism. *)

ResultInv ==
    /\ WindowInv
    /\ program = "compress_fibers" => CompressResult
    /\ program = "dma_fibers" => DmaResult

\* The programs begin with nothing done, and with nothing to be told of.
LEMMA ResultInit == Init => ResultInv
<1> SUFFICES ASSUME Init PROVE ResultInv
  OBVIOUS
<1>0. /\ WindowInv /\ ctx = [c \in Ctx |-> "none"] /\ faults = {}
      /\ inbox = [p \in Proc |-> <<>>] /\ sends = [p \in Proc |-> <<>>]
      /\ held = [p \in Proc |-> {}] /\ link = "none"
      /\ Proc = {"client", "server"} /\ Ctx = {"client", "server", "receiver", "producer"}
  BY WindowInit DEF Init, Blank, Proc, Ctx, Worker
<1>1. ctx \in [Ctx -> CtxStates] /\ ctx["client"] = "none" /\ ctx["receiver"] = "none"
  BY <1>0, SMTT(30) DEF CtxStates
<1>2. CASE program = "compress_fibers"
  <2>1. PICK n \in BlockCounts : st = Window(n, 1, 16) \/ st = Window(n, 4, 4)
    BY <1>2 DEF Init, compress_file
  <2>2. n \in Nat
    BY WorkAssumption
  <2>3. /\ st.block_count = n /\ st.i = 0 /\ st.inflight = {} /\ st.good = {}
        /\ st.at = "start" /\ st.slots \in {1, 4} /\ st.tasks \in {4, 16}
        /\ st.slots <= st.tasks
    BY <2>1, SMTT(30) DEF Window
  <2>4. CompressProgress(st)
    BY <2>2, <2>3, SMTT(30) DEF CompressProgress
  <2>5. phase = [client |-> "start", server |-> "ended"]
    BY <1>2, SMTT(30) DEF Init
  <2>6. phase \in [Proc -> {"start", "loop", "ended"}] /\ phase["client"] = "start"
    BY <1>0, <2>5, SMTT(30)
  <2> QED BY <1>0, <1>1, <1>2, <2>3, <2>4, <2>6, SMTT(30) DEF ResultInv, CompressResult
<1>3. CASE program = "dma_fibers"
  <2>1. PICK n \in BlockCounts, p \in Parallelisms :
          st = LET slots == IF p < n THEN p ELSE n IN Window(n, slots, slots + 1)
    BY <1>3 DEF Init, dma_transfer
  <2>2. n \in Nat \ {0} /\ (IF p < n THEN p ELSE n) \in Nat \ {0}
    BY WorkAssumption, SMTT(30)
  <2>3. /\ st.block_count = n /\ st.slots = (IF p < n THEN p ELSE n) /\ st.i = 0
        /\ st.inflight = {} /\ st.good = {} /\ st.at = "start"
        /\ st.serving = "none" /\ st.told = FALSE
    BY <2>1, SMTT(30) DEF Window
  <2>4. DmaProgress(st) /\ st.block_count > 0
    BY <2>2, <2>3, SMTT(30) DEF DmaProgress
  <2>5. phase["client"] = "start"
    BY <1>0, <1>3 DEF Init
  <2>6. /\ inbox["client"] = <<>> /\ inbox["server"] = <<>>
        /\ sends["client"] = <<>> /\ sends["server"] = <<>>
        /\ inbox \in Queues /\ OfProcesses(held)
    BY <1>0, Empty, SMTT(30) DEF Queues, OfProcesses
  <2>7. DmaTypes
    BY <1>1, <2>6, SMTT(30) DEF DmaTypes, Sending
  <2>8. Transfer
    BY <2>3, <2>4, <2>5, <2>6, Empty, SMTT(30) DEF Transfer
  <2>9. ~Reached
    <3>1. Message("extents", TRUE) # <<>>
      BY Arrival, ZenonT(40)
    <3> QED BY <2>3, <2>6, <3>1, Empty, ZenonT(40) DEF Reached
  <2>10. Serving
    BY <1>0, <1>1, <2>3, <2>5, <2>6, <2>9, Empty DEF Serving
  <2> QED BY <1>0, <1>3, <2>7, <2>8, <2>10, SMTT(30) DEF ResultInv, DmaResult
<1> QED BY <1>0, <1>2, <1>3, SMTT(30) DEF ResultInv

\* Every step of either program keeps it.
LEMMA ResultStep == ResultInv /\ [Next]_vars => ResultInv'
<1> SUFFICES ASSUME ResultInv, [Next]_vars PROVE ResultInv'
  OBVIOUS
<1>1. WindowInv'
  BY WindowStep DEF ResultInv
<1>2. CASE UNCHANGED vars
  <2>1. UNCHANGED <<program, phase, held, ctx, link, inbox, sends, st, faults>>
    BY <1>2, SMTT(30) DEF vars
  <2>2. CompressResult' <=> CompressResult
    BY <2>1, SMTT(30) DEF CompressResult, CompressProgress
  <2>3. DmaResult' <=> DmaResult
    BY <2>1 DEF DmaResult, DmaTypes, Transfer, AllRead, DmaProgress, Serving, Reached
  <2> QED BY <1>1, <2>1, <2>2, <2>3, SMTT(30) DEF ResultInv
<1>3. CASE Next
  <2>1. UNCHANGED program
    BY <1>3 DEF Next
  <2>2. CASE program = "compress_fibers"
    BY <1>1, <1>3, <2>1, <2>2, CompressResultStep, SMTT(30)
    DEF Next, Steps, Failures, ResultInv, WindowInv
  <2>3. CASE program = "dma_fibers"
    BY <1>1, <1>3, <2>1, <2>3, DmaResultStep, SMTT(30)
    DEF Next, Steps, Failures, ResultInv, WindowInv
  <2> QED BY <1>1, <2>1, <2>2, <2>3, SMTT(30) DEF ResultInv
<1> QED BY <1>2, <1>3

\* A client that ends without a failure has compressed, or read, every block
\* (parallel_compress.cpp:76, dma_client.cpp:99), but for a window of
\* parallel_compress.cpp that is larger than the number of blocks, and for block 0
\* of dma_client.cpp.
THEOREM FibersComplete == Spec => []CompleteFibers
<1>1. ResultInv => CompleteFibers
  <2> SUFFICES ASSUME ResultInv, phase["client"] = "ended", faults = {} PROVE CompleteFibers
    BY DEF CompleteFibers
  <2>1. ASSUME program = "compress_fibers"
        PROVE  \/ st.at = "end" /\ st.good = 0..(st.block_count - 1)
               \/ st.slots > st.block_count
    BY <2>1, ZenonT(40) DEF ResultInv, CompressResult, CompressProgress
  <2>2. ASSUME program = "dma_fibers"
        PROVE  st.good \cup {0} = 0..(st.block_count - 1)
    <3>1. /\ IsWindow(st) /\ DmaProgress(st) /\ AllRead /\ st.block_count > 0
      BY <2>2 DEF ResultInv, WindowInv, DmaInv, DmaResult, Transfer
    <3> QED BY <3>1, AllReadIsGood
  <2> QED BY <2>1, <2>2 DEF CompleteFibers
<1> QED BY <1>1, ResultInit, ResultStep, PTL DEF Spec

\* As long as both processes are there, handle_connection (dma_server.cpp:17) does
\* not return while the client reads from the memory that it has mapped, whatever
\* failed, but for block 0, which the client may forget; and "done" is the truth.
THEOREM MappingIsKept == Spec => []MappingKept
<1>1. ResultInv => MappingKept
  <2> SUFFICES ASSUME ResultInv, program = "dma_fibers" PROVE MappingKept
    BY DEF MappingKept
  <2>1. IsWindow(st) /\ DmaResult
    BY DEF ResultInv, WindowInv, DmaInv
  <2>2. AllRead => /\ st.inflight \subseteq {0}
                   /\ st.good \cup {0} = 0..(st.block_count - 1)
    BY <2>1, AllReadIsGood DEF DmaResult, Transfer
  <2>3. st.told => AllRead
    BY <2>1 DEF DmaResult, Transfer
  <2>4. ASSUME st.inflight \ {0} # {}, phase["server"] # "ended"
        PROVE  <<"mmap", 0>> \in held["server"]
    <3>1. Reached
      BY <2>1, <2>4, ZenonT(40) DEF DmaResult, Serving, Reached
    <3>2. ~st.told
      BY <2>2, <2>3, <2>4
    <3> QED BY <2>1, <2>4, <3>1, <3>2, SMTT(30) DEF DmaResult, Serving
  <2> QED BY <2>2, <2>3, <2>4 DEF MappingKept
<1> QED BY <1>1, ResultInit, ResultStep, PTL DEF Spec
=============================================================================
