------------------------ MODULE ProgressEngineProofs ------------------------
(***************************************************************************)
(* Proofs about ProgressEngine, for any fibers, leases and contexts:       *)
(* registered_fibers_ counts the leases; under the lease discipline run()  *)
(* never sleeps with nobody to wake it; and without late spawns it ends    *)
(* only when there is neither a context nor a lease.                       *)
(***************************************************************************)
EXTENDS ProgressEngine, FiniteSetTheorems, TLAPS

HeldIn(kept) == {l \in Leases : kept[l]}

\* The held leases are finitely many, and none if and only if none is held.
LEMMA HeldFacts ==
    ASSUME EngineConstants, NEW kept \in [Leases -> BOOLEAN]
    PROVE  /\ IsFiniteSet(HeldIn(kept))
           /\ Cardinality(HeldIn(kept)) \in Nat
           /\ Cardinality(HeldIn(kept)) = 0 <=> \A l \in Leases : ~kept[l]
<1>1. HeldIn(kept) \in SUBSET Leases
  BY DEF HeldIn
<1>2. IsFiniteSet(HeldIn(kept))
  BY <1>1, FS_Subset DEF EngineConstants
<1>3. Cardinality(HeldIn(kept)) \in Nat
  BY <1>2, FS_CardinalityType
<1>4. Cardinality(HeldIn(kept)) = 0 <=> HeldIn(kept) = {}
  BY <1>2, FS_EmptySet
<1>5. HeldIn(kept) = {} <=> \A l \in Leases : ~kept[l]
  BY DEF HeldIn
<1> QED BY <1>2, <1>3, <1>4, <1>5

\* One lease is registered.
LEMMA TakeOne ==
    ASSUME EngineConstants, NEW kept \in [Leases -> BOOLEAN], NEW l \in Leases, ~kept[l]
    PROVE  /\ [kept EXCEPT ![l] = TRUE] \in [Leases -> BOOLEAN]
           /\ Cardinality(HeldIn([kept EXCEPT ![l] = TRUE])) = Cardinality(HeldIn(kept)) + 1
<1>1. HeldIn([kept EXCEPT ![l] = TRUE]) = HeldIn(kept) \cup {l} /\ l \notin HeldIn(kept)
  BY DEF HeldIn
<1>2. Cardinality(HeldIn(kept) \cup {l}) = Cardinality(HeldIn(kept)) + 1
  BY Zenon, <1>1, HeldFacts, FS_AddElement
<1> QED BY Zenon, <1>1, <1>2

\* One lease is cleared.
LEMMA DropOne ==
    ASSUME EngineConstants, NEW kept \in [Leases -> BOOLEAN], NEW l \in Leases, kept[l]
    PROVE  /\ [kept EXCEPT ![l] = FALSE] \in [Leases -> BOOLEAN]
           /\ Cardinality(HeldIn([kept EXCEPT ![l] = FALSE])) = Cardinality(HeldIn(kept)) - 1
<1>1. HeldIn([kept EXCEPT ![l] = FALSE]) = HeldIn(kept) \ {l} /\ l \in HeldIn(kept)
  BY DEF HeldIn
<1>2. Cardinality(HeldIn(kept) \ {l}) = Cardinality(HeldIn(kept)) - 1
  BY Zenon, <1>1, HeldFacts, FS_RemoveElement
<1> QED BY Zenon, <1>1, <1>2

Moved(kept, l, m) == [kept EXCEPT ![l] = kept[m], ![m] = FALSE]

\* A lease is moved: the target's registration goes, the source's is taken over.
LEMMA MoveOne ==
    ASSUME EngineConstants, NEW kept \in [Leases -> BOOLEAN],
           NEW l \in Leases, NEW m \in Leases, l # m
    PROVE  /\ Moved(kept, l, m) \in [Leases -> BOOLEAN]
           /\ kept[l] =>
                Cardinality(HeldIn(Moved(kept, l, m))) = Cardinality(HeldIn(kept)) - 1
           /\ ~kept[l] =>
                Cardinality(HeldIn(Moved(kept, l, m))) = Cardinality(HeldIn(kept))
<1> DEFINE moved == Moved(kept, l, m)
<1> USE DEF Moved
<1>0. moved \in [Leases -> BOOLEAN]
  OBVIOUS
<1>1. CASE kept[m] /\ kept[l]
  <2>1. moved = [kept EXCEPT ![m] = FALSE]
    BY Zenon, <1>1
  <2> QED BY Zenon, <1>0, <1>1, <2>1, DropOne
<1>2. CASE kept[m] /\ ~kept[l]
  <2> DEFINE dropped == [kept EXCEPT ![m] = FALSE]
  <2>1. dropped \in [Leases -> BOOLEAN] /\ ~dropped[l]
    BY <1>2
  <2>2. moved = [dropped EXCEPT ![l] = TRUE]
    BY Zenon, <1>2
  <2>3. Cardinality(HeldIn(dropped)) = Cardinality(HeldIn(kept)) - 1
    BY Zenon, <1>2, DropOne
  <2> HIDE DEF dropped
  <2>4. Cardinality(HeldIn(moved)) = Cardinality(HeldIn(dropped)) + 1
    BY Zenon, <2>1, <2>2, TakeOne
  <2>5. Cardinality(HeldIn(kept)) \in Nat
    BY HeldFacts
  <2>6. Cardinality(HeldIn(moved)) = Cardinality(HeldIn(kept))
    BY <2>3, <2>4, <2>5
  <2> QED BY Zenon, <1>0, <1>2, <2>6
<1>3. CASE ~kept[m] /\ kept[l]
  <2>1. moved = [kept EXCEPT ![l] = FALSE]
    BY Zenon, <1>3
  <2> QED BY Zenon, <1>0, <1>3, <2>1, DropOne
<1>4. CASE ~kept[m] /\ ~kept[l]
  <2>1. moved = kept
    BY Zenon, <1>4
  <2> QED BY Zenon, <1>0, <1>4, <2>1
<1> QED BY <1>1, <1>2, <1>3, <1>4

\* All leases of a fiber go with it.
LEMMA DropAll ==
    ASSUME EngineConstants, NEW kept \in [Leases -> BOOLEAN], NEW held \in SUBSET HeldIn(kept)
    PROVE  LET left == [l \in Leases |-> kept[l] /\ l \notin held]
           IN  /\ left \in [Leases -> BOOLEAN]
               /\ Cardinality(held) \in Nat
               /\ Cardinality(HeldIn(left)) = Cardinality(HeldIn(kept)) - Cardinality(held)
               /\ Cardinality(held) <= Cardinality(HeldIn(kept))
<1> DEFINE left == [l \in Leases |-> kept[l] /\ l \notin held]
<1>1. left \in [Leases -> BOOLEAN]
  OBVIOUS
<1>2. HeldIn(left) = HeldIn(kept) \ held
  BY Zenon DEF HeldIn
<1>3. HeldIn(kept) \cap held = held
  OBVIOUS
<1>4. Cardinality(HeldIn(kept) \ held) = Cardinality(HeldIn(kept)) - Cardinality(held)
  BY Zenon, <1>3, HeldFacts, FS_Difference
<1>5. IsFiniteSet(held) /\ Cardinality(held) <= Cardinality(HeldIn(kept))
  BY HeldFacts, FS_Subset
<1>6. Cardinality(held) \in Nat
  BY <1>5, FS_CardinalityType
<1> QED BY <1>1, <1>2, <1>4, <1>5, <1>6
-----------------------------------------------------------------------------
(* The leases are counted *)

Counted ==
    /\ lease \in [Leases -> BOOLEAN]
    /\ registered \in Nat
    /\ registered = Cardinality(HeldIn(lease))

\* What deregister_fiber does to the count, and to run().
LEMMA DeregisterCounts ==
    ASSUME EngineConstants, Counted, NEW kept \in [Leases -> BOOLEAN], NEW gone \in Nat,
           gone <= registered, Cardinality(HeldIn(kept)) = registered - gone,
           Deregister(gone, kept)
    PROVE  Counted'
<1>1. registered' = registered - gone /\ lease' = kept
  BY DEF Deregister
<1>2. registered' \in Nat /\ registered' = Cardinality(HeldIn(kept))
  BY <1>1 DEF Counted
<1>3. HeldIn(lease)' = HeldIn(kept)
  BY <1>1 DEF HeldIn
<1> QED BY <1>1, <1>2, <1>3 DEF Counted

\* A lease operation of fiber f, as what it clears and what it leaves.
LEMMA LeaseStep ==
    ASSUME EngineConstants, Counted, NEW f \in Fibers, NEW l \in Leases, NEW m \in Leases,
           CopyAssign(f, l, m) \/ MoveAssign(f, l, m) \/ Clear(f, l) \/ Exit(f)
    PROVE  \/ /\ ~lease[l] /\ lease[m] /\ OwnerOf[m] = f /\ OwnerOf[l] = f
              /\ lease' = [lease EXCEPT ![l] = TRUE]
              /\ registered' = registered + 1
              /\ UNCHANGED runVars
           \/ \E kept \in [Leases -> BOOLEAN], gone \in Nat :
                /\ gone <= registered
                /\ Cardinality(HeldIn(kept)) = registered - gone
                /\ Deregister(gone, kept)
<1>0. /\ lease \in [Leases -> BOOLEAN] /\ registered \in Nat
      /\ registered = Cardinality(HeldIn(lease))
  BY DEF Counted
<1>p. \A x \in Leases : lease[x] => registered > 0
  <2>1. registered = 0 <=> \A x \in Leases : ~lease[x]
    BY <1>0, HeldFacts
  <2> QED BY <1>0, <2>1
<1>1. CASE CopyAssign(f, l, m)
  <2>1. CASE lease[m]
    <3>1. ~lease[l] /\ OwnerOf[m] = f /\ OwnerOf[l] = f
      BY Zenon, <1>0, <1>1, <2>1 DEF CopyAssign
    <3>2. lease' = [lease EXCEPT ![l] = lease[m]] /\ registered' = registered + 1 /\ UNCHANGED runVars
      BY <1>1, <2>1 DEF CopyAssign
    <3>3. lease[m] = TRUE
      BY <1>0, <2>1
    <3> QED BY <2>1, <3>1, <3>2, <3>3
  <2>2. CASE ~lease[m]
    <3>1. lease[l] /\ lease[m] = FALSE /\ Deregister(1, [lease EXCEPT ![l] = lease[m]])
      BY <1>0, <1>1, <2>2 DEF CopyAssign
    <3>2. Deregister(1, [lease EXCEPT ![l] = FALSE])
      BY Zenon, <3>1
    <3>3. /\ [lease EXCEPT ![l] = FALSE] \in [Leases -> BOOLEAN]
          /\ Cardinality(HeldIn([lease EXCEPT ![l] = FALSE])) = registered - 1
      BY ZenonT(60), <1>0, <3>1, DropOne
    <3>4. 1 \in Nat /\ 1 <= registered
      BY <1>0, <1>p, <3>1
    <3> QED BY Zenon, <3>2, <3>3, <3>4
  <2> QED BY <2>1, <2>2
<1>2. CASE MoveAssign(f, l, m)
  <2> DEFINE moved == Moved(lease, l, m)
             gone == IF lease[l] THEN 1 ELSE 0
  <2>1. l # m /\ Deregister(gone, moved)
    BY <1>2 DEF MoveAssign, Moved
  <2>2. moved \in [Leases -> BOOLEAN] /\ Cardinality(HeldIn(moved)) = registered - gone
    <3>1. /\ moved \in [Leases -> BOOLEAN]
          /\ lease[l] => Cardinality(HeldIn(moved)) = registered - 1
          /\ ~lease[l] => Cardinality(HeldIn(moved)) = registered
      BY <1>0, <2>1, MoveOne
    <3> QED BY <1>0, <3>1
  <2>3. gone \in Nat /\ gone <= registered
    BY <1>0, <1>p
  <2> QED BY <2>1, <2>2, <2>3
<1>3. CASE Clear(f, l)
  <2>1. lease[l] /\ Deregister(1, [lease EXCEPT ![l] = FALSE])
    BY <1>3 DEF Clear
  <2>2. /\ [lease EXCEPT ![l] = FALSE] \in [Leases -> BOOLEAN]
        /\ Cardinality(HeldIn([lease EXCEPT ![l] = FALSE])) = registered - 1
    BY Zenon, <1>0, <2>1, DropOne
  <2>3. 1 \in Nat /\ 1 <= registered
    BY <1>0, <1>p, <2>1
  <2> QED BY Zenon, <2>1, <2>2, <2>3
<1>4. CASE Exit(f)
  <2> DEFINE held == {x \in Leases : OwnerOf[x] = f /\ lease[x]}
             left == [x \in Leases |-> lease[x] /\ x \notin held]
  <2>1. Deregister(Cardinality(held), left)
    BY <1>4 DEF Exit
  <2>2. held \in SUBSET HeldIn(lease)
    BY DEF HeldIn
  <2>3. /\ left \in [Leases -> BOOLEAN] /\ Cardinality(held) \in Nat
        /\ Cardinality(HeldIn(left)) = registered - Cardinality(held)
        /\ Cardinality(held) <= registered
    BY <1>0, <2>2, DropAll
  <2> QED BY Zenon, <2>1, <2>3
<1> QED BY <1>1, <1>2, <1>3, <1>4
-----------------------------------------------------------------------------
(* The call stack *)

Entries == Fibers \cup Ctxs

Kinds == {"unborn", "running", "start", "data", "stop", "elsewhere", "exited"}

\* run() has called nobody in these states: a callback that is on the stack was
\* called by a fiber.
CalledByFiber == {"unstarted", "waiting", "woken", "yielding", "ended", "destroyed"}

\* On stack s, with a for at and p for pc: a fiber on it is running and is there
\* once, and at the bottom is a fiber unless run() is in a callback.
StackIs(s, a, p) ==
    /\ \A i \in DOMAIN s : s[i] \in Fibers => a[s[i]] = "running"
    /\ \A i, j \in DOMAIN s : s[i] \in Fibers /\ s[i] = s[j] => i = j
    /\ s # <<>> /\ p \in CalledByFiber => s[Len(s)] \in Fibers

\* What is left when the frame in front is gone.
LEMMA TailFacts ==
    ASSUME NEW S, NEW s \in Seq(S), s # <<>>
    PROVE  /\ Tail(s) \in Seq(S) /\ Head(s) = s[1] /\ 1 \in DOMAIN s
           /\ Len(s) \in Nat /\ Len(s) >= 1 /\ DOMAIN s = 1..Len(s)
           /\ Len(Tail(s)) = Len(s) - 1 /\ DOMAIN Tail(s) = 1..(Len(s) - 1)
           /\ \A i \in 1..(Len(s) - 1) : Tail(s)[i] = s[i + 1]
           /\ Tail(s) # <<>> => Len(s) > 1
OBVIOUS

\* A suspended fiber, or a callback that returns, leaves the stack.
LEMMA PopStack ==
    ASSUME NEW s \in Seq(Entries), s # <<>>, NEW a \in [Fibers -> Kinds], NEW p,
           StackIs(s, a, p), NEW b \in [Fibers -> Kinds],
           \A f \in Fibers : f # Head(s) => b[f] = a[f]
    PROVE  StackIs(Tail(s), b, p)
<1> DEFINE t == Tail(s)
<1>0. /\ DOMAIN s = 1..Len(s) /\ Len(s) \in Nat /\ Len(s) >= 1 /\ Head(s) = s[1]
      /\ DOMAIN t = 1..(Len(s) - 1) /\ Len(t) = Len(s) - 1 /\ 1 \in DOMAIN s
      /\ t # <<>> => Len(s) > 1
  BY TailFacts
<1>1. \A i \in DOMAIN t : t[i] = s[i + 1] /\ i + 1 \in DOMAIN s /\ i + 1 # 1
  BY <1>0, TailFacts
<1> HIDE DEF t
<1>2. ASSUME NEW i \in DOMAIN t, t[i] \in Fibers PROVE b[t[i]] = "running"
  <2>1. s[i + 1] # s[1]
    BY <1>0, <1>1, <1>2 DEF StackIs
  <2> QED BY <1>0, <1>1, <1>2, <2>1 DEF StackIs
<1>3. ASSUME NEW i \in DOMAIN t, NEW j \in DOMAIN t, t[i] \in Fibers, t[i] = t[j] PROVE i = j
  <2>1. i + 1 = j + 1
    BY <1>1, <1>3 DEF StackIs
  <2> QED BY <1>0, <2>1
<1>4. ASSUME t # <<>>, p \in CalledByFiber PROVE t[Len(t)] \in Fibers
  <2>1. Len(t) \in DOMAIN t /\ Len(t) + 1 = Len(s)
    BY <1>0, <1>4
  <2> QED BY <1>1, <1>4, <2>1 DEF StackIs
<1>5. StackIs(t, b, p)
  BY <1>2, <1>3, <1>4 DEF StackIs
<1> QED BY <1>5 DEF t

\* A callback is called, by a fiber or by run().
LEMMA PushContext ==
    ASSUME EngineConstants, NEW s \in Seq(Entries), NEW a, NEW p, StackIs(s, a, p), NEW c \in Ctxs,
           s # <<>> \/ p \notin CalledByFiber
    PROVE  StackIs(<<c>> \o s, a, p) /\ <<c>> \o s \in Seq(Entries)
<1> DEFINE t == <<c>> \o s
<1>0. /\ DOMAIN s = 1..Len(s) /\ Len(s) \in Nat /\ Len(t) = Len(s) + 1
      /\ DOMAIN t = 1..(Len(s) + 1) /\ t[1] = c /\ c \notin Fibers
      /\ s # <<>> => Len(s) > 0
      /\ t \in Seq(Entries)
  BY DEF EngineConstants, Entries
<1>1. \A i \in 2..(Len(s) + 1) : t[i] = s[i - 1] /\ i - 1 \in DOMAIN s
  BY <1>0
<1> HIDE DEF t
<1>2. ASSUME NEW i \in DOMAIN t, t[i] \in Fibers PROVE i \in 2..(Len(s) + 1)
  BY <1>0, <1>2
<1>3. ASSUME NEW i \in DOMAIN t, NEW j \in DOMAIN t, t[i] \in Fibers, t[i] = t[j] PROVE i = j
  <2>1. i - 1 = j - 1 /\ i \in 2..(Len(s) + 1) /\ j \in 2..(Len(s) + 1)
    BY <1>1, <1>2, <1>3 DEF StackIs
  <2> QED BY <1>0, <2>1
<1>4. ASSUME p \in CalledByFiber PROVE t[Len(t)] \in Fibers
  <2>1. Len(t) \in 2..(Len(s) + 1) /\ Len(t) - 1 = Len(s) /\ s # <<>>
    BY <1>0, <1>4
  <2> QED BY <1>1, <1>4, <2>1 DEF StackIs
<1>5. StackIs(t, a, p)
  BY <1>1, <1>2, <1>3, <1>4 DEF StackIs
<1> QED BY <1>0, <1>5 DEF t

\* The fibers that a handler resumes, in some order.
LEMMA OrderFacts ==
    ASSUME EngineConstants, NEW woken \in SUBSET Fibers, NEW order \in SetToSeqs(woken)
    PROVE  /\ order \in Seq(Fibers) /\ order \in Seq(Entries)
           /\ \A i \in DOMAIN order : order[i] \in woken
           /\ \A i, j \in DOMAIN order : order[i] = order[j] => i = j
<1>1. Cardinality(woken) \in Nat
  <2>1. IsFiniteSet(woken)
    BY FS_Subset DEF EngineConstants
  <2> QED BY <2>1, FS_CardinalityType
<1>2. /\ order \in [1..Cardinality(woken) -> woken]
      /\ \A i, j \in 1..Cardinality(woken) : i # j => order[i] # order[j]
  BY DEF SetToSeqs
<1>3. order \in Seq(woken)
  BY <1>1, <1>2
<1> QED BY <1>2, <1>3 DEF Entries

\* They come on top.
LEMMA PushFibers ==
    ASSUME EngineConstants, NEW woken \in SUBSET Fibers, NEW order \in SetToSeqs(woken),
           NEW below \in Seq(Entries), NEW a \in [Fibers -> Kinds], NEW p, StackIs(below, a, p),
           \A f \in woken : a[f] # "running",
           NEW b, b = [f \in Fibers |-> IF f \in woken THEN "running" ELSE a[f]]
    PROVE  StackIs(order \o below, b, p) /\ order \o below \in Seq(Entries)
<1> DEFINE t == order \o below
           n == Len(order)
<1>0. /\ order \in Seq(Entries)
      /\ \A i \in DOMAIN order : order[i] \in woken
      /\ \A i, j \in DOMAIN order : order[i] = order[j] => i = j
  BY OrderFacts
<1>1. /\ n \in Nat /\ Len(below) \in Nat /\ t \in Seq(Entries)
      /\ DOMAIN order = 1..n /\ DOMAIN below = 1..Len(below)
      /\ DOMAIN t = 1..(n + Len(below)) /\ Len(t) = n + Len(below)
      /\ \A i \in 1..n : t[i] = order[i]
      /\ \A i \in (n + 1)..(n + Len(below)) : t[i] = below[i - n]
      /\ below # <<>> => Len(below) > 0
      /\ t # <<>> => Len(t) > 0
  BY <1>0
<1>2. \A i \in (n + 1)..(n + Len(below)) : i - n \in DOMAIN below /\ t[i] = below[i - n]
  BY <1>1
<1>3. \A i \in DOMAIN t : i \in 1..n \/ i \in (n + 1)..(n + Len(below))
  BY <1>1
<1>4. \A i \in 1..n : t[i] \in woken /\ t[i] \in Fibers
  BY <1>0, <1>1
<1>5. \A i \in DOMAIN below : below[i] \in Fibers => below[i] \notin woken
  BY DEF StackIs
<1>a. n \in Nat /\ Len(below) \in Nat
  BY <1>1
<1> HIDE DEF t, n
<1>6. ASSUME NEW i \in DOMAIN t, t[i] \in Fibers PROVE b[t[i]] = "running"
  <2>1. CASE i \in 1..n
    BY <1>4, <2>1
  <2>2. CASE i \in (n + 1)..(n + Len(below))
    <3>1. i - n \in DOMAIN below /\ t[i] = below[i - n]
      BY <1>2, <2>2
    <3>2. a[t[i]] = "running"
      BY <1>6, <3>1 DEF StackIs
    <3> QED BY <1>6, <3>2
  <2> QED BY <1>3, <2>1, <2>2
<1>7. ASSUME NEW i \in DOMAIN t, NEW j \in DOMAIN t, t[i] \in Fibers, t[i] = t[j] PROVE i = j
  <2>1. CASE i \in 1..n /\ j \in 1..n
    BY <1>0, <1>1, <1>7, <2>1
  <2>2. CASE i \in 1..n /\ j \in (n + 1)..(n + Len(below))
    <3>1. t[i] \in woken
      BY <1>4, <2>2
    <3>2. j - n \in DOMAIN below /\ t[j] = below[j - n]
      BY <1>2, <2>2
    <3> QED BY <1>5, <1>7, <3>1, <3>2
  <2>3. CASE j \in 1..n /\ i \in (n + 1)..(n + Len(below))
    <3>1. t[j] \in woken
      BY <1>4, <2>3
    <3>2. i - n \in DOMAIN below /\ t[i] = below[i - n]
      BY <1>2, <2>3
    <3> QED BY <1>5, <1>7, <3>1, <3>2
  <2>4. CASE i \in (n + 1)..(n + Len(below)) /\ j \in (n + 1)..(n + Len(below))
    <3>1. /\ i - n \in DOMAIN below /\ t[i] = below[i - n]
          /\ j - n \in DOMAIN below /\ t[j] = below[j - n]
      BY <1>2, <2>4
    <3>2. i - n = j - n
      BY ZenonT(60), <1>7, <3>1 DEF StackIs
    <3> QED BY <1>a, <2>4, <3>2
  <2> QED BY <1>3, <2>1, <2>2, <2>3, <2>4
<1>8. ASSUME t # <<>>, p \in CalledByFiber PROVE t[Len(t)] \in Fibers
  <2>1. CASE below = <<>>
    BY <1>1, <1>4, <1>8, <2>1
  <2>2. CASE below # <<>>
    <3>1. t[Len(t)] = below[Len(below)]
      BY <1>1, <2>2
    <3> QED BY <1>8, <2>2, <3>1 DEF StackIs
  <2> QED BY <2>1, <2>2
<1>9. StackIs(t, b, p)
  BY <1>6, <1>7, <1>8 DEF StackIs
<1> QED BY <1>1, <1>9 DEF t
-----------------------------------------------------------------------------
(* The inductive invariant *)

FiberTypes ==
    /\ at \in [Fibers -> Kinds]
    /\ on \in [Fibers -> Ctxs \cup {None}]
    /\ stack \in Seq(Entries)

RunTypes ==
    /\ cfg \in Cfgs
    /\ pc \in {"unstarted", "waiting", "woken", "progress", "yielding", "stop_all", "drain",
               "ended", "destroyed"}
    /\ ec \in {"ok", "aborted", "failed", "dying"}
    /\ armed \in BOOLEAN

CtxTypes ==
    /\ ctx \in [Ctxs -> {"none", "starting", "running", "stopping", "idle"}]
    /\ registry \in SUBSET Ctxs
    /\ pending \in SUBSET Events

StackOK == StackIs(stack, at, pc)

IInv == RunTypes /\ Counted /\ CtxTypes /\ FiberTypes /\ StackOK

\* The invariant implies what the runs check.
LEMMA IInvImplies == IInv => TypeOK /\ LeasesCounted
BY DEF IInv, RunTypes, Counted, CtxTypes, FiberTypes, TypeOK, LeasesCounted, HeldIn, Kinds, Entries

\* A fiber that suspends leaves a stack in order.
LEMMA SuspendKeeps ==
    ASSUME FiberTypes, StackOK, NEW f \in Fibers, Runs(f), NEW kind \in Kinds,
           NEW c \in Ctxs \cup {None}, SuspendOn(f, kind, c)
    PROVE  FiberTypes' /\ StackIs(stack', at', pc)
<1>1. at' = [at EXCEPT ![f] = kind] /\ on' = [on EXCEPT ![f] = c] /\ stack' = Tail(stack)
  BY DEF SuspendOn
<1>2. stack # <<>> /\ Head(stack) = f /\ stack \in Seq(Entries)
  BY DEF Runs, FiberTypes
<1>3. at' \in [Fibers -> Kinds] /\ on' \in [Fibers -> Ctxs \cup {None}]
  BY <1>1 DEF FiberTypes
<1>4. Tail(stack) \in Seq(Entries)
  BY <1>2, TailFacts
<1>5. at \in [Fibers -> Kinds] /\ at' \in [Fibers -> Kinds]
  BY <1>3 DEF FiberTypes
<1>6. \A g \in Fibers : g # Head(stack) => at'[g] = at[g]
  BY <1>1, <1>2 DEF FiberTypes
<1>7. StackIs(Tail(stack), at', pc)
  BY <1>2, <1>5, <1>6, PopStack DEF StackOK
<1> QED BY <1>1, <1>3, <1>4, <1>7 DEF FiberTypes

\* So does a handler that resumes fibers.
LEMMA ResumeKeeps ==
    ASSUME EngineConstants, FiberTypes, NEW woken \in SUBSET Fibers,
           \A f \in woken : at[f] # "running",
           NEW below \in Seq(Entries), StackIs(below, at, pc), ResumeOn(woken, below)
    PROVE  FiberTypes' /\ StackIs(stack', at', pc)
<1>1. PICK order \in SetToSeqs(woken) : stack' = order \o below
  BY Zenon DEF ResumeOn
<1>2. at' = [f \in Fibers |-> IF f \in woken THEN "running" ELSE at[f]]
  BY DEF ResumeOn
<1>3. at \in [Fibers -> Kinds]
  BY DEF FiberTypes
<1>4. StackIs(order \o below, at', pc) /\ order \o below \in Seq(Entries)
  BY <1>2, <1>3, PushFibers
<1>5. at' \in [Fibers -> Kinds] /\ on' \in [Fibers -> Ctxs \cup {None}]
  BY DEF FiberTypes, ResumeOn, Kinds
<1> QED BY <1>1, <1>4, <1>5 DEF FiberTypes

\* A context that becomes idle, by a fiber's stop() or in run().
LEMMA IdleKeeps ==
    ASSUME EngineConstants, FiberTypes, StackOK, CtxTypes, NEW c \in Ctxs, BecomeIdle(c),
           stack # <<>> \/ pc \notin CalledByFiber
    PROVE  /\ FiberTypes' /\ StackIs(stack', at', pc)
           /\ ctx' \in [Ctxs -> {"none", "starting", "running", "stopping", "idle"}]
           /\ pending' \in SUBSET Events
<1>1. StackIs(<<c>> \o stack, at, pc) /\ <<c>> \o stack \in Seq(Entries)
  BY PushContext DEF FiberTypes, StackOK
<1>2. Waiters("data", c) \in SUBSET Fibers /\ \A f \in Waiters("data", c) : at[f] # "running"
  BY DEF Waiters
<1>3. ResumeOn(Waiters("data", c), <<c>> \o stack)
  BY DEF BecomeIdle
<1>4. FiberTypes' /\ StackIs(stack', at', pc)
  BY Zenon, <1>1, <1>2, <1>3, ResumeKeeps
<1>5. ctx' \in [Ctxs -> {"none", "starting", "running", "stopping", "idle"}] /\ pending' \in SUBSET Events
  BY DEF BecomeIdle, CtxTypes
<1> QED BY <1>4, <1>5

\* stop() keeps the invariant, whoever calls it.
LEMMA StopKeeps ==
    ASSUME EngineConstants, IInv, NEW c \in Ctxs, StopContext(c), UNCHANGED <<runVars, leaseVars>>,
           stack # <<>> \/ pc \notin CalledByFiber
    PROVE  IInv'
<1>0. RunTypes' /\ Counted'
  BY DEF IInv, RunTypes, Counted, HeldIn, runVars, leaseVars
<1>1. CASE ctx' = [ctx EXCEPT ![c] = "stopping"] /\ UNCHANGED <<pending, fiberVars>>
  <2>1. CtxTypes'
    BY <1>1 DEF StopContext, IInv, CtxTypes
  <2>2. FiberTypes' /\ StackOK'
    BY <1>1 DEF IInv, FiberTypes, StackOK, fiberVars, runVars
  <2> QED BY <1>0, <2>1, <2>2 DEF IInv
<1>2. CASE BecomeIdle(c)
  <2>1. /\ FiberTypes' /\ StackIs(stack', at', pc)
        /\ ctx' \in [Ctxs -> {"none", "starting", "running", "stopping", "idle"}]
        /\ pending' \in SUBSET Events
    BY <1>2, IdleKeeps DEF IInv
  <2>2. CtxTypes' /\ pc' = pc
    BY <2>1 DEF StopContext, IInv, CtxTypes, runVars
  <2> QED BY <1>0, <2>1, <2>2 DEF IInv, StackOK
<1> QED BY <1>1, <1>2 DEF StopContext
\* Steps of run() that call nobody.
LEMMA RunKeeps ==
    ASSUME IInv, RunTypes', UNCHANGED <<leaseVars, ctxVars, fiberVars>>,
           stack = <<>> \/ (pc' \in CalledByFiber => pc \in CalledByFiber)
    PROVE  IInv'
<1>1. Counted' /\ CtxTypes' /\ FiberTypes'
  BY DEF IInv, Counted, HeldIn, CtxTypes, FiberTypes, leaseVars, ctxVars, fiberVars
<1>2. StackOK'
  BY DEF IInv, StackOK, StackIs, FiberTypes, fiberVars
<1> QED BY <1>1, <1>2 DEF IInv

\* Steps of a fiber that change neither run() nor leases, nor contexts.
LEMMA FiberOnlyKeeps ==
    ASSUME IInv, FiberTypes', StackIs(stack', at', pc),
           UNCHANGED <<runVars, leaseVars>>, CtxTypes'
    PROVE  IInv'
<1>1. Counted' /\ RunTypes' /\ pc' = pc
  BY DEF IInv, Counted, HeldIn, RunTypes, leaseVars, runVars
<1> QED BY <1>1 DEF IInv, StackOK

\* A lease operation keeps the count; a cancelled wait is a wait no more.
LEMMA LeaseKeeps ==
    ASSUME EngineConstants, IInv, NEW f \in Fibers, NEW l \in Leases, NEW m \in Leases,
           CopyAssign(f, l, m) \/ MoveAssign(f, l, m) \/ Clear(f, l) \/ Exit(f)
    PROVE  /\ Counted' /\ RunTypes'
           /\ pc' \in CalledByFiber => pc \in CalledByFiber
<1>0. Counted /\ RunTypes
  BY DEF IInv
<1>1. CASE /\ ~lease[l] /\ lease[m] /\ OwnerOf[m] = f /\ OwnerOf[l] = f
           /\ lease' = [lease EXCEPT ![l] = TRUE]
           /\ registered' = registered + 1
           /\ UNCHANGED runVars
  <2>1. /\ lease' \in [Leases -> BOOLEAN]
        /\ Cardinality(HeldIn(lease')) = Cardinality(HeldIn(lease)) + 1
    BY ZenonT(60), <1>0, <1>1, TakeOne DEF Counted
  <2>2. HeldIn(lease)' = HeldIn(lease')
    BY DEF HeldIn
  <2> QED BY <1>0, <1>1, <2>1, <2>2 DEF Counted, RunTypes, runVars
<1>2. CASE \E kept \in [Leases -> BOOLEAN], gone \in Nat :
                /\ gone <= registered
                /\ Cardinality(HeldIn(kept)) = registered - gone
                /\ Deregister(gone, kept)
  <2>1. PICK kept \in [Leases -> BOOLEAN], gone \in Nat :
                /\ gone <= registered
                /\ Cardinality(HeldIn(kept)) = registered - gone
                /\ Deregister(gone, kept)
    BY <1>2
  <2>2. Counted'
    BY <1>0, <2>1, DeregisterCounts
  <2>3. RunTypes' /\ (pc' \in CalledByFiber => pc \in CalledByFiber)
    BY <1>0, <2>1 DEF Deregister, Cancel, RunTypes, runVars, CalledByFiber
  <2> QED BY <2>2, <2>3
<1> QED BY <1>0, <1>1, <1>2, LeaseStep

\* The operations on leases keep the invariant.
LEMMA LeaseOpKeeps ==
    ASSUME EngineConstants, IInv, NEW f \in Fibers, NEW l \in Leases, NEW m \in Leases,
           CopyAssign(f, l, m) \/ MoveAssign(f, l, m) \/ Clear(f, l)
    PROVE  IInv'
<1>1. Counted' /\ RunTypes' /\ (pc' \in CalledByFiber => pc \in CalledByFiber)
  BY LeaseKeeps
<1>2. UNCHANGED <<ctxVars, fiberVars>>
  BY DEF CopyAssign, MoveAssign, Clear
<1>3. CtxTypes' /\ FiberTypes'
  BY <1>2 DEF IInv, CtxTypes, FiberTypes, ctxVars, fiberVars
<1>4. StackOK'
  BY <1>1, <1>2 DEF IInv, StackOK, StackIs, fiberVars
<1> QED BY <1>1, <1>3, <1>4 DEF IInv

\* So does the exit of a fiber.
LEMMA ExitKeeps ==
    ASSUME EngineConstants, IInv, NEW f \in Fibers, Exit(f)
    PROVE  IInv'
<1>1. Runs(f) /\ SuspendOn(f, "exited", None) /\ UNCHANGED ctxVars
  BY DEF Exit
<1>2. FiberTypes' /\ StackIs(stack', at', pc)
  BY <1>1, SuspendKeeps DEF IInv, Kinds
<1>3. CtxTypes'
  BY <1>1 DEF IInv, CtxTypes, ctxVars
<1>4. Counted' /\ RunTypes' /\ (pc' \in CalledByFiber => pc \in CalledByFiber)
  <2>1. CASE Leases = {}
    <3> DEFINE held == {x \in Leases : OwnerOf[x] = f /\ lease[x]}
    <3>1. Deregister(Cardinality(held), [x \in Leases |-> lease[x] /\ x \notin held])
      BY DEF Exit
    <3>2. held = {} /\ Cardinality({}) = 0
      BY <2>1, FS_EmptySet
    <3>3. HeldIn(lease) = {} /\ HeldIn(lease)' = {}
      BY <2>1 DEF HeldIn
    <3>4. registered = 0
      BY <3>2, <3>3 DEF IInv, Counted
    <3>5. lease' \in [Leases -> BOOLEAN] /\ registered' = 0 /\ UNCHANGED runVars
      BY <2>1, <3>1, <3>2, <3>4 DEF Deregister
    <3> QED BY <3>2, <3>3, <3>5 DEF IInv, Counted, RunTypes, runVars
  <2>2. CASE Leases # {}
    <3>1. PICK l \in Leases : TRUE
      BY <2>2
    <3> QED BY <3>1, LeaseKeeps
  <2> QED BY <2>1, <2>2
<1>5. StackOK'
  BY <1>2, <1>4 DEF StackOK, StackIs
<1> QED BY <1>2, <1>3, <1>4, <1>5 DEF IInv

\* And the spawning of one.
LEMMA SpawnKeeps ==
    ASSUME EngineConstants, IInv, NEW g \in Fibers, Spawn(g)
    PROVE  IInv'
<1>1. PICK l \in Leases : /\ OwnerOf[l] = g /\ ~lease[l]
                          /\ lease' = [lease EXCEPT ![l] = TRUE]
                          /\ registered' = registered + 1
  BY Zenon DEF Spawn
<1>2. ResumeOn({g}, stack) /\ at[g] = "unborn" /\ UNCHANGED <<runVars, ctxVars>>
  BY DEF Spawn
<1>3. FiberTypes' /\ StackIs(stack', at', pc)
  BY Zenon, <1>2, ResumeKeeps DEF IInv, FiberTypes, StackOK
<1>4. /\ lease' \in [Leases -> BOOLEAN]
      /\ Cardinality(HeldIn(lease')) = Cardinality(HeldIn(lease)) + 1
  BY ZenonT(60), <1>1, TakeOne DEF IInv, Counted
<1>5. HeldIn(lease)' = HeldIn(lease')
  BY DEF HeldIn
<1>6. Counted'
  BY <1>1, <1>4, <1>5 DEF IInv, Counted
<1>7. RunTypes' /\ CtxTypes' /\ pc' = pc
  BY <1>2 DEF IInv, RunTypes, CtxTypes, runVars, ctxVars
<1> QED BY <1>3, <1>6, <1>7 DEF IInv, StackOK
\* What a fiber does with contexts keeps it.
LEMMA FiberKeeps ==
    ASSUME EngineConstants, IInv, NEW f \in Fibers,
           \/ \E c \in Ctxs : \/ CreateContext(f, c)
                              \/ FiberStops(f, c)
                              \/ \E kind \in {"data", "stop"} : Await(f, kind, c)
           \/ AwaitOther(f)
    PROVE  IInv'
<1>1. ASSUME NEW c \in Ctxs, CreateContext(f, c) PROVE IInv'
  <2>1. CtxTypes' /\ UNCHANGED <<runVars, leaseVars>> /\ Runs(f)
    BY <1>1 DEF IInv, CtxTypes, CreateContext
  <2>2. CASE UNCHANGED fiberVars
    <3>1. FiberTypes' /\ StackIs(stack', at', pc)
      BY <2>2 DEF IInv, FiberTypes, StackOK, fiberVars
    <3> QED BY <2>1, <3>1, FiberOnlyKeeps
  <2>3. CASE SuspendOn(f, "start", c)
    <3>1. FiberTypes' /\ StackIs(stack', at', pc)
      BY <2>1, <2>3, SuspendKeeps DEF IInv, Kinds
    <3> QED BY <2>1, <3>1, FiberOnlyKeeps
  <2> QED BY <1>1, <2>2, <2>3 DEF CreateContext
<1>2. ASSUME NEW c \in Ctxs, FiberStops(f, c) PROVE IInv'
  BY <1>2, StopKeeps DEF FiberStops, Runs
<1>3. ASSUME NEW c \in Ctxs, NEW kind \in {"data", "stop"}, Await(f, kind, c) PROVE IInv'
  <2>1. Runs(f) /\ SuspendOn(f, kind, c) /\ UNCHANGED <<runVars, leaseVars, ctxVars>>
    BY <1>3 DEF Await
  <2>2. FiberTypes' /\ StackIs(stack', at', pc)
    BY <2>1, SuspendKeeps DEF IInv, Kinds
  <2>3. CtxTypes'
    BY <2>1 DEF IInv, CtxTypes, ctxVars
  <2> QED BY <2>1, <2>2, <2>3, FiberOnlyKeeps
<1>4. CASE AwaitOther(f)
  <2>1. Runs(f) /\ SuspendOn(f, "elsewhere", None) /\ UNCHANGED <<runVars, leaseVars, ctxVars>>
    BY <1>4 DEF AwaitOther
  <2>2. FiberTypes' /\ StackIs(stack', at', pc)
    BY <2>1, SuspendKeeps DEF IInv, Kinds
  <2>3. CtxTypes'
    BY <2>1 DEF IInv, CtxTypes, ctxVars
  <2> QED BY <2>1, <2>2, <2>3, FiberOnlyKeeps
<1> QED BY <1>1, <1>2, <1>3, <1>4

\* signal_stopped_child keeps it.
LEMMA SignalKeeps ==
    ASSUME EngineConstants, IInv, NEW c \in Ctxs, SignalStoppedChild(c)
    PROVE  IInv'
<1>1. /\ stack # <<>> /\ Head(stack) = c /\ registry' = registry \ {c}
      /\ ResumeOn(Waiters("stop", c), Tail(stack))
      /\ UNCHANGED <<runVars, leaseVars, ctx, pending>>
  BY DEF SignalStoppedChild, Runs
<1>2. stack \in Seq(Entries) /\ at \in [Fibers -> Kinds]
  BY DEF IInv, FiberTypes
<1>3. StackIs(Tail(stack), at, pc) /\ Tail(stack) \in Seq(Entries)
  BY <1>1, <1>2, PopStack, TailFacts DEF IInv, StackOK
<1>4. Waiters("stop", c) \in SUBSET Fibers /\ \A f \in Waiters("stop", c) : at[f] # "running"
  BY DEF Waiters
<1>5. FiberTypes' /\ StackIs(stack', at', pc)
  BY Zenon, <1>1, <1>3, <1>4, ResumeKeeps DEF IInv
<1>6. CtxTypes'
  BY <1>1 DEF IInv, CtxTypes
<1> QED BY <1>1, <1>5, <1>6, FiberOnlyKeeps

\* The executor, and DOCA.
LEMMA OutsideKeeps ==
    ASSUME EngineConstants, IInv,
           \/ \E f \in Fibers : Wake(f)
           \/ \E c \in Ctxs, kind \in {"state", "data"} : Arrive(c, kind)
    PROVE  IInv'
<1>1. ASSUME NEW f \in Fibers, Wake(f) PROVE IInv'
  <2>1. /\ ResumeOn({f}, stack) /\ at[f] = "elsewhere"
        /\ UNCHANGED <<runVars, leaseVars, ctxVars>>
    BY <1>1 DEF Wake
  <2>2. FiberTypes' /\ StackIs(stack', at', pc)
    BY ZenonT(60), <2>1, ResumeKeeps DEF IInv, FiberTypes, StackOK
  <2>3. CtxTypes'
    BY <2>1 DEF IInv, CtxTypes, ctxVars
  <2> QED BY <2>1, <2>2, <2>3, FiberOnlyKeeps
<1>2. ASSUME NEW c \in Ctxs, NEW kind \in {"state", "data"}, Arrive(c, kind) PROVE IInv'
  <2>1. FiberTypes' /\ StackIs(stack', at', pc) /\ UNCHANGED <<runVars, leaseVars>>
    BY <1>2 DEF IInv, FiberTypes, StackOK, Arrive, fiberVars
  <2>2. CtxTypes'
    BY <1>2 DEF IInv, CtxTypes, Arrive, Events
  <2> QED BY <2>1, <2>2, FiberOnlyKeeps
<1> QED BY <1>1, <1>2

\* doca_pe_progress calls the callback of an event.
LEMMA ProgressKeeps ==
    ASSUME EngineConstants, IInv, NEW c \in Ctxs, NEW kind \in {"state", "data"}, Progress(c, kind)
    PROVE  IInv'
<1>0. /\ stack = <<>> /\ pc \notin CalledByFiber /\ UNCHANGED <<runVars, leaseVars, registry>>
      /\ stack \in Seq(Entries)
  BY DEF Progress, InProgress, CalledByFiber, IInv, FiberTypes
<1>1. CASE /\ ctx' = [ctx EXCEPT ![c] = "running"]
           /\ pending' = pending \ {<<c, kind>>}
           /\ ResumeOn(Waiters("start", c), <<>>)
  <2>1. Waiters("start", c) \in SUBSET Fibers /\ \A f \in Waiters("start", c) : at[f] # "running"
    BY DEF Waiters
  <2>2. FiberTypes' /\ StackIs(stack', at', pc)
    BY ZenonT(60), <1>0, <1>1, <2>1, ResumeKeeps DEF IInv, StackOK
  <2>3. CtxTypes'
    BY <1>0, <1>1 DEF IInv, CtxTypes
  <2> QED BY <1>0, <2>2, <2>3, FiberOnlyKeeps
<1>2. CASE BecomeIdle(c)
  <2>1. /\ FiberTypes' /\ StackIs(stack', at', pc)
        /\ ctx' \in [Ctxs -> {"none", "starting", "running", "stopping", "idle"}]
        /\ pending' \in SUBSET Events
    BY <1>0, <1>2, IdleKeeps DEF IInv
  <2>2. CtxTypes'
    BY <1>0, <2>1 DEF IInv, CtxTypes
  <2> QED BY <1>0, <2>1, <2>2, FiberOnlyKeeps
<1>3. CASE pending' = pending \ {<<c, kind>>} /\ UNCHANGED ctx
  <2>1. CtxTypes'
    BY <1>0, <1>3 DEF IInv, CtxTypes
  <2>2. ASSUME NEW f \in Waiters("data", c), ResumeOn({f}, <<>>)
        PROVE  FiberTypes' /\ StackIs(stack', at', pc)
    <3>1. {f} \in SUBSET Fibers /\ \A g \in {f} : at[g] # "running"
      BY <2>2 DEF Waiters
    <3> QED BY ZenonT(60), <1>0, <2>2, <3>1, ResumeKeeps DEF IInv, StackOK
  <2>3. ASSUME NEW f \in Waiters("data", c), at' = [at EXCEPT ![f] = "elsewhere"],
               on' = [on EXCEPT ![f] = None], stack' = stack
        PROVE  FiberTypes' /\ StackIs(stack', at', pc)
    <3>1. FiberTypes'
      BY ZenonT(60), <2>3 DEF IInv, FiberTypes, Kinds
    <3> QED BY <1>0, <2>3, <3>1 DEF StackIs
  <2>4. ASSUME UNCHANGED fiberVars PROVE FiberTypes' /\ StackIs(stack', at', pc)
    BY <2>4 DEF IInv, FiberTypes, StackOK, fiberVars
  <2>5. CASE kind = "data"
    <3>1. FiberTypes' /\ StackIs(stack', at', pc)
      BY ZenonT(60), <2>2, <2>3, <2>4, <2>5 DEF Progress
    <3> QED BY <1>0, <2>1, <3>1, FiberOnlyKeeps
  <2>6. CASE kind # "data"
    <3>1. \/ /\ ctx' = [ctx EXCEPT ![c] = "running"]
             /\ pending' = pending \ {<<c, kind>>}
             /\ ResumeOn(Waiters("start", c), <<>>)
          \/ BecomeIdle(c)
      BY <2>6 DEF Progress
    <3> QED BY <1>1, <1>2, <3>1
  <2> QED BY <2>5, <2>6
<1> QED BY <1>1, <1>2, <1>3 DEF Progress

\* One case per action.
LEMMA NextIInv ==
    ASSUME EngineConstants, IInv, [Next]_vars
    PROVE  IInv'
<1>0. RunTypes
  BY DEF IInv
<1>1. CASE Check
  <2>1. RunTypes' /\ stack = <<>> /\ UNCHANGED <<leaseVars, ctxVars, fiberVars>>
    BY ZenonT(60), <1>0, <1>1 DEF Check, RunTypes
  <2> QED BY <2>1, RunKeeps
<1>2. CASE Notify
  <2>1. /\ RunTypes' /\ (pc' \in CalledByFiber => pc \in CalledByFiber)
        /\ UNCHANGED <<leaseVars, ctxVars, fiberVars>>
    BY <1>0, <1>2 DEF Notify, RunTypes, CalledByFiber
  <2> QED BY <2>1, RunKeeps
<1>3. CASE Woken
  <2>1. RunTypes' /\ stack = <<>> /\ UNCHANGED <<leaseVars, ctxVars, fiberVars>>
    BY ZenonT(60), <1>0, <1>3 DEF Woken, RunTypes
  <2> QED BY <2>1, RunKeeps
<1>4. CASE ProgressDone
  <2>1. RunTypes' /\ stack = <<>> /\ UNCHANGED <<leaseVars, ctxVars, fiberVars>>
    BY <1>0, <1>4 DEF ProgressDone, InProgress, RunTypes
  <2> QED BY <2>1, RunKeeps
<1>5. CASE StopAllDone
  <2>1. RunTypes' /\ stack = <<>> /\ UNCHANGED <<leaseVars, ctxVars, fiberVars>>
    BY <1>0, <1>5 DEF StopAllDone, RunTypes
  <2> QED BY <2>1, RunKeeps
<1>6. CASE Destroy
  <2>1. RunTypes' /\ stack = <<>> /\ UNCHANGED <<leaseVars, ctxVars, fiberVars>>
    BY Zenon, <1>0, <1>6 DEF Destroy, RunTypes
  <2> QED BY <2>1, RunKeeps
<1>7. ASSUME NEW c \in Ctxs, StopAll(c) PROVE IInv'
  BY <1>7, StopKeeps DEF StopAll, CalledByFiber
<1>8. ASSUME NEW c \in Ctxs, SignalStoppedChild(c) PROVE IInv'
  BY <1>8, SignalKeeps
<1>9. ASSUME NEW c \in Ctxs, NEW kind \in {"state", "data"}, Arrive(c, kind) PROVE IInv'
  BY <1>9, OutsideKeeps
<1>10. ASSUME NEW c \in Ctxs, NEW kind \in {"state", "data"}, Progress(c, kind) PROVE IInv'
  BY <1>10, ProgressKeeps
<1>11. ASSUME NEW f \in Fibers, Spawn(f) PROVE IInv'
  BY <1>11, SpawnKeeps
<1>12. ASSUME NEW f \in Fibers, Wake(f) PROVE IInv'
  BY <1>12, OutsideKeeps
<1>13. ASSUME NEW f \in Fibers, FiberSteps(f) PROVE IInv'
  <2>1. ASSUME NEW l \in Leases, NEW m \in Leases,
               CopyAssign(f, l, m) \/ MoveAssign(f, l, m) \/ Clear(f, l)
        PROVE  IInv'
    BY <2>1, LeaseOpKeeps
  <2>2. CASE Exit(f)
    BY <2>2, ExitKeeps
  <2>3. CASE \/ \E c \in Ctxs : \/ CreateContext(f, c)
                                \/ FiberStops(f, c)
                                \/ \E kind \in {"data", "stop"} : Await(f, kind, c)
             \/ AwaitOther(f)
    BY <2>3, FiberKeeps
  <2> QED BY <1>13, <2>1, <2>2, <2>3 DEF FiberSteps
<1>14. CASE UNCHANGED vars
  <2>1. RunTypes' /\ pc' = pc /\ UNCHANGED <<leaseVars, ctxVars, fiberVars>>
    BY <1>0, <1>14 DEF vars, RunTypes, leaseVars, ctxVars, fiberVars
  <2> QED BY <2>1, RunKeeps
<1>15. CASE RunSteps
  BY <1>1, <1>2, <1>3, <1>4, <1>5, <1>15 DEF RunSteps
<1> QED BY <1>6, <1>7, <1>8, <1>9, <1>10, <1>11, <1>12, <1>13, <1>14, <1>15 DEF Next

\* Before main spawns the first fiber.
LEMMA InitIInv == ASSUME EngineConstants PROVE Init => IInv
<1> SUFFICES ASSUME Init PROVE IInv
  OBVIOUS
<1>1. RunTypes /\ CtxTypes
  BY Zenon DEF Init, RunTypes, CtxTypes
<1>2. FiberTypes
  BY DEF Init, FiberTypes, Kinds
<1>3. StackOK
  BY DEF Init, StackOK, StackIs
<1>4. HeldIn(lease) = {} /\ lease \in [Leases -> BOOLEAN]
  BY DEF Init, HeldIn
<1>5. Counted
  BY ZenonT(60), <1>4, FS_EmptySet DEF Init, Counted
<1> QED BY <1>1, <1>2, <1>3, <1>5 DEF IInv

\* The inductive invariant holds for any fibers, leases and contexts.
THEOREM Invariant == Spec => []IInv
<1>1. Init => IInv
  BY InitIInv, EngineConstants
<1>2. IInv /\ [Next]_vars => IInv'
  BY NextIInv, EngineConstants
<1> QED BY <1>1, <1>2, PTL DEF Spec

\* Run loop, leases, contexts and call stack keep their types; no null coroutine
\* is resumed.
THEOREM TypeCorrect == Spec => []TypeOK
BY Invariant, IInvImplies, PTL

\* registered_fibers_ is the number of leases held, whatever is constructed,
\* copied, moved, cleared or destroyed, and in whatever order.
THEOREM LeaseCount == Spec => []LeasesCounted
BY Invariant, IInvImplies, PTL
-----------------------------------------------------------------------------
(* run() does not sleep without a cause *)

Dead == {"unborn", "exited"}

\* A fiber between its first step and its exit holds a lease.
Alive == \A f \in Fibers : at[f] \notin Dead => Holds(f)

\* A running fiber is alive.
LEMMA HeadRuns ==
    ASSUME IInv, NEW f \in Fibers, Runs(f)
    PROVE  at[f] = "running"
<1>1. stack \in Seq(Entries) /\ stack # <<>> /\ Head(stack) = f
  BY DEF IInv, FiberTypes, Runs
<1>2. 1 \in DOMAIN stack /\ stack[1] = f
  BY <1>1, TailFacts
<1> QED BY <1>2 DEF IInv, StackOK, StackIs

\* The configuration does not change.
LEMMA CfgFixed ==
    ASSUME [Next]_vars
    PROVE  cfg' = cfg
<1>1. \A gone, kept : Deregister(gone, kept) => cfg' = cfg
  BY DEF Deregister, Cancel, runVars
<1>2. CASE RunSteps \/ Destroy \/ UNCHANGED vars
  BY <1>2 DEF RunSteps, Check, Notify, Woken, ProgressDone, StopAllDone, Destroy, vars
<1>3. ASSUME NEW c \in Ctxs,
             \/ StopAll(c) \/ SignalStoppedChild(c)
             \/ \E kind \in {"state", "data"} : Arrive(c, kind) \/ Progress(c, kind)
      PROVE  cfg' = cfg
  BY ZenonT(60), <1>3 DEF StopAll, SignalStoppedChild, Arrive, Progress, runVars
<1>4. ASSUME NEW f \in Fibers,
             \/ Spawn(f) \/ Wake(f) \/ AwaitOther(f) \/ Exit(f)
             \/ \E c \in Ctxs : \/ CreateContext(f, c) \/ FiberStops(f, c)
                              \/ \E kind \in {"data", "stop"} : Await(f, kind, c)
      PROVE  cfg' = cfg
  BY ZenonT(60), <1>1, <1>4 DEF Spawn, Wake, AwaitOther, Exit, CreateContext, FiberStops, Await, runVars
<1>5. ASSUME NEW f \in Fibers, NEW l \in Leases, NEW m \in Leases,
             CopyAssign(f, l, m) \/ MoveAssign(f, l, m) \/ Clear(f, l)
      PROVE  cfg' = cfg
  BY <1>1, <1>5 DEF CopyAssign, MoveAssign, Clear, runVars
<1> QED BY <1>2, <1>3, <1>4, <1>5 DEF Next, FiberSteps

\* Fibers that are resumed, or that suspend, were alive before.
LEMMA SameLeasesAlive ==
    ASSUME Alive, lease' = lease, \A f \in Fibers : at'[f] \notin Dead => at[f] \notin Dead
    PROVE  Alive'
BY DEF Alive, Holds

\* A resumption wakes fibers that wait.
LEMMA ResumeAlive ==
    ASSUME NEW woken \in SUBSET Fibers, NEW below, ResumeOn(woken, below),
           \A f \in woken : at[f] \notin Dead
    PROVE  \A f \in Fibers : at'[f] \notin Dead => at[f] \notin Dead
BY DEF ResumeOn

\* A running fiber suspends.
LEMMA SuspendAlive ==
    ASSUME IInv, NEW f \in Fibers, Runs(f), NEW kind, NEW c, SuspendOn(f, kind, c)
    PROVE  \A g \in Fibers : at'[g] \notin Dead => at[g] \notin Dead
<1>1. at[f] \notin Dead
  BY HeadRuns DEF Dead
<1>2. \A g \in Fibers : g # f => at'[g] = at[g]
  BY DEF SuspendOn, IInv, FiberTypes
<1> QED BY <1>1, <1>2

\* A stop wakes those who wait for data.
LEMMA StopAlive ==
    ASSUME IInv, NEW c \in Ctxs, StopContext(c) \/ BecomeIdle(c)
    PROVE  \A f \in Fibers : at'[f] \notin Dead => at[f] \notin Dead
<1>1. CASE UNCHANGED fiberVars
  BY <1>1 DEF fiberVars
<1>2. CASE BecomeIdle(c)
  <2>1. /\ Waiters("data", c) \in SUBSET Fibers
        /\ \A f \in Waiters("data", c) : at[f] \notin Dead
    BY DEF Waiters, Dead
  <2> QED BY <1>2, <2>1, ResumeAlive DEF BecomeIdle
<1> QED BY <1>1, <1>2 DEF StopContext

\* Lease operations of f leave the other fibers' leases alone, and f with one.
LEMMA LeaseOpAlive ==
    ASSUME EngineConstants, ~LeaseFirst, IInv, Alive, NEW f \in Fibers,
           NEW l \in Leases, NEW m \in Leases,
           CopyAssign(f, l, m) \/ MoveAssign(f, l, m) \/ Clear(f, l)
    PROVE  Alive'
<1>1. at' = at
  BY DEF CopyAssign, MoveAssign, Clear, fiberVars
<1>2. \E x \in Leases : OwnerOf[x] = f /\ lease'[x]
  BY Zenon DEF CopyAssign, MoveAssign, Clear, KeepsLease, Deregister
<1>3. \A x \in Leases : OwnerOf[x] # f => lease'[x] = lease[x]
  BY ZenonT(60) DEF CopyAssign, MoveAssign, Clear, Deregister, IInv, Counted
<1> QED BY <1>1, <1>2, <1>3 DEF Alive, Holds

\* Every step keeps a lease with every living fiber.
LEMMA NextAlive ==
    ASSUME EngineConstants, ~LeaseFirst, IInv, Alive, [Next]_vars
    PROVE  Alive'
<1>1. CASE RunSteps \/ Destroy \/ UNCHANGED vars
  <2>1. lease' = lease /\ at' = at
    BY <1>1 DEF RunSteps, Check, Notify, Woken, ProgressDone, StopAllDone, Destroy, vars,
                leaseVars, fiberVars
  <2> QED BY <2>1, SameLeasesAlive
<1>2. ASSUME NEW c \in Ctxs, StopAll(c) PROVE Alive'
  BY <1>2, StopAlive, SameLeasesAlive DEF StopAll, leaseVars
<1>3. ASSUME NEW c \in Ctxs, SignalStoppedChild(c) PROVE Alive'
  <2>1. /\ Waiters("stop", c) \in SUBSET Fibers
        /\ \A f \in Waiters("stop", c) : at[f] \notin Dead
    BY DEF Waiters, Dead
  <2>2. \A f \in Fibers : at'[f] \notin Dead => at[f] \notin Dead
    BY <1>3, <2>1, ResumeAlive DEF SignalStoppedChild
  <2> QED BY <1>3, <2>2, SameLeasesAlive DEF SignalStoppedChild, leaseVars
<1>4. ASSUME NEW c \in Ctxs, NEW kind \in {"state", "data"}, Arrive(c, kind) PROVE Alive'
  BY <1>4, SameLeasesAlive DEF Arrive, leaseVars, fiberVars
<1>5. ASSUME NEW c \in Ctxs, NEW kind \in {"state", "data"}, Progress(c, kind) PROVE Alive'
  <2>1. lease' = lease
    BY <1>5 DEF Progress, leaseVars
  <2>2. CASE BecomeIdle(c)
    BY <2>1, <2>2, StopAlive, SameLeasesAlive
  <2>3. CASE ResumeOn(Waiters("start", c), <<>>)
    <3>1. /\ Waiters("start", c) \in SUBSET Fibers
          /\ \A f \in Waiters("start", c) : at[f] \notin Dead
      BY DEF Waiters, Dead
    <3>2. \A f \in Fibers : at'[f] \notin Dead => at[f] \notin Dead
      BY <2>3, <3>1, ResumeAlive
    <3> QED BY <2>1, <3>2, SameLeasesAlive
  <2>4. ASSUME NEW f \in Waiters("data", c), ResumeOn({f}, <<>>) PROVE Alive'
    <3>1. {f} \in SUBSET Fibers /\ \A g \in {f} : at[g] \notin Dead
      BY <2>4 DEF Waiters, Dead
    <3>2. \A g \in Fibers : at'[g] \notin Dead => at[g] \notin Dead
      BY <2>4, <3>1, ResumeAlive
    <3> QED BY <2>1, <3>2, SameLeasesAlive
  <2>5. ASSUME NEW f \in Waiters("data", c), at' = [at EXCEPT ![f] = "elsewhere"] PROVE Alive'
    <3>1. f \in Fibers /\ at[f] \notin Dead
      BY <2>5 DEF Waiters, Dead
    <3>2. \A g \in Fibers : at'[g] \notin Dead => at[g] \notin Dead
      BY <2>5, <3>1 DEF IInv, FiberTypes
    <3> QED BY <2>1, <3>2, SameLeasesAlive
  <2>6. CASE UNCHANGED fiberVars
    BY <2>1, <2>6, SameLeasesAlive DEF fiberVars
  <2> QED BY ZenonT(60), <1>5, <2>2, <2>3, <2>4, <2>5, <2>6 DEF Progress
<1>6. ASSUME NEW g \in Fibers, Spawn(g) PROVE Alive'
  <2>1. PICK l \in Leases : OwnerOf[l] = g /\ lease' = [lease EXCEPT ![l] = TRUE]
    BY ZenonT(60), <1>6 DEF Spawn
  <2>2. \A f \in Fibers : f # g => at'[f] = at[f]
    BY <1>6 DEF Spawn, ResumeOn
  <2>3. lease'[l] /\ \A x \in Leases : lease[x] => lease'[x]
    BY <2>1 DEF IInv, Counted
  <2> QED BY <2>1, <2>2, <2>3 DEF Alive, Holds
<1>7. ASSUME NEW f \in Fibers, Wake(f) PROVE Alive'
  <2>1. {f} \in SUBSET Fibers /\ \A g \in {f} : at[g] \notin Dead
    BY <1>7 DEF Wake, Dead
  <2>2. \A g \in Fibers : at'[g] \notin Dead => at[g] \notin Dead
    BY <1>7, <2>1, ResumeAlive DEF Wake
  <2> QED BY <1>7, <2>2, SameLeasesAlive DEF Wake, leaseVars
<1>8. ASSUME NEW f \in Fibers, FiberSteps(f) PROVE Alive'
  <2>1. ASSUME NEW l \in Leases, NEW m \in Leases,
               CopyAssign(f, l, m) \/ MoveAssign(f, l, m) \/ Clear(f, l)
        PROVE  Alive'
    BY <2>1, LeaseOpAlive
  <2>2. ASSUME NEW c \in Ctxs, CreateContext(f, c) PROVE Alive'
    <3>1. CASE UNCHANGED fiberVars
      BY <2>2, <3>1, SameLeasesAlive DEF CreateContext, leaseVars, fiberVars
    <3>2. CASE SuspendOn(f, "start", c)
      BY <2>2, <3>2, SuspendAlive, SameLeasesAlive DEF CreateContext, leaseVars
    <3> QED BY <2>2, <3>1, <3>2 DEF CreateContext
  <2>3. ASSUME NEW c \in Ctxs, FiberStops(f, c) PROVE Alive'
    BY <2>3, StopAlive, SameLeasesAlive DEF FiberStops, leaseVars
  <2>4. ASSUME NEW c \in Ctxs, NEW kind \in {"data", "stop"}, Await(f, kind, c) PROVE Alive'
    BY <2>4, SuspendAlive, SameLeasesAlive DEF Await, leaseVars
  <2>5. CASE AwaitOther(f)
    BY <2>5, SuspendAlive, SameLeasesAlive DEF AwaitOther, leaseVars
  <2>6. CASE Exit(f)
    <3>1. at'[f] = "exited" /\ \A g \in Fibers : g # f => at'[g] = at[g]
      BY <2>6 DEF Exit, SuspendOn, IInv, FiberTypes
    <3>2. \A x \in Leases : OwnerOf[x] # f /\ lease[x] => lease'[x]
      BY ZenonT(60), <2>6 DEF Exit, Deregister
    <3> QED BY <3>1, <3>2 DEF Alive, Holds, Dead
  <2> QED BY <1>8, <2>1, <2>2, <2>3, <2>4, <2>5, <2>6 DEF FiberSteps
<1> QED BY <1>1, <1>2, <1>3, <1>4, <1>5, <1>6, <1>7, <1>8 DEF Next

\* A held lease is counted.
LEMMA HoldsCounts ==
    ASSUME EngineConstants, Counted, NEW f \in Fibers, Holds(f)
    PROVE  registered > 0
<1>1. registered # 0
  BY HeldFacts DEF Counted, Holds
<1> QED BY <1>1 DEF Counted

\* deregister_fiber wakes run() when the last lease goes and there is no context.
LEMMA DeregisterSleep ==
    ASSUME Counted, Wakeable, NEW gone \in Nat, NEW kept, Deregister(gone, kept),
           registry' = registry
    PROVE  Wakeable'
<1>1. CASE gone > 0 /\ registered' = 0 /\ registry = {}
  BY <1>1 DEF Deregister, Cancel, Wakeable, runVars
<1>2. CASE gone = 0
  BY <1>2 DEF Deregister, Wakeable, runVars, Counted, Cancel
<1>3. CASE gone > 0 /\ ~(registered' = 0 /\ registry = {})
  <2>1. registered' \in Nat
    BY DEF Deregister, Counted
  <2> QED BY <1>3, <2>1 DEF Wakeable
<1> QED BY <1>1, <1>2, <1>3

\* Other steps: as many leases and as many contexts, or more.
LEMMA NotFewerSleep ==
    ASSUME Counted, Wakeable, registered' \in Nat, registered' >= registered,
           registry \subseteq registry', pc' = pc
    PROVE  Wakeable'
BY DEF Wakeable, Counted

\* Below a callback that runs while run() sleeps there is a fiber, which holds a
\* lease.
LEMMA SignalSleep ==
    ASSUME EngineConstants, IInv, Alive, Wakeable, NEW c \in Ctxs, SignalStoppedChild(c)
    PROVE  Wakeable'
<1> SUFFICES ASSUME pc = "waiting" PROVE registered > 0
  BY DEF SignalStoppedChild, Wakeable, runVars, leaseVars
<1>1. stack # <<>> /\ stack \in Seq(Entries)
  BY DEF SignalStoppedChild, Runs, IInv, FiberTypes
<1>2. stack[Len(stack)] \in Fibers
  BY <1>1 DEF IInv, StackOK, StackIs, CalledByFiber
<1>3. Len(stack) \in DOMAIN stack
  BY <1>1, TailFacts
<1>4. at[stack[Len(stack)]] = "running"
  BY <1>2, <1>3 DEF IInv, StackOK, StackIs
<1>5. Holds(stack[Len(stack)])
  BY <1>2, <1>4 DEF Alive, Dead
<1> QED BY <1>2, <1>5, HoldsCounts DEF IInv

\* The cause for which run() sleeps outlasts every step that does not wake it.
LEMMA NextSleep ==
    ASSUME EngineConstants, ~LeaseFirst, IInv, Alive, Wakeable, [Next]_vars
    PROVE  Wakeable'
<1>c. Counted
  BY DEF IInv
<1>1. CASE RunSteps \/ Destroy \/ UNCHANGED vars
  <2>1. registered' = registered /\ registry' = registry
    BY <1>1 DEF RunSteps, Check, Notify, Woken, ProgressDone, StopAllDone, Destroy, vars,
                leaseVars, ctxVars
  <2>2. pc' = "waiting" => pc = "waiting" \/ Check
    BY <1>1 DEF RunSteps, Notify, Woken, ProgressDone, StopAllDone, Destroy, vars
  <2>3. Check /\ pc' = "waiting" => registered > 0 \/ registry # {}
    BY DEF Check
  <2> QED BY <2>1, <2>2, <2>3 DEF Wakeable
<1>2. ASSUME NEW c \in Ctxs, SignalStoppedChild(c) PROVE Wakeable'
  BY <1>2, SignalSleep
<1>3. ASSUME NEW c \in Ctxs,
             StopAll(c) \/ \E kind \in {"state", "data"} : Arrive(c, kind) \/ Progress(c, kind)
      PROVE  Wakeable'
  <2>1. registered' = registered /\ registry' = registry /\ pc' = pc
    BY <1>3 DEF StopAll, StopContext, Arrive, Progress, leaseVars, runVars
  <2> QED BY <2>1 DEF Wakeable
<1>4. ASSUME NEW f \in Fibers, Spawn(f) PROVE Wakeable'
  <2>1. registered' = registered + 1 /\ registry' = registry /\ pc' = pc
    BY <1>4 DEF Spawn, runVars, ctxVars
  <2> QED BY <1>c, <2>1, NotFewerSleep DEF Counted
<1>5. ASSUME NEW f \in Fibers,
             \/ Wake(f) \/ AwaitOther(f)
             \/ \E c \in Ctxs : \/ CreateContext(f, c) \/ FiberStops(f, c)
                              \/ \E kind \in {"data", "stop"} : Await(f, kind, c)
      PROVE  Wakeable'
  <2>1. registered' = registered /\ pc' = pc /\ registry \subseteq registry'
    BY ZenonT(60), <1>5 DEF Wake, CreateContext, FiberStops, StopContext, Await, AwaitOther, runVars,
                leaseVars, ctxVars
  <2> QED BY <1>c, <2>1, NotFewerSleep DEF Counted
<1>6. ASSUME NEW f \in Fibers, NEW l \in Leases, NEW m \in Leases, CopyAssign(f, l, m)
      PROVE  Wakeable'
  <2>1. registry' = registry
    BY <1>6 DEF CopyAssign, ctxVars
  <2>2. CASE lease[m]
    <3>1. registered' = registered + 1 /\ pc' = pc
      BY <1>6, <2>2 DEF CopyAssign, runVars
    <3> QED BY <1>c, <2>1, <3>1, NotFewerSleep DEF Counted
  <2>3. CASE ~lease[m]
    <3>1. \E kept : Deregister(1, kept)
      BY <1>6, <2>3 DEF CopyAssign
    <3> QED BY <1>c, <2>1, <3>1, DeregisterSleep
  <2> QED BY <2>2, <2>3
<1>7. ASSUME NEW f \in Fibers, NEW l \in Leases, NEW m \in Leases, MoveAssign(f, l, m)
      PROVE  Wakeable'
  <2>1. registry' = registry
    BY <1>7 DEF MoveAssign, ctxVars
  <2>2. \E gone \in {0, 1} : \E kept : Deregister(gone, kept)
    BY <1>7 DEF MoveAssign
  <2> QED BY <1>c, <2>1, <2>2, DeregisterSleep
<1>8. ASSUME NEW f \in Fibers, NEW l \in Leases, Clear(f, l) PROVE Wakeable'
  <2>1. registry' = registry /\ \E kept : Deregister(1, kept)
    BY <1>8 DEF Clear, ctxVars
  <2> QED BY <1>c, <2>1, DeregisterSleep
<1>9. ASSUME NEW f \in Fibers, Exit(f) PROVE Wakeable'
  <2> DEFINE held == {l \in Leases : OwnerOf[l] = f /\ lease[l]}
  <2>1. Cardinality(held) \in Nat
    BY FS_Subset, FS_CardinalityType DEF EngineConstants
  <2>2. registry' = registry /\ \E kept : Deregister(Cardinality(held), kept)
    BY Zenon, <1>9 DEF Exit, ctxVars
  <2> HIDE DEF held
  <2> QED BY <1>c, <2>1, <2>2, DeregisterSleep
<1> QED BY <1>1, <1>2, <1>3, <1>4, <1>5, <1>6, <1>7, <1>8, <1>9 DEF Next, FiberSteps

\* As long as fibers keep a lease until they exit, run() never sleeps with
\* neither a lease nor a context left: deregister_fiber cancels the wait when
\* the last lease goes after the last context, and a context goes after the last
\* lease only from within run() itself.
THEOREM NoSleepWithoutCause == Spec => []SleepJustified
<1> DEFINE J == IInv /\ (~LeaseFirst => Alive /\ Wakeable)
<1>1. Init => J
  BY Zenon, InitIInv, EngineConstants DEF Init, Alive, Dead, Wakeable
<1>2. ASSUME J, [Next]_vars PROVE J'
  <2>1. IInv'
    BY <1>2, NextIInv, EngineConstants
  <2>2. ASSUME ~LeaseFirst' PROVE Alive' /\ Wakeable'
    <3>1. ~LeaseFirst
      BY <1>2, <2>2, CfgFixed DEF LeaseFirst
    <3> QED BY <1>2, <3>1, NextAlive, NextSleep, EngineConstants
  <2> QED BY <2>1, <2>2
<1>3. J => SleepJustified
  BY DEF SleepJustified
<1> HIDE DEF J
<1> QED BY <1>1, <1>2, <1>3, PTL DEF Spec

-----------------------------------------------------------------------------
(* run() ends neither early nor twice *)

\* What the error code of the last wait says: a wait was cancelled only when the
\* last lease and the last context were gone, and none came since.
WaitCodes ==
    /\ ec # "failed"
    /\ pc \in {"unstarted", "waiting", "yielding"} => ec = "ok"
    /\ pc \in {"woken", "progress"} => ec \in {"ok", "aborted"}
    /\ pc \in {"stop_all", "drain"} => ec \in {"aborted", "dying"}
    /\ ec = "aborted" /\ pc \notin {"ended", "destroyed"} => registered = 0 /\ registry = {}

\* Steps that leave run() where it is.
LEMMA NoNewcomers ==
    ASSUME WaitCodes, pc' = pc, ec' = ec,
           ec = "aborted" /\ pc \notin {"ended", "destroyed"} => registered' = 0 /\ registry' = {}
    PROVE  WaitCodes'
BY DEF WaitCodes

\* Giving up leases keeps it.
LEMMA DeregisterCodes ==
    ASSUME Counted, WaitCodes, NEW gone \in Nat, NEW kept, Deregister(gone, kept),
           registry' = registry
    PROVE  WaitCodes'
<1>1. registered = 0 => registered' = 0
  BY DEF Deregister, Counted
<1>2. CASE gone > 0 /\ registered' = 0 /\ registry = {} /\ pc = "waiting"
  BY <1>2 DEF Deregister, Cancel, WaitCodes
<1>3. CASE ~(gone > 0 /\ registered' = 0 /\ registry = {} /\ pc = "waiting")
  <2>1. pc' = pc /\ ec' = ec
    BY <1>3 DEF Deregister, Cancel, runVars
  <2> QED BY <1>1, <2>1, NoNewcomers DEF WaitCodes
<1> QED BY <1>2, <1>3

\* Copies need a lease, and so do contexts: neither can appear once the last
\* lease is gone.
LEMMA NextCodes ==
    ASSUME EngineConstants, ~LateSpawn, ~WaitMayFail, IInv, WaitCodes, [Next]_vars
    PROVE  WaitCodes'
<1>c. Counted
  BY DEF IInv
<1>1. CASE RunSteps \/ Destroy \/ UNCHANGED vars
  <2>1. registered' = registered /\ registry' = registry
    BY <1>1 DEF RunSteps, Check, Notify, Woken, ProgressDone, StopAllDone, Destroy, vars,
                leaseVars, ctxVars
  <2>2. CASE Check \/ Notify \/ Woken \/ StopAllDone
    BY <2>1, <2>2 DEF Check, Notify, Woken, StopAllDone, WaitCodes
  <2>3. CASE ProgressDone
    <3>1. ec' = ec /\ pc \in {"progress", "drain"}
      BY <2>3 DEF ProgressDone, InProgress
    <3>2. CASE pc = "drain"
      BY <2>1, <2>3, <3>1, <3>2 DEF ProgressDone, WaitCodes
    <3>3. CASE pc = "progress"
      BY <2>1, <2>3, <3>1, <3>3 DEF ProgressDone, WaitCodes
    <3> QED BY <3>1, <3>2, <3>3
  <2>4. CASE Destroy
    <3>1. CASE registry = {}
      <4>1. ec' = ec /\ pc' = "destroyed"
        BY <2>4, <3>1 DEF Destroy
      <4> QED BY <2>1, <3>1, <4>1 DEF WaitCodes
    <3>2. CASE registry # {}
      BY <2>4, <3>2 DEF Destroy, WaitCodes
    <3> QED BY <3>1, <3>2
  <2>5. CASE UNCHANGED vars
    BY <2>5, NoNewcomers DEF vars, WaitCodes
  <2> QED BY <1>1, <2>2, <2>3, <2>4, <2>5 DEF RunSteps
<1>2. ASSUME NEW c \in Ctxs,
             \/ StopAll(c) \/ SignalStoppedChild(c)
             \/ \E kind \in {"state", "data"} : Arrive(c, kind) \/ Progress(c, kind)
      PROVE  WaitCodes'
  <2>1. registered' = registered /\ registry' \subseteq registry /\ pc' = pc /\ ec' = ec
    BY ZenonT(60), <1>2 DEF StopAll, SignalStoppedChild, StopContext, Arrive, Progress, leaseVars, runVars
  <2> QED BY <2>1, NoNewcomers DEF WaitCodes
<1>3. ASSUME NEW f \in Fibers, Spawn(f) PROVE WaitCodes'
  <2>1. pc' = pc /\ ec' = ec /\ registry' = registry
    BY <1>3 DEF Spawn, runVars, ctxVars
  <2>2. pc = "unstarted" \/ registered > 0
    BY <1>3, <1>c, HoldsCounts DEF Spawn
  <2> QED BY <2>1, <2>2, NoNewcomers DEF WaitCodes
<1>4. ASSUME NEW f \in Fibers,
             \/ Wake(f) \/ AwaitOther(f)
             \/ \E c \in Ctxs : \/ FiberStops(f, c)
                              \/ \E kind \in {"data", "stop"} : Await(f, kind, c)
      PROVE  WaitCodes'
  <2>1. registered' = registered /\ registry' = registry /\ pc' = pc /\ ec' = ec
    BY <1>4 DEF Wake, FiberStops, StopContext, Await, AwaitOther, runVars, leaseVars, ctxVars
  <2> QED BY <2>1, NoNewcomers DEF WaitCodes
<1>5. ASSUME NEW f \in Fibers, NEW c \in Ctxs, CreateContext(f, c) PROVE WaitCodes'
  <2>1. pc' = pc /\ ec' = ec /\ registered > 0
    BY <1>5, <1>c, HoldsCounts DEF CreateContext, runVars
  <2> QED BY <2>1, NoNewcomers DEF WaitCodes
<1>6. ASSUME NEW f \in Fibers, NEW l \in Leases, NEW m \in Leases, CopyAssign(f, l, m)
      PROVE  WaitCodes'
  <2>1. registry' = registry
    BY <1>6 DEF CopyAssign, ctxVars
  <2>2. CASE lease[m]
    <3>1. pc' = pc /\ ec' = ec /\ Holds(f)
      BY <1>6, <2>2 DEF CopyAssign, runVars, Holds
    <3>2. registered > 0
      BY <1>c, <3>1, HoldsCounts
    <3> QED BY <3>1, <3>2, NoNewcomers DEF WaitCodes
  <2>3. CASE ~lease[m]
    <3>1. \E kept : Deregister(1, kept)
      BY <1>6, <2>3 DEF CopyAssign
    <3> QED BY <1>c, <2>1, <3>1, DeregisterCodes
  <2> QED BY <2>2, <2>3
<1>7. ASSUME NEW f \in Fibers, NEW l \in Leases, NEW m \in Leases, MoveAssign(f, l, m)
      PROVE  WaitCodes'
  <2>1. registry' = registry /\ \E gone \in {0, 1} : \E kept : Deregister(gone, kept)
    BY <1>7 DEF MoveAssign, ctxVars
  <2> QED BY <1>c, <2>1, DeregisterCodes
<1>8. ASSUME NEW f \in Fibers, NEW l \in Leases, Clear(f, l) PROVE WaitCodes'
  <2>1. registry' = registry /\ \E kept : Deregister(1, kept)
    BY <1>8 DEF Clear, ctxVars
  <2> QED BY <1>c, <2>1, DeregisterCodes
<1>9. ASSUME NEW f \in Fibers, Exit(f) PROVE WaitCodes'
  <2> DEFINE held == {l \in Leases : OwnerOf[l] = f /\ lease[l]}
  <2>1. Cardinality(held) \in Nat
    BY FS_Subset, FS_CardinalityType DEF EngineConstants
  <2>2. registry' = registry /\ \E kept : Deregister(Cardinality(held), kept)
    BY ZenonT(60), <1>9 DEF Exit, ctxVars
  <2> HIDE DEF held
  <2> QED BY <1>c, <2>1, <2>2, DeregisterCodes
<1> QED BY <1>1, <1>2, <1>3, <1>4, <1>5, <1>6, <1>7, <1>8, <1>9 DEF Next, FiberSteps

\* The steps on which run() can return: the loop's condition, and the end of the
\* drain after a cancelled wait.
LEMMA EndJustified ==
    ASSUME EngineConstants, IInv, WaitCodes, [Next]_vars, pc # "ended", pc' = "ended"
    PROVE  registered = 0 /\ registry = {}
<1>1. CASE Check \/ ProgressDone
  <2>1. CASE Check
    BY <2>1 DEF Check, IInv, Counted
  <2>2. CASE ProgressDone
    <3>1. CASE pc = "drain"
      BY <2>2, <3>1 DEF ProgressDone, WaitCodes
    <3>2. CASE pc = "progress"
      BY <2>2, <3>2 DEF ProgressDone, WaitCodes
    <3> QED BY <2>2, <3>1, <3>2 DEF ProgressDone, InProgress
  <2> QED BY <1>1, <2>1, <2>2
<1>2. ~(Notify \/ Woken \/ StopAllDone \/ Destroy \/ UNCHANGED vars)
  BY DEF Notify, Woken, StopAllDone, Destroy, vars
<1>3. \A gone, kept : ~Deregister(gone, kept)
  BY DEF Deregister, Cancel, runVars
<1>4. \A c \in Ctxs : /\ ~StopAll(c) /\ ~SignalStoppedChild(c)
                      /\ \A kind \in {"state", "data"} : ~Arrive(c, kind) /\ ~Progress(c, kind)
  BY DEF StopAll, SignalStoppedChild, Arrive, Progress, runVars
<1>5. \A f \in Fibers :
        /\ ~Spawn(f) /\ ~Wake(f) /\ ~AwaitOther(f) /\ ~Exit(f)
        /\ \A c \in Ctxs : /\ ~CreateContext(f, c) /\ ~FiberStops(f, c)
                           /\ \A kind \in {"data", "stop"} : ~Await(f, kind, c)
  BY ZenonT(60), <1>3 DEF Spawn, Wake, AwaitOther, Exit, CreateContext, FiberStops, Await, runVars
<1>6. \A f \in Fibers : \A l, m \in Leases :
        ~CopyAssign(f, l, m) /\ ~MoveAssign(f, l, m) /\ ~Clear(f, l)
  BY <1>3 DEF CopyAssign, MoveAssign, Clear, runVars
<1> QED BY <1>1, <1>2, <1>4, <1>5, <1>6 DEF Next, RunSteps, FiberSteps

\* When client fibers are only spawned by holders of a lease or before run(),
\* and waiting for the event handle does not fail, run() returns only when the
\* last lease and the last context are gone.
THEOREM RunNotEndedEarly == Spec => RunsAsLongAsNeeded
<1> DEFINE J == IInv /\ (~LateSpawn /\ ~WaitMayFail => WaitCodes)
           A == ~LateSpawn /\ ~WaitMayFail /\ pc # "ended" /\ pc' = "ended"
                  => registered = 0 /\ registry = {}
<1>1. Init => J
  BY Zenon, InitIInv, EngineConstants DEF Init, WaitCodes
<1>2. ASSUME J, [Next]_vars PROVE J'
  <2>1. IInv'
    BY <1>2, NextIInv, EngineConstants
  <2>2. ASSUME ~LateSpawn', ~WaitMayFail' PROVE WaitCodes'
    <3>1. ~LateSpawn /\ ~WaitMayFail
      BY <1>2, <2>2, CfgFixed DEF LateSpawn, WaitMayFail
    <3> QED BY <1>2, <3>1, NextCodes, EngineConstants
  <2> QED BY <2>1, <2>2
<1>3. J /\ [Next]_vars => [A]_vars
  BY EndJustified, EngineConstants
<1> HIDE DEF J
<1> QED BY <1>1, <1>2, <1>3, PTL DEF Spec, RunsAsLongAsNeeded
=============================================================================
