--------------------------- MODULE BuffersProofs ---------------------------
(***************************************************************************)
(* The reference counts of Buffers are exact for any objects and elements. *)
(*                                                                         *)
(* The argument follows the C++ objects that come and go inside one        *)
(* expression.  Balanced says that every count is made up of the objects   *)
(* that hold the element and of temporaries; each counting step, and each  *)
(* handing over of a reference between an object and a temporary, keeps    *)
(* the balance, and every action is a sequence of such steps that begins   *)
(* and ends without temporaries.                                           *)
(***************************************************************************)
EXTENDS Buffers, FiniteSetTheorems, TLAPS

HoldersIn(h, e) == {o \in Objects : h[o] = e}

FreeIn(st) == {e \in Elements : st.refs[e] = 0}

\* t counts the temporaries that hold each element.
Balanced(h, st, t) ==
    /\ h \in [Objects -> Elements \cup {None}]
    /\ st \in [refs : [Elements -> Nat], free : Nat]
    /\ t \in [Elements -> Nat]
    /\ \A e \in Elements : st.refs[e] = Cardinality(HoldersIn(h, e)) + t[e]
    /\ st.free = Cardinality(FreeIn(st))

NoTemp == [e \in Elements |-> 0]

Plus(t, e) == IF e = None THEN t ELSE [t EXCEPT ![e] = @ + 1]

Minus(t, e) == IF e = None THEN t ELSE [t EXCEPT ![e] = @ - 1]

-----------------------------------------------------------------------------
(* Facts about the counts *)

\* Holders are finitely many, and so are free elements.
LEMMA CountsFinite ==
    ASSUME NEW h, NEW e, NEW st
    PROVE  /\ IsFiniteSet(HoldersIn(h, e)) /\ Cardinality(HoldersIn(h, e)) \in Nat
           /\ IsFiniteSet(FreeIn(st)) /\ Cardinality(FreeIn(st)) \in Nat
<1>1. IsFiniteSet(HoldersIn(h, e)) /\ IsFiniteSet(FreeIn(st))
  BY BuffersConstants, FS_Subset DEF HoldersIn, FreeIn
<1> QED BY <1>1, FS_CardinalityType

\* Counting up and down again.
LEMMA UpAndDown ==
    ASSUME NEW t \in [Elements -> Nat], NEW a \in Elements
    PROVE  [[t EXCEPT ![a] = @ + 1] EXCEPT ![a] = @ - 1] = t
<1> DEFINE u == [[t EXCEPT ![a] = @ + 1] EXCEPT ![a] = @ - 1]
<1>1. \A x \in Elements : u[x] = t[x]
  OBVIOUS
<1>2. u = [x \in Elements |-> u[x]] /\ t = [x \in Elements |-> t[x]]
  OBVIOUS
<1> HIDE DEF u
<1>3. u = t
  BY <1>1, <1>2
<1> QED BY <1>3 DEF u

\* A temporary more and a temporary less.
LEMMA Temporaries ==
    ASSUME NEW t \in [Elements -> Nat], NEW a \in Elements \cup {None},
           NEW b \in Elements \cup {None}
    PROVE  /\ Plus(t, a) \in [Elements -> Nat]
           /\ Minus(Plus(t, a), a) = t
           /\ Minus(Plus(Plus(t, a), b), a) = Plus(t, b)
           /\ a # None => Plus(t, a)[a] > 0 /\ Plus(Plus(t, b), a)[a] > 0
           /\ a # None => Plus(Plus(t, a), b)[a] > 0
<1>1. CASE a = None
  BY <1>1 DEF Plus, Minus
<1>2. CASE a # None /\ b = None
  <2>1. Plus(t, a) = [t EXCEPT ![a] = @ + 1] /\ a \in Elements
    BY <1>2 DEF Plus
  <2>2. Minus(Plus(t, a), a) = t
    BY <1>2, <2>1, UpAndDown DEF Minus
  <2> QED BY <1>2, <2>1, <2>2 DEF Plus
<1>3. CASE a # None /\ b # None
  <2> DEFINE ta == [t EXCEPT ![a] = @ + 1]
             tb == [t EXCEPT ![b] = @ + 1]
             tab == [ta EXCEPT ![b] = @ + 1]
             tba == [tb EXCEPT ![a] = @ + 1]
  <2>1. /\ Plus(t, a) = ta /\ Plus(t, b) = tb
        /\ Plus(ta, b) = tab /\ Plus(tb, a) = tba
        /\ a \in Elements /\ b \in Elements
    BY <1>3 DEF Plus
  <2>2. ta \in [Elements -> Nat] /\ tb \in [Elements -> Nat] /\ ta[a] > 0
    BY <2>1
  <2>3. tab[a] > 0 /\ tba[a] > 0
    BY <2>1
  <2>4. Minus(ta, a) = t
    BY <1>3, <2>1, UpAndDown DEF Minus
  <2>5. Minus(tab, a) = tb
    <3>1. Minus(tab, a) = [tab EXCEPT ![a] = @ - 1]
      BY <1>3 DEF Minus
    <3>2. \A x \in Elements : [tab EXCEPT ![a] = @ - 1][x] = tb[x]
      BY <2>1
    <3> QED BY Zenon, <3>1, <3>2
  <2> HIDE DEF ta, tb, tab, tba
  <2> QED BY <2>1, <2>2, <2>3, <2>4, <2>5
<1> QED BY <1>1, <1>2, <1>3

\* A free element is handed out to a temporary.
LEMMA TakeBalanced ==
    ASSUME NEW h, NEW st, NEW t, Balanced(h, st, t), NEW e \in FreeIn(st)
    PROVE  Balanced(h, Take(st, e), Plus(t, e))
<1> DEFINE s == Take(st, e)
<1>1. e \in Elements /\ e # None /\ st.refs[e] = 0
  BY BuffersConstants DEF FreeIn
<1>2. s.refs = [st.refs EXCEPT ![e] = 1] /\ s.free = st.free - 1
  BY DEF Take
<1>3. FreeIn(s) = FreeIn(st) \ {e}
  BY <1>1, <1>2 DEF FreeIn, Balanced
<1>4. Cardinality(FreeIn(s)) = Cardinality(FreeIn(st)) - 1 /\ Cardinality(FreeIn(s)) \in Nat
  BY <1>3, CountsFinite, FS_RemoveElement
<1>5. s \in [refs : [Elements -> Nat], free : Nat] /\ s.free = Cardinality(FreeIn(s))
  BY <1>1, <1>2, <1>4 DEF Balanced, Take
<1>6. ASSUME NEW x \in Elements
      PROVE  s.refs[x] = Cardinality(HoldersIn(h, x)) + Plus(t, e)[x]
  BY <1>1, <1>2, <1>6, CountsFinite DEF Balanced, Plus
<1> QED BY <1>1, <1>5, <1>6, Temporaries DEF Balanced

\* A temporary copy of a handle that is in use.
LEMMA IncBalanced ==
    ASSUME NEW h, NEW st, NEW t, Balanced(h, st, t), NEW e \in Elements \cup {None},
           e # None => st.refs[e] > 0
    PROVE  Balanced(h, Inc(st, e), Plus(t, e))
<1>1. CASE e = None
  BY <1>1 DEF Inc, Plus
<1>2. CASE e # None
  <2> DEFINE s == Inc(st, e)
  <2>1. s.refs = [st.refs EXCEPT ![e] = @ + 1] /\ s.free = st.free
    BY <1>2 DEF Inc, Balanced
  <2>2. FreeIn(s) = FreeIn(st)
    BY <1>2, <2>1 DEF FreeIn, Balanced
  <2>3. s \in [refs : [Elements -> Nat], free : Nat]
    BY <1>2 DEF Inc, Balanced
  <2>4. ASSUME NEW x \in Elements
        PROVE  s.refs[x] = Cardinality(HoldersIn(h, x)) + Plus(t, e)[x]
    BY <1>2, <2>1, <2>4, CountsFinite DEF Balanced, Plus
  <2> HIDE DEF s
  <2> QED BY <1>2, <2>1, <2>2, <2>3, <2>4, Temporaries DEF Balanced, s
<1> QED BY <1>1, <1>2

\* The end of a temporary.
LEMMA DecBalanced ==
    ASSUME NEW h, NEW st, NEW t, Balanced(h, st, t), NEW e \in Elements \cup {None},
           e # None => t[e] > 0
    PROVE  Balanced(h, Dec(st, e), Minus(t, e))
<1>1. CASE e = None
  BY <1>1 DEF Dec, Minus
<1>2. CASE e # None
  <2> DEFINE s == Dec(st, e)
  <2>1. /\ s.refs = [st.refs EXCEPT ![e] = @ - 1]
        /\ s.free = st.free + IF st.refs[e] = 1 THEN 1 ELSE 0
    BY <1>2 DEF Dec
  <2>2. st.refs[e] \in Nat /\ st.refs[e] > 0
    BY <1>2, CountsFinite DEF Balanced
  <2>3. s \in [refs : [Elements -> Nat], free : Nat]
    BY <1>2, <2>2 DEF Dec, Balanced
  <2>4. s.free = Cardinality(FreeIn(s))
    <3>1. CASE st.refs[e] = 1
      <4>1. FreeIn(s) = FreeIn(st) \cup {e} /\ e \notin FreeIn(st)
        BY <1>2, <2>1, <3>1 DEF FreeIn, Balanced
      <4>2. Cardinality(FreeIn(s)) = Cardinality(FreeIn(st)) + 1
        BY <4>1, CountsFinite, FS_AddElement
      <4> QED BY <2>1, <3>1, <4>2 DEF Balanced
    <3>2. CASE st.refs[e] # 1
      <4>1. FreeIn(s) = FreeIn(st)
        BY <1>2, <2>1, <2>2, <3>2 DEF FreeIn, Balanced
      <4> QED BY <2>1, <3>2, <4>1 DEF Balanced
    <3> QED BY <3>1, <3>2
  <2>5. ASSUME NEW x \in Elements
        PROVE  s.refs[x] = Cardinality(HoldersIn(h, x)) + Minus(t, e)[x]
    BY <1>2, <2>1, <2>5, CountsFinite DEF Balanced, Minus
  <2>6. Minus(t, e) \in [Elements -> Nat]
    BY <1>2 DEF Minus, Balanced
  <2> HIDE DEF s
  <2> QED BY <2>3, <2>4, <2>5, <2>6 DEF Balanced, s
<1> QED BY <1>1, <1>2

\* A temporary hands its reference to an object without handle.
LEMMA PlaceBalanced ==
    ASSUME NEW h, NEW st, NEW t, Balanced(h, st, t), NEW e \in Elements \cup {None},
           e # None => t[e] > 0, NEW o \in Objects, h[o] = None
    PROVE  Balanced([h EXCEPT ![o] = e], st, Minus(t, e))
<1> DEFINE g == [h EXCEPT ![o] = e]
<1>1. CASE e = None
  BY Zenon, <1>1 DEF Minus, Balanced
<1>2. CASE e # None
  <2>1. g \in [Objects -> Elements \cup {None}] /\ Minus(t, e) \in [Elements -> Nat]
    BY <1>2 DEF Balanced, Minus
  <2>2. ASSUME NEW x \in Elements
        PROVE  st.refs[x] = Cardinality(HoldersIn(g, x)) + Minus(t, e)[x]
    <3>1. CASE x = e
      <4>1. HoldersIn(g, x) = HoldersIn(h, x) \cup {o} /\ o \notin HoldersIn(h, x)
        BY <1>2, <3>1 DEF HoldersIn, Balanced
      <4>2. Cardinality(HoldersIn(g, x)) = Cardinality(HoldersIn(h, x)) + 1
        BY Zenon, <4>1, CountsFinite, FS_AddElement
      <4> QED BY <1>2, <3>1, <4>2, CountsFinite DEF Balanced, Minus
    <3>2. CASE x # e
      <4>1. HoldersIn(g, x) = HoldersIn(h, x)
        BY <2>2, <3>2, BuffersConstants DEF HoldersIn, Balanced
      <4> QED BY <1>2, <3>2, <4>1 DEF Balanced, Minus
    <3> QED BY <3>1, <3>2
  <2> HIDE DEF g
  <2> QED BY Zenon, <2>1, <2>2 DEF Balanced, g
<1> QED BY <1>1, <1>2

\* An object hands its reference to a temporary.
LEMMA UnplaceBalanced ==
    ASSUME NEW h, NEW st, NEW t, Balanced(h, st, t), NEW o \in Objects
    PROVE  Balanced([h EXCEPT ![o] = None], st, Plus(t, h[o]))
<1> DEFINE g == [h EXCEPT ![o] = None]
           e == h[o]
<1>1. e \in Elements \cup {None} /\ g \in [Objects -> Elements \cup {None}]
  BY DEF Balanced
<1>2. CASE e = None
  <2>1. g = h
    BY <1>2 DEF Balanced
  <2> QED BY <1>2, <2>1 DEF Plus
<1>3. CASE e # None
  <2>1. Plus(t, e) \in [Elements -> Nat]
    BY <1>1, Temporaries DEF Balanced
  <2>2. ASSUME NEW x \in Elements
        PROVE  st.refs[x] = Cardinality(HoldersIn(g, x)) + Plus(t, e)[x]
    <3>1. CASE x = e
      <4>1. HoldersIn(g, x) = HoldersIn(h, x) \ {o} /\ o \in HoldersIn(h, x)
        BY <1>3, <3>1 DEF HoldersIn, Balanced
      <4>2. Cardinality(HoldersIn(g, x)) = Cardinality(HoldersIn(h, x)) - 1
        BY Zenon, <4>1, CountsFinite, FS_RemoveElement
      <4> QED BY <1>3, <3>1, <4>2, CountsFinite DEF Balanced, Plus
    <3>2. CASE x # e
      <4>1. HoldersIn(g, x) = HoldersIn(h, x)
        BY <2>2, <3>2, BuffersConstants DEF HoldersIn, Balanced
      <4> QED BY <1>3, <3>2, <4>1 DEF Balanced, Plus
    <3> QED BY <3>1, <3>2
  <2> HIDE DEF g, e
  <2> QED BY Zenon, <1>1, <2>1, <2>2 DEF Balanced, g, e
<1> QED BY <1>2, <1>3

\* An object gives up what it holds for what a temporary holds, and the old
\* reference ends: the second half of every assignment.
LEMMA AssignBalanced ==
    ASSUME NEW h, NEW st, NEW t, NEW e \in Elements \cup {None},
           t \in [Elements -> Nat], Balanced(h, st, Plus(t, e)), NEW o \in Objects
    PROVE  Balanced([h EXCEPT ![o] = e], Dec(st, h[o]), t)
<1> DEFINE old == h[o]
           g == [h EXCEPT ![o] = None]
<1>1. old \in Elements \cup {None} /\ g[o] = None /\ [g EXCEPT ![o] = e] = [h EXCEPT ![o] = e]
  BY Zenon DEF Balanced
<1>2. Balanced(g, st, Plus(Plus(t, e), old))
  BY UnplaceBalanced
<1>3. /\ e # None => Plus(Plus(t, e), old)[e] > 0
      /\ Minus(Plus(Plus(t, e), old), e) = Plus(t, old)
      /\ old # None => Plus(t, old)[old] > 0
      /\ Minus(Plus(t, old), old) = t
  BY <1>1, Temporaries
<1> HIDE DEF g, old
<1>4. Balanced([g EXCEPT ![o] = e], st, Plus(t, old))
  BY <1>1, <1>2, <1>3, PlaceBalanced
<1>5. Balanced([g EXCEPT ![o] = e], Dec(st, old), t)
  BY <1>1, <1>3, <1>4, DecBalanced
<1> QED BY <1>1, <1>5 DEF old

-----------------------------------------------------------------------------
(* The invariant *)

IInv == Balanced(handle, store, NoTemp)

\* An element that an object holds is in use.
LEMMA HeldInUse ==
    ASSUME NEW h, NEW st, NEW t, Balanced(h, st, t), NEW o \in Objects, h[o] # None
    PROVE  st.refs[h[o]] > 0
<1>1. h[o] \in Elements /\ o \in HoldersIn(h, h[o])
  BY DEF Balanced, HoldersIn
<1>2. Cardinality(HoldersIn(h, h[o])) # 0
  BY <1>1, CountsFinite, FS_EmptySet
<1> QED BY <1>1, <1>2, CountsFinite DEF Balanced

\* Temporaries are counted by naturals.
LEMMA NoTempType == NoTemp \in [Elements -> Nat]
BY DEF NoTemp

\* Nothing is held at the beginning.
LEMMA InitBalanced == BufferInit => IInv
<1> SUFFICES ASSUME BufferInit PROVE IInv
  OBVIOUS
<1>1. FreeIn(store) = Elements
  BY DEF BufferInit, FreeIn
<1>2. \A e \in Elements : HoldersIn(handle, e) = {}
  BY BuffersConstants DEF BufferInit, HoldersIn
<1>3. Cardinality({}) = 0 /\ Cardinality(Elements) \in Nat
  BY FS_EmptySet, FS_CardinalityType, BuffersConstants
<1>4. store \in [refs : [Elements -> Nat], free : Nat] /\ store.free = Cardinality(Elements)
  BY <1>3 DEF BufferInit
<1>5. handle \in [Objects -> Elements \cup {None}]
  BY DEF BufferInit
<1>6. \A e \in Elements : store.refs[e] = 0 /\ NoTemp[e] = 0
  BY DEF BufferInit, NoTemp
<1>7. ASSUME NEW e \in Elements
      PROVE  store.refs[e] = Cardinality(HoldersIn(handle, e)) + NoTemp[e]
  <2>1. Cardinality(HoldersIn(handle, e)) = 0
    BY <1>2, <1>3
  <2> QED BY <1>6, <2>1
<1>8. store.free = Cardinality(FreeIn(store))
  BY <1>1, <1>4
<1> QED BY <1>4, <1>5, <1>7, <1>8, NoTempType DEF IInv, Balanced

-----------------------------------------------------------------------------
(* One lemma for each action *)

\* Copy assignment, also to itself: the temporary copy takes over o's place.
LEMMA CopyAssignKeeps ==
    ASSUME IInv, NEW o \in Objects, NEW p \in Objects, CopyAssign(o, p)
    PROVE  IInv'
<1>1. handle[p] \in Elements \cup {None}
  BY DEF IInv, Balanced
<1>2. Balanced(handle, Inc(store, handle[p]), Plus(NoTemp, handle[p]))
  BY <1>1, HeldInUse, IncBalanced DEF IInv
<1>3. Balanced([handle EXCEPT ![o] = handle[p]],
               Dec(Inc(store, handle[p]), handle[o]), NoTemp)
  BY <1>1, <1>2, NoTempType, AssignBalanced
<1> QED BY <1>3 DEF IInv, CopyAssign, NoTemp

\* Move assignment: the reference of p passes to o and o's own ends.
LEMMA MoveAssignKeepsBalance ==
    ASSUME IInv, NEW o \in Objects, NEW p \in Objects, MoveAssign(o, p)
    PROVE  IInv'
<1>1. CASE o = p
  BY <1>1 DEF MoveAssign, bufferVars, IInv, NoTemp
<1>2. CASE o # p
  <2> DEFINE g == [handle EXCEPT ![p] = None]
  <2>1. /\ handle[p] \in Elements \cup {None}
        /\ g[o] = handle[o]
        /\ [g EXCEPT ![o] = handle[p]] = [handle EXCEPT ![o] = handle[p], ![p] = None]
    BY Zenon, <1>2 DEF IInv, Balanced
  <2>2. Balanced(g, store, Plus(NoTemp, handle[p]))
    BY UnplaceBalanced DEF IInv
  <2> HIDE DEF g
  <2>3. Balanced([g EXCEPT ![o] = handle[p]], Dec(store, handle[o]), NoTemp)
    BY <2>1, <2>2, NoTempType, AssignBalanced
  <2> QED BY Zenon, <1>2, <2>1, <2>3 DEF IInv, MoveAssign, NoTemp
<1> QED BY <1>1, <1>2

\* swap: two references change places.
LEMMA SwapKeeps ==
    ASSUME IInv, NEW o \in Objects, NEW p \in Objects, Swap(o, p)
    PROVE  IInv'
<1> DEFINE g == [handle EXCEPT ![o] = None]
           a == handle[o]
           b == handle[p]
<1>1. CASE o = p
  <2>1. handle' = handle
    BY <1>1 DEF Swap, IInv, Balanced
  <2> QED BY <2>1 DEF Swap, IInv, NoTemp
<1>2. CASE o # p
  <2>1. /\ a \in Elements \cup {None} /\ b \in Elements \cup {None}
        /\ g[p] = b /\ g[o] = None
    BY <1>2 DEF IInv, Balanced
  <2>2. Balanced(g, store, Plus(NoTemp, a))
    BY UnplaceBalanced DEF IInv
  <2> DEFINE m == [g EXCEPT ![p] = None]
             n == [m EXCEPT ![o] = b]
  <2>3. Balanced(m, store, Plus(Plus(NoTemp, a), b))
    BY Zenon, <2>1, <2>2, UnplaceBalanced
  <2>4. m[o] = None /\ n[p] = None /\ [n EXCEPT ![p] = a] = handle'
    BY Zenon, <1>2 DEF IInv, Balanced, Swap
  <2>5. /\ b # None => Plus(Plus(NoTemp, a), b)[b] > 0
        /\ Minus(Plus(Plus(NoTemp, a), b), b) = Plus(NoTemp, a)
        /\ a # None => Plus(NoTemp, a)[a] > 0
        /\ Minus(Plus(NoTemp, a), a) = NoTemp
    BY <2>1, NoTempType, Temporaries
  <2> HIDE DEF m, a, b, g
  <2>6. Balanced(n, store, Plus(NoTemp, a))
    <3>1. Balanced(n, store, Minus(Plus(Plus(NoTemp, a), b), b))
      BY Zenon, <2>1, <2>3, <2>4, <2>5, PlaceBalanced
    <3> QED BY <2>5, <3>1
  <2> HIDE DEF n
  <2>7. Balanced([n EXCEPT ![p] = a], store, NoTemp)
    <3>1. Balanced([n EXCEPT ![p] = a], store, Minus(Plus(NoTemp, a), a))
      BY Zenon, <2>1, <2>4, <2>5, <2>6, PlaceBalanced
    <3> QED BY <2>5, <3>1
  <2> QED BY <2>4, <2>7 DEF Swap, IInv, NoTemp
<1> QED BY <1>1, <1>2

\* clear: o's reference ends.
LEMMA ClearKeeps ==
    ASSUME IInv, NEW o \in Objects, Clear(o)
    PROVE  IInv'
<1>1. Balanced(handle, store, Plus(NoTemp, None))
  BY DEF IInv, Plus
<1>2. Balanced([handle EXCEPT ![o] = None], Dec(store, handle[o]), NoTemp)
  BY <1>1, NoTempType, AssignBalanced
<1> QED BY <1>2 DEF IInv, Clear, NoTemp

\* An element that has just been handed out has one reference.
LEMMA Taken ==
    ASSUME NEW h, NEW st, NEW t, Balanced(h, st, t), NEW e \in FreeIn(st)
    PROVE  e \in Elements /\ e # None /\ Take(st, e).refs[e] = 1
BY BuffersConstants DEF FreeIn, Take, Balanced

\* An inventory's new element takes the place of what o held.
LEMMA GetKeeps ==
    ASSUME IInv, NEW o \in Objects, Get(o)
    PROVE  IInv'
<1>1. PICK e \in Free :
        /\ store' = Dec(Take(store, e), handle[o])
        /\ handle' = [handle EXCEPT ![o] = e]
  BY Zenon DEF Get
<1>2. e \in FreeIn(store) /\ e \in Elements
  BY DEF Free, FreeIn
<1>3. Balanced(handle, Take(store, e), Plus(NoTemp, e))
  BY <1>2, TakeBalanced DEF IInv
<1>4. Balanced([handle EXCEPT ![o] = e], Dec(Take(store, e), handle[o]), NoTemp)
  BY <1>2, <1>3, NoTempType, AssignBalanced
<1> QED BY <1>1, <1>4 DEF IInv, NoTemp

\* An element is handed out and copied, and the first owner goes.
LEMMA CopyOfTaken ==
    ASSUME IInv, NEW e \in FreeIn(store)
    PROVE  Balanced(handle, Dec(Inc(Take(store, e), e), e), Plus(NoTemp, e))
<1> DEFINE t1 == Plus(NoTemp, e)
           t2 == Plus(t1, e)
<1>1. e \in Elements /\ e # None /\ Take(store, e).refs[e] = 1
  BY Taken DEF IInv
<1>2. t1 \in [Elements -> Nat] /\ t2[e] > 0 /\ Minus(t2, e) = t1
  BY <1>1, NoTempType, Temporaries
<1>3. Balanced(handle, Take(store, e), t1)
  BY TakeBalanced DEF IInv
<1> HIDE DEF t1
<1>4. Balanced(handle, Inc(Take(store, e), e), t2)
  BY <1>1, <1>3, IncBalanced
<1> HIDE DEF t2
<1>5. Balanced(handle, Dec(Inc(Take(store, e), e), e), t1)
  BY <1>1, <1>2, <1>4, DecBalanced
<1> QED BY <1>5 DEF t1

\* A pool's new element, copied or lost to an exception.
LEMMA AllocateKeeps ==
    ASSUME IInv, NEW o \in Objects, Allocate(o)
    PROVE  IInv'
<1>1. PICK e \in Free :
        \/ /\ store' = Dec(Dec(Inc(Take(store, e), e), e), handle[o])
           /\ handle' = [handle EXCEPT ![o] = e]
        \/ /\ store' = Dec(Take(store, e), e)
           /\ UNCHANGED handle
  BY DEF Allocate
<1>2. e \in FreeIn(store) /\ e \in Elements /\ e # None
  BY BuffersConstants DEF Free, FreeIn
<1>3. Balanced([handle EXCEPT ![o] = e], Dec(Dec(Inc(Take(store, e), e), e), handle[o]), NoTemp)
  BY <1>2, CopyOfTaken, NoTempType, AssignBalanced
<1>4. Balanced(handle, Take(store, e), Plus(NoTemp, e))
  BY <1>2, TakeBalanced DEF IInv
<1>5. Plus(NoTemp, e)[e] > 0 /\ Minus(Plus(NoTemp, e), e) = NoTemp
  BY <1>2, NoTempType, Temporaries
<1>6. Balanced(handle, Dec(Take(store, e), e), NoTemp)
  BY <1>2, <1>4, <1>5, DecBalanced
<1> QED BY <1>1, <1>3, <1>6 DEF IInv, NoTemp

\* A packet is left in the queues with the reference of one object.
LEMMA PacketKeeps ==
    ASSUME IInv, NEW o \in Objects, Packet(o)
    PROVE  IInv'
<1>1. PICK e \in Free :
        /\ handle[o] = None
        /\ store' = Dec(Inc(Take(store, e), e), e)
        /\ handle' = [handle EXCEPT ![o] = e]
  BY Zenon DEF Packet
<1>2. e \in FreeIn(store) /\ e \in Elements /\ e # None
  BY BuffersConstants DEF Free, FreeIn
<1>3. Plus(NoTemp, e)[e] > 0 /\ Minus(Plus(NoTemp, e), e) = NoTemp
  BY <1>2, NoTempType, Temporaries
<1>4. Balanced([handle EXCEPT ![o] = e], Dec(Inc(Take(store, e), e), e), NoTemp)
  BY Zenon, <1>1, <1>2, <1>3, CopyOfTaken, PlaceBalanced
<1> QED BY <1>1, <1>4 DEF IInv, NoTemp

\* The packets of a batch, one after the other.
LEMMA BatchKeeps ==
    ASSUME IInv, NEW o \in Objects, NEW p \in Objects, Batch(o, p)
    PROVE  IInv'
<1>1. PICK d \in Free, e \in Free :
        /\ o # p /\ d # e
        /\ handle[o] = None /\ handle[p] = None
        /\ store' = Dec(Dec(Inc(Inc(Take(Take(store, d), e), d), e), d), e)
        /\ handle' = [handle EXCEPT ![o] = d, ![p] = e]
  BY Zenon DEF Batch
<1> DEFINE s1 == Take(store, d)
           s2 == Take(s1, e)
           s3 == Inc(s2, d)
           s4 == Inc(s3, e)
           s5 == Dec(s4, d)
           t1 == Plus(NoTemp, d)
           t2 == Plus(t1, e)
           t3 == Plus(t2, d)
           t4 == Plus(t3, e)
           g == [handle EXCEPT ![o] = d]
<1>2. /\ d \in FreeIn(store) /\ d \in Elements /\ d # None
      /\ e \in FreeIn(store) /\ e \in Elements /\ e # None
  BY BuffersConstants DEF Free, FreeIn
<1>3. e \in FreeIn(s1) /\ s2.refs[d] > 0 /\ s3.refs[e] > 0
  <2>1. store.refs \in [Elements -> Nat] /\ store.refs[e] = 0
    BY <1>2 DEF IInv, Balanced, FreeIn
  <2>2. s1.refs = [store.refs EXCEPT ![d] = 1] /\ s2.refs = [s1.refs EXCEPT ![e] = 1]
    BY DEF Take
  <2>3. s3.refs = [s2.refs EXCEPT ![d] = @ + 1]
    BY <1>2 DEF Inc, Take
  <2> HIDE DEF s1, s2, s3
  <2> QED BY <1>1, <1>2, <2>1, <2>2, <2>3 DEF FreeIn
<1>4. t1 \in [Elements -> Nat] /\ t2 \in [Elements -> Nat] /\ t3 \in [Elements -> Nat]
  <2>1. t1 \in [Elements -> Nat]
    BY <1>2, NoTempType, Temporaries
  <2> HIDE DEF t1
  <2>2. t2 \in [Elements -> Nat]
    BY <1>2, <2>1, Temporaries
  <2> HIDE DEF t2
  <2>3. t3 \in [Elements -> Nat]
    BY <1>2, <2>2, Temporaries
  <2> QED BY <2>1, <2>2, <2>3
<1>5. t4[d] > 0 /\ Minus(t4, d) = Plus(t2, e) /\ Plus(t2, e)[e] > 0 /\ Minus(Plus(t2, e), e) = t2
  <2> HIDE DEF t2
  <2> QED BY <1>2, <1>4, Temporaries
<1>6. /\ t2[d] > 0 /\ Minus(t2, d) = Plus(NoTemp, e)
      /\ Plus(NoTemp, e)[e] > 0 /\ Minus(Plus(NoTemp, e), e) = NoTemp
  BY <1>2, NoTempType, Temporaries
<1>7. Balanced(handle, s1, t1)
  BY <1>2, TakeBalanced DEF IInv
<1>8. g[o] = d /\ g[p] = None /\ [g EXCEPT ![p] = e] = handle'
  BY <1>1, <1>2 DEF IInv, Balanced
<1>9. store' = Dec(s5, e)
  BY <1>1
<1> HIDE DEF s1, t1, g
<1>10. Balanced(handle, s2, t2)
  BY <1>3, <1>7, TakeBalanced
<1> HIDE DEF s2, t2
<1>11. Balanced(handle, s3, t3)
  BY <1>2, <1>3, <1>10, IncBalanced
<1> HIDE DEF s3, t3
<1>12. Balanced(handle, s4, t4)
  BY <1>2, <1>3, <1>11, IncBalanced
<1> HIDE DEF s4, t4
<1>13. Balanced(handle, s5, Plus(t2, e))
  BY <1>2, <1>5, <1>12, DecBalanced
<1> HIDE DEF s5
<1>14. Balanced(handle, store', t2)
  BY <1>2, <1>5, <1>9, <1>13, DecBalanced
<1>15. Balanced(g, store', Plus(NoTemp, e))
  <2>1. Balanced(g, store', Minus(t2, d))
    BY Zenon, <1>1, <1>2, <1>6, <1>14, PlaceBalanced DEF g
  <2> QED BY <1>6, <2>1
<1>16. Balanced([g EXCEPT ![p] = e], store', NoTemp)
  <2>1. Balanced([g EXCEPT ![p] = e], store', Minus(Plus(NoTemp, e), e))
    BY Zenon, <1>2, <1>6, <1>8, <1>15, PlaceBalanced
  <2> QED BY <1>6, <2>1
<1> QED BY Zenon, <1>8, <1>16 DEF IInv, NoTemp

-----------------------------------------------------------------------------
\* No action unbalances the counts.
LEMMA StepBalanced == IInv /\ [BufferNext]_bufferVars => IInv'
<1> SUFFICES ASSUME IInv, [BufferNext]_bufferVars PROVE IInv'
  OBVIOUS
<1>1. CASE UNCHANGED bufferVars
  BY <1>1 DEF bufferVars, IInv, NoTemp
<1>2. CASE BufferNext
  BY <1>2, ClearKeeps, GetKeeps, AllocateKeeps, PacketKeeps, CopyAssignKeeps,
     MoveAssignKeepsBalance, SwapKeeps, BatchKeeps DEF BufferNext
<1> QED BY <1>1, <1>2

\* What balance means when there are no temporaries.
LEMMA BalanceExact == IInv => BufferTypeOK /\ CountsExact
<1> SUFFICES ASSUME IInv PROVE BufferTypeOK /\ CountsExact
  OBVIOUS
<1>1. \A e \in Elements : HoldersIn(handle, e) = Holders(e) /\ NoTemp[e] = 0
  BY DEF HoldersIn, Holders, NoTemp
<1>2. \A e \in Elements : store.refs[e] = Cardinality(Holders(e))
  BY <1>1, CountsFinite DEF IInv, Balanced
<1>3. \A e \in Elements : store.refs[e] = 0 <=> Holders(e) = {}
  BY <1>1, <1>2, CountsFinite, FS_EmptySet
<1>4. FreeIn(store) = {e \in Elements : Holders(e) = {}}
  BY <1>3 DEF FreeIn
<1> QED BY <1>2, <1>4 DEF IInv, Balanced, BufferTypeOK, CountsExact

\* For any objects and elements: reference counts and the number of free
\* elements are exact after any sequence of copies, moves, swaps, allocations,
\* packets and exceptions.
THEOREM Exact == BufferSpec => []CountsExact
BY InitBalanced, StepBalanced, BalanceExact, PTL DEF BufferSpec
=============================================================================
