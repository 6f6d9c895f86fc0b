--------------------------- MODULE ContextsProofs ---------------------------
(***************************************************************************)
(* Proofs about Contexts for any set of contexts and fibers and call       *)
(* stacks of any depth.                                                    *)
(***************************************************************************)
EXTENDS Contexts, TLAPS

-----------------------------------------------------------------------------
(* Call stacks *)

OnSeq(s, x) == \E i \in DOMAIN s : s[i] = x

\* No fiber, no callback and no stop_all is on the stack twice.
Single(s) == \A i, j \in DOMAIN s : s[i] = s[j] /\ s[i].op # "crash" => i = j

\* A call puts one frame in front of the stack.
LEMMA PushFacts ==
    ASSUME NEW S, NEW s \in Seq(S), NEW e \in S
    PROVE  /\ <<e>> \o s \in Seq(S)
           /\ <<e>> \o s # <<>>
           /\ Len(<<e>> \o s) = Len(s) + 1
           /\ (<<e>> \o s)[1] = e
           /\ \A i \in 1..Len(s) : (<<e>> \o s)[i + 1] = s[i]
           /\ \A i \in 2..(Len(s) + 1) : (<<e>> \o s)[i] = s[i - 1]
OBVIOUS

\* A return takes it away.
LEMMA PopFacts ==
    ASSUME NEW S, NEW s \in Seq(S), s # <<>>
    PROVE  /\ Tail(s) \in Seq(S)
           /\ Head(s) \in S
           /\ Head(s) = s[1]
           /\ 1 \in DOMAIN s
           /\ Len(Tail(s)) = Len(s) - 1
           /\ \A i \in 1..Len(Tail(s)) : Tail(s)[i] = s[i + 1]
           /\ \A i \in 2..Len(s) : s[i] = Tail(s)[i - 1]
OBVIOUS

\* What is on the stack after a call.
LEMMA PushOn ==
    ASSUME NEW S, NEW s \in Seq(S), NEW e \in S, NEW x
    PROVE  OnSeq(<<e>> \o s, x) <=> x = e \/ OnSeq(s, x)
<1> DEFINE t == <<e>> \o s
<1>0. t \in Seq(S) /\ DOMAIN t = 1..(Len(s) + 1) /\ DOMAIN s = 1..Len(s) /\ Len(s) \in Nat
  BY PushFacts
<1>1. ASSUME OnSeq(t, x) PROVE x = e \/ OnSeq(s, x)
  <2>1. PICK i \in DOMAIN t : t[i] = x
    BY <1>1 DEF OnSeq
  <2>2. CASE i = 1
    BY <2>1, <2>2, PushFacts
  <2>3. CASE i \in 2..(Len(s) + 1)
    <3>1. s[i - 1] = x /\ i - 1 \in DOMAIN s
      BY <1>0, <2>1, <2>3, PushFacts
    <3> QED BY <3>1 DEF OnSeq
  <2> QED BY <1>0, <2>1, <2>2, <2>3
<1>2. ASSUME x = e PROVE OnSeq(t, x)
  BY <1>0, <1>2, PushFacts DEF OnSeq
<1>3. ASSUME OnSeq(s, x) PROVE OnSeq(t, x)
  <2>1. PICK i \in DOMAIN s : s[i] = x
    BY <1>3 DEF OnSeq
  <2>2. t[i + 1] = x /\ i + 1 \in DOMAIN t
    BY <1>0, <2>1, PushFacts
  <2> QED BY <2>2 DEF OnSeq
<1> QED BY <1>1, <1>2, <1>3

\* What was on the stack before a return.
LEMMA PopOn ==
    ASSUME NEW S, NEW s \in Seq(S), s # <<>>, NEW x
    PROVE  OnSeq(s, x) <=> x = Head(s) \/ OnSeq(Tail(s), x)
<1>0. /\ DOMAIN s = 1..Len(s) /\ Len(s) \in Nat /\ Len(s) >= 1
      /\ DOMAIN Tail(s) = 1..(Len(s) - 1)
  BY PopFacts
<1>1. ASSUME OnSeq(s, x) PROVE x = Head(s) \/ OnSeq(Tail(s), x)
  <2>1. PICK i \in DOMAIN s : s[i] = x
    BY <1>1 DEF OnSeq
  <2>2. CASE i = 1
    BY <2>1, <2>2, PopFacts
  <2>3. CASE i \in 2..Len(s)
    <3>1. Tail(s)[i - 1] = x /\ i - 1 \in DOMAIN Tail(s)
      BY <1>0, <2>1, <2>3, PopFacts
    <3> QED BY <3>1 DEF OnSeq
  <2> QED BY <1>0, <2>1, <2>2, <2>3
<1>2. ASSUME x = Head(s) PROVE OnSeq(s, x)
  BY <1>2, PopFacts DEF OnSeq
<1>3. ASSUME OnSeq(Tail(s), x) PROVE OnSeq(s, x)
  <2>1. PICK i \in DOMAIN Tail(s) : Tail(s)[i] = x
    BY <1>3 DEF OnSeq
  <2>2. s[i + 1] = x /\ i + 1 \in DOMAIN s
    BY <1>0, <2>1, PopFacts
  <2> QED BY <2>2 DEF OnSeq
<1> QED BY <1>1, <1>2, <1>3

\* A call keeps frames single if the new one is new.
LEMMA PushSingle ==
    ASSUME NEW S, NEW s \in Seq(S), NEW e \in S, Single(s),
           e.op # "crash" => ~OnSeq(s, e)
    PROVE  Single(<<e>> \o s)
<1> DEFINE t == <<e>> \o s
<1>0. DOMAIN t = 1..(Len(s) + 1) /\ DOMAIN s = 1..Len(s) /\ Len(s) \in Nat
  BY PushFacts
<1>1. SUFFICES ASSUME NEW i \in DOMAIN t, NEW j \in DOMAIN t,
                      t[i] = t[j], t[i].op # "crash", i < j
               PROVE  FALSE
  BY <1>0 DEF Single
<1>2. t[j] = s[j - 1] /\ j - 1 \in DOMAIN s
  BY <1>0, <1>1, PushFacts
<1>3. CASE i = 1
  BY <1>1, <1>2, <1>3, PushFacts DEF OnSeq
<1>4. CASE i # 1
  <2>1. t[i] = s[i - 1] /\ i - 1 \in DOMAIN s
    BY <1>0, <1>1, <1>4, PushFacts
  <2>2. i - 1 = j - 1
    BY <1>1, <1>2, <2>1 DEF Single
  <2> QED BY <1>0, <1>1, <2>2
<1> QED BY <1>3, <1>4

\* A return keeps frames single, and the frame that returns is gone.
LEMMA PopSingle ==
    ASSUME NEW S, NEW s \in Seq(S), s # <<>>, Single(s)
    PROVE  /\ Single(Tail(s))
           /\ Head(s).op # "crash" => ~OnSeq(Tail(s), Head(s))
<1>0. /\ DOMAIN s = 1..Len(s) /\ Len(s) \in Nat /\ Len(s) >= 1
      /\ DOMAIN Tail(s) = 1..(Len(s) - 1)
  BY PopFacts
<1>1. ASSUME NEW i \in DOMAIN Tail(s), NEW j \in DOMAIN Tail(s),
             Tail(s)[i] = Tail(s)[j], Tail(s)[i].op # "crash"
      PROVE  i = j
  <2>1. s[i + 1] = Tail(s)[i] /\ s[j + 1] = Tail(s)[j] /\ i + 1 \in DOMAIN s /\ j + 1 \in DOMAIN s
    BY <1>0, PopFacts
  <2>2. i + 1 = j + 1
    BY <1>1, <2>1 DEF Single
  <2> QED BY <1>0, <2>2
<1>2. ASSUME Head(s).op # "crash", OnSeq(Tail(s), Head(s)) PROVE FALSE
  <2>1. PICK i \in DOMAIN Tail(s) : Tail(s)[i] = Head(s)
    BY <1>2 DEF OnSeq
  <2>2. s[i + 1] = s[1] /\ i + 1 \in DOMAIN s /\ 1 \in DOMAIN s
    BY <1>0, <2>1, PopFacts
  <2>3. i + 1 = 1
    BY <1>2, <2>2, PopFacts DEF Single
  <2> QED BY <1>0, <2>3
<1> QED BY <1>1, <1>2 DEF Single
-----------------------------------------------------------------------------
(* Frames *)

\* Frames of different kinds differ, and a frame tells what it is made of.
LEMMA FrameFacts ==
    /\ \A f \in Fibers : FiberFrame(f) \in Frames /\ FiberFrame(f).op = "fiber"
    /\ \A c \in Ctxs : IdleFrame(c) \in Frames /\ IdleFrame(c).op = "idle"
    /\ LoopFrame \in Frames /\ LoopFrame.op = "stop_all"
    /\ CrashFrame \in Frames /\ CrashFrame.op = "crash"
    /\ \A f, g \in Fibers : FiberFrame(f) = FiberFrame(g) => f = g
    /\ \A c, d \in Ctxs : IdleFrame(c) = IdleFrame(d) => c = d
    /\ \A f \in Fibers, c \in Ctxs : FiberFrame(f) # IdleFrame(c)
<1>1. \A f \in Fibers : FiberFrame(f) \in Frames /\ FiberFrame(f).op = "fiber"
  BY DEF FiberFrame, Frames
<1>2. \A c \in Ctxs : IdleFrame(c) \in Frames /\ IdleFrame(c).op = "idle"
  BY DEF IdleFrame, Frames
<1>3. LoopFrame \in Frames /\ LoopFrame.op = "stop_all"
  BY DEF LoopFrame, Frames
<1>4. CrashFrame \in Frames /\ CrashFrame.op = "crash"
  BY DEF CrashFrame, Frames
<1>5. \A f, g \in Fibers : FiberFrame(f) = FiberFrame(g) => f = g
  BY DEF FiberFrame
<1>6. \A c, d \in Ctxs : IdleFrame(c) = IdleFrame(d) => c = d
  BY DEF IdleFrame
<1>7. \A f \in Fibers, c \in Ctxs : FiberFrame(f) # IdleFrame(c)
  BY Zenon, <1>1, <1>2
<1> QED BY <1>1, <1>2, <1>3, <1>4, <1>5, <1>6, <1>7

-----------------------------------------------------------------------------
(* The inductive invariant *)

Slots ==
    /\ \A f \in Fibers :
         /\ at[f] \in {"start", "stop", "data"} => on[f] \in Ctxs
         /\ at[f] = "start" => state[on[f]] # "none" /\ coroStart[on[f]] = f
    /\ \A c \in Ctxs :
         /\ coroStart[c] # None => at[coroStart[c]] = "start" /\ on[coroStart[c]] = c
         /\ coroStop[c] # None =>
              /\ at[coroStop[c]] = "stop" /\ on[coroStop[c]] = c
              /\ state[c] \in {"stopping", "idle"}

StackOK ==
    /\ Single(stack)
    /\ \A c \in Ctxs : OnStack(IdleFrame(c)) => state[c] = "idle"
    /\ \A f \in Fibers : OnStack(FiberFrame(f)) => at[f] = "running"

IInv == TypeOK /\ StackOK /\ RegistryMatches /\ Slots

\* OnStack with the stack as a parameter.
LEMMA OnStackIsOnSeq == \A x : OnStack(x) <=> OnSeq(stack, x)
BY DEF OnStack, OnSeq

\* The same of the next state.
LEMMA OnStackIsOnSeqNext == \A x : OnStack(x)' <=> OnSeq(stack', x')
BY DEF OnStack, OnSeq

\* Before the first context is created.
LEMMA InitIInv == Init => IInv
<1> SUFFICES ASSUME Init PROVE IInv
  OBVIOUS
<1>1. stack = <<>> /\ DOMAIN stack = {}
  BY DEF Init
<1>2. stack \in Seq(Frames)
  BY <1>1
<1>3. TypeOK
  BY <1>2 DEF Init, TypeOK, LoopFrom
<1>4. StackOK
  BY <1>1 DEF StackOK, Single, OnStack
<1>5. RegistryMatches
  BY Zenon, <1>1 DEF Init, RegistryMatches, OnStack
<1>6. Slots
  BY DEF Init, Slots
<1> QED BY <1>3, <1>4, <1>5, <1>6 DEF IInv
-----------------------------------------------------------------------------
(* What the steps do to the stack *)

\* The fiber in front suspends.
LEMMA SuspendStack ==
    ASSUME IInv, NEW f \in Fibers, Runs(f), stack' = Tail(stack)
    PROVE  /\ stack' \in Seq(Frames) /\ Single(stack')
           /\ at[f] = "running"
           /\ ~OnSeq(stack', FiberFrame(f))
           /\ \A x : x # FiberFrame(f) => (OnSeq(stack', x) <=> OnSeq(stack, x))
<1>1. stack \in Seq(Frames) /\ stack # <<>> /\ Single(stack) /\ Head(stack) = FiberFrame(f)
  BY DEF IInv, TypeOK, StackOK, Runs
<1>2. FiberFrame(f).op # "crash"
  BY FrameFacts
<1>3. OnSeq(stack, FiberFrame(f))
  BY <1>1, PopOn
<1>4. at[f] = "running"
  BY <1>3, OnStackIsOnSeq DEF IInv, StackOK
<1> QED BY <1>1, <1>2, <1>4, PopFacts, PopSingle, PopOn

\* A suspended fiber is resumed on top of a stack that has it nowhere.
LEMMA ResumeStack ==
    ASSUME NEW f \in Fibers, NEW below \in Seq(Frames), Single(below),
           ~OnSeq(below, FiberFrame(f)), ResumeOn(f, below)
    PROVE  /\ stack' \in Seq(Frames) /\ Single(stack')
           /\ \A x : OnSeq(stack', x) <=> x = FiberFrame(f) \/ OnSeq(below, x)
<1>1. stack' = <<FiberFrame(f)>> \o below /\ FiberFrame(f) \in Frames
  BY FrameFacts DEF ResumeOn
<1> QED BY <1>1, PushFacts, PushSingle, PushOn

\* A stop of c from the frame in front.
LEMMA StoppingStack ==
    ASSUME IInv, NEW c \in Ctxs, state[c] # "idle", Stopping(c)
    PROVE  /\ stack' \in Seq(Frames) /\ Single(stack')
           /\ \/ /\ state' = [state EXCEPT ![c] = "stopping"]
                 /\ \A x : OnSeq(stack', x) <=> OnSeq(stack, x)
              \/ /\ state' = [state EXCEPT ![c] = "idle"]
                 /\ \A x : OnSeq(stack', x) <=> x = IdleFrame(c) \/ OnSeq(stack, x)
<1>1. stack \in Seq(Frames) /\ Single(stack)
  BY DEF IInv, TypeOK, StackOK
<1>2. CASE state' = [state EXCEPT ![c] = "stopping"] /\ stack' = stack
  BY <1>1, <1>2
<1>3. CASE state' = [state EXCEPT ![c] = "idle"] /\ stack' = <<IdleFrame(c)>> \o stack
  <2>1. IdleFrame(c) \in Frames
    BY FrameFacts
  <2>2. ~OnSeq(stack, IdleFrame(c))
    BY OnStackIsOnSeq DEF IInv, StackOK
  <2>3. stack' \in Seq(Frames) /\ Single(stack')
    BY <1>1, <1>3, <2>1, <2>2, PushFacts, PushSingle
  <2>4. \A x : OnSeq(stack', x) <=> x = IdleFrame(c) \/ OnSeq(stack, x)
    BY <1>1, <1>3, <2>1, PushOn
  <2> QED BY <1>3, <2>3, <2>4
<1> QED BY <1>2, <1>3 DEF Stopping

\* The invariant in terms of OnSeq, for the next state.
LEMMA NextFromStack ==
    ASSUME TypeOK', Single(stack'), Slots',
           \A c \in Ctxs : OnSeq(stack', IdleFrame(c)) => state'[c] = "idle",
           \A f \in Fibers : OnSeq(stack', FiberFrame(f)) => at'[f] = "running",
           \A c \in Ctxs :
             c \in registry' <=> \/ state'[c] \in {"starting", "running", "stopping"}
                                 \/ OnSeq(stack', IdleFrame(c))
    PROVE  IInv'
<1>1. \A c \in Ctxs : OnStack(IdleFrame(c))' <=> OnSeq(stack', IdleFrame(c))
  BY DEF OnStack, OnSeq, IdleFrame
<1>2. \A f \in Fibers : OnStack(FiberFrame(f))' <=> OnSeq(stack', FiberFrame(f))
  BY DEF OnStack, OnSeq, FiberFrame
<1>3. StackOK'
  BY <1>1, <1>2 DEF StackOK
<1>4. RegistryMatches'
  BY <1>1 DEF RegistryMatches
<1> QED BY <1>3, <1>4 DEF IInv

\* The same facts about the present state.
LEMMA StackNow ==
    ASSUME IInv
    PROVE  /\ TypeOK /\ Slots
           /\ stack \in Seq(Frames) /\ Single(stack)
           /\ \A c \in Ctxs : OnSeq(stack, IdleFrame(c)) => state[c] = "idle"
           /\ \A f \in Fibers : OnSeq(stack, FiberFrame(f)) => at[f] = "running"
           /\ \A c \in Ctxs :
                c \in registry <=> \/ state[c] \in {"starting", "running", "stopping"}
                                   \/ OnSeq(stack, IdleFrame(c))
BY OnStackIsOnSeq DEF IInv, TypeOK, StackOK, RegistryMatches
-----------------------------------------------------------------------------
(* Every step keeps the invariant *)

\* A step of the running fiber f that suspends it on context c.
LEMMA SuspendKeeps ==
    ASSUME ContextConstants, IInv, NEW f \in Fibers, Runs(f), NEW what, NEW c,
           \/ what = "elsewhere" /\ c = None
           \/ what \in {"start", "stop", "data"} /\ c \in Ctxs,
           SuspendOn(f, what, c)
    PROVE  /\ at' \in [Fibers -> {"elsewhere", "running", "start", "stop", "data"}]
           /\ on' \in [Fibers -> Ctxs \cup {None}]
           /\ \A g \in Fibers : OnSeq(stack', FiberFrame(g)) => at'[g] = "running"
           /\ \A d \in Ctxs : OnSeq(stack', IdleFrame(d)) <=> OnSeq(stack, IdleFrame(d))
<1>1. /\ at' = [at EXCEPT ![f] = what]
      /\ on' = [on EXCEPT ![f] = c]
      /\ stack' = Tail(stack)
  BY DEF SuspendOn
<1>2. TypeOK /\ \A g \in Fibers : OnSeq(stack, FiberFrame(g)) => at[g] = "running"
  BY StackNow
<1>3. /\ ~OnSeq(stack', FiberFrame(f))
      /\ \A x : x # FiberFrame(f) => (OnSeq(stack', x) <=> OnSeq(stack, x))
  BY <1>1, SuspendStack
<1>4. \A g \in Fibers : OnSeq(stack', FiberFrame(g)) => at'[g] = "running"
  BY <1>1, <1>2, <1>3, FrameFacts DEF TypeOK
<1>5. \A d \in Ctxs : OnSeq(stack', IdleFrame(d)) <=> OnSeq(stack, IdleFrame(d))
  BY <1>3, FrameFacts
<1> QED BY <1>1, <1>2, <1>4, <1>5 DEF TypeOK

\* What stop_all works on keeps its type.
Loops ==
    [next : Ctxs \cup {None}, ahead : SUBSET Ctxs,
     found : SUBSET Ctxs, taken : BOOLEAN, intact : BOOLEAN]

\* An insertion in the table keeps it.
LEMMA InsertType ==
    ASSUME IInv, NEW c \in Ctxs, Insert(c)
    PROVE  registry' = registry \cup {c} /\ loop' \in Loops
<1>1. loop \in Loops /\ registry \in SUBSET Ctxs
  BY DEF IInv, TypeOK, Loops
<1>2. registry' = registry \cup {c} /\ registry' \in SUBSET Ctxs
  BY <1>1 DEF Insert
<1>3. CASE loop' = [loop EXCEPT !.ahead = @ \cup {c}]
  BY <1>1, <1>2, <1>3 DEF Loops
<1>4. ASSUME NEW ahead \in SUBSET (registry' \ {loop.next}),
             loop' = [loop EXCEPT !.ahead = IF loop.next = None THEN {} ELSE ahead,
                                  !.intact = FALSE]
      PROVE  loop' \in Loops
  BY <1>1, <1>2, <1>4 DEF Loops
<1> QED BY <1>1, <1>2, <1>3, <1>4 DEF Insert

\* So do a removal from it, and a step of the iterator.
LEMMA EraseType ==
    ASSUME IInv, NEW c \in Ctxs, Erase(c)
    PROVE  registry' = registry \ {c} /\ loop' \in Loops
<1>1. loop \in Loops
  BY DEF IInv, TypeOK, Loops
<1> QED BY <1>1 DEF Erase, Loops

\* ++next
LEMMA AdvancedType ==
    ASSUME IInv, NEW next \in Ctxs \cup {None}
    PROVE  Advanced(next) \in Loops
<1>1. loop \in Loops
  BY DEF IInv, TypeOK, Loops
<1> QED BY <1>1 DEF Advanced, Loops

\* create_context keeps the invariant.
LEMMA CreateKeeps ==
    ASSUME ContextConstants, IInv, NEW f \in Fibers, NEW c \in Ctxs, CreateContext(f, c)
    PROVE  IInv'
<1>0. /\ Runs(f) /\ state[c] = "none" /\ registry' = registry \cup {c} /\ coroStop' = coroStop
      /\ loop' \in Loops
  BY InsertType DEF CreateContext
<1>1. CASE state' = [state EXCEPT ![c] = "running"] /\ UNCHANGED <<coroStart, at, on, stack>>
  <2>1. TypeOK'
    BY <1>0, <1>1, StackNow DEF TypeOK, Loops
  <2>2. Slots'
    BY <1>0, <1>1, StackNow DEF Slots, TypeOK
  <2> QED BY <1>0, <1>1, <2>1, <2>2, StackNow, NextFromStack DEF TypeOK
<1>2. CASE /\ state' = [state EXCEPT ![c] = "starting"]
           /\ coroStart' = [coroStart EXCEPT ![c] = f]
           /\ SuspendOn(f, "start", c)
  <2>1. /\ at' \in [Fibers -> {"elsewhere", "running", "start", "stop", "data"}]
        /\ on' \in [Fibers -> Ctxs \cup {None}]
        /\ \A g \in Fibers : OnSeq(stack', FiberFrame(g)) => at'[g] = "running"
        /\ \A d \in Ctxs : OnSeq(stack', IdleFrame(d)) <=> OnSeq(stack, IdleFrame(d))
    BY <1>0, <1>2, SuspendKeeps
  <2>2. stack' \in Seq(Frames) /\ Single(stack') /\ at[f] = "running"
    BY <1>0, <1>2, SuspendStack DEF SuspendOn
  <2>3. TypeOK'
    BY <1>0, <1>2, <2>1, <2>2, StackNow DEF TypeOK, Loops
  <2>4. Slots'
    <3>1. at' = [at EXCEPT ![f] = "start"] /\ on' = [on EXCEPT ![f] = c]
      BY <1>2 DEF SuspendOn
    <3> QED BY <1>0, <1>2, <2>2, <3>1, StackNow DEF Slots, TypeOK, ContextConstants
  <2> QED BY <1>0, <1>2, <2>1, <2>2, <2>3, <2>4, StackNow, NextFromStack DEF TypeOK
<1> QED BY <1>1, <1>2 DEF CreateContext

\* Stopping a context that runs or starts.
LEMMA StoppingKeeps ==
    ASSUME ContextConstants, IInv, NEW c \in Ctxs, Stoppable(c), Stopping(c),
           UNCHANGED <<registry, waiting>>, loop' \in Loops
    PROVE  IInv'
<1>0. UNCHANGED <<registry, coroStart, coroStop, at, on>>
  BY DEF waiting
<1>1. state[c] \in {"running", "starting"}
  BY DEF Stoppable
<1>2. /\ stack' \in Seq(Frames) /\ Single(stack')
      /\ \/ /\ state' = [state EXCEPT ![c] = "stopping"]
            /\ \A x : OnSeq(stack', x) <=> OnSeq(stack, x)
         \/ /\ state' = [state EXCEPT ![c] = "idle"]
            /\ \A x : OnSeq(stack', x) <=> x = IdleFrame(c) \/ OnSeq(stack, x)
  BY <1>1, StoppingStack
<1>3. TypeOK'
  BY <1>0, <1>2, StackNow DEF TypeOK, Loops
<1>4. Slots'
  BY <1>0, <1>1, <1>2, StackNow DEF Slots, TypeOK
<1>5. \A f \in Fibers : OnSeq(stack', FiberFrame(f)) <=> OnSeq(stack, FiberFrame(f))
  BY <1>2, FrameFacts
<1>6. CASE /\ state' = [state EXCEPT ![c] = "stopping"]
           /\ \A x : OnSeq(stack', x) <=> OnSeq(stack, x)
  BY <1>0, <1>1, <1>2, <1>3, <1>4, <1>5, <1>6, StackNow, NextFromStack DEF TypeOK
<1>7. CASE /\ state' = [state EXCEPT ![c] = "idle"]
           /\ \A x : OnSeq(stack', x) <=> x = IdleFrame(c) \/ OnSeq(stack, x)
  <2>1. \A d \in Ctxs : OnSeq(stack', IdleFrame(d)) <=> d = c \/ OnSeq(stack, IdleFrame(d))
    BY <1>7, FrameFacts
  <2> QED BY <1>0, <1>1, <1>2, <1>3, <1>4, <1>5, <1>7, <2>1, StackNow, NextFromStack DEF TypeOK
<1> QED BY <1>2, <1>6, <1>7

\* So does whatever else a running fiber does.
LEMMA FiberKeeps ==
    ASSUME ContextConstants, IInv, NEW f \in Fibers, NEW c,
           \/ c \in Ctxs /\ (StopContext(f, c) \/ AwaitStop(f, c) \/ AwaitData(f, c))
           \/ Leave(f)
    PROVE  IInv'
<1>1. CASE c \in Ctxs /\ StopContext(f, c)
  <2>1. loop' \in Loops
    <3>1. loop \in Loops /\ loop' = [loop EXCEPT !.taken = @ \/ c = loop.next]
      BY <1>1, StackNow DEF StopContext, TypeOK, Loops
    <3> QED BY <3>1 DEF Loops
  <2> QED BY Zenon, <1>1, <2>1, StoppingKeeps DEF StopContext
<1>2. ASSUME NEW what, NEW d, SuspendOn(f, what, d), Runs(f),
             \/ what = "elsewhere" /\ d = None
             \/ what \in {"stop", "data"} /\ d \in Ctxs,
             UNCHANGED <<state, registry, coroStart, loop>>,
             coroStop' \in [Ctxs -> Fibers \cup {None}], Slots'
      PROVE  IInv'
  <2>1. /\ at' \in [Fibers -> {"elsewhere", "running", "start", "stop", "data"}]
        /\ on' \in [Fibers -> Ctxs \cup {None}]
        /\ \A g \in Fibers : OnSeq(stack', FiberFrame(g)) => at'[g] = "running"
        /\ \A k \in Ctxs : OnSeq(stack', IdleFrame(k)) <=> OnSeq(stack, IdleFrame(k))
    BY <1>2, SuspendKeeps
  <2>2. stack' \in Seq(Frames) /\ Single(stack')
    BY <1>2, SuspendStack DEF SuspendOn
  <2>3. TypeOK'
    BY <1>2, <2>1, <2>2, StackNow DEF TypeOK
  <2> QED BY <1>2, <2>1, <2>2, <2>3, StackNow, NextFromStack
<1>3. ASSUME Runs(f) PROVE at[f] = "running"
  <2>1. OnSeq(stack, FiberFrame(f))
    BY <1>3, StackNow, PopOn DEF Runs
  <2> QED BY <2>1, StackNow
<1>4. CASE c \in Ctxs /\ AwaitStop(f, c)
  <2>1. /\ SuspendOn(f, "stop", c) /\ Runs(f) /\ UNCHANGED <<state, registry, coroStart, loop>>
        /\ coroStop' = [coroStop EXCEPT ![c] = f] /\ state[c] = "stopping" /\ c \in Ctxs
    BY <1>4 DEF AwaitStop
  <2>2. at' = [at EXCEPT ![f] = "stop"] /\ on' = [on EXCEPT ![f] = c] /\ at[f] = "running"
    BY <1>3, <2>1 DEF SuspendOn
  <2>3. Slots'
    BY <2>1, <2>2, StackNow DEF Slots, TypeOK, ContextConstants
  <2>4. coroStop' \in [Ctxs -> Fibers \cup {None}]
    BY <2>1, StackNow DEF TypeOK
  <2> QED BY <1>2, <2>1, <2>3, <2>4
<1>5. CASE c \in Ctxs /\ AwaitData(f, c)
  <2>1. /\ SuspendOn(f, "data", c) /\ Runs(f) /\ UNCHANGED <<state, registry, coroStart, coroStop, loop>>
        /\ c \in Ctxs
    BY <1>5 DEF AwaitData
  <2>2. at' = [at EXCEPT ![f] = "data"] /\ on' = [on EXCEPT ![f] = c] /\ at[f] = "running"
    BY <1>3, <2>1 DEF SuspendOn
  <2>3. Slots'
    BY <2>1, <2>2, StackNow DEF Slots, TypeOK
  <2>4. coroStop' \in [Ctxs -> Fibers \cup {None}]
    BY <2>1, StackNow DEF TypeOK
  <2> QED BY <1>2, <2>1, <2>3, <2>4
<1>6. CASE Leave(f)
  <2>1. /\ SuspendOn(f, "elsewhere", None) /\ Runs(f) /\ UNCHANGED <<state, registry, coroStart, coroStop, loop>>
    BY <1>6 DEF Leave
  <2>2. at' = [at EXCEPT ![f] = "elsewhere"] /\ on' = [on EXCEPT ![f] = None] /\ at[f] = "running"
    BY <1>3, <2>1 DEF SuspendOn
  <2>3. Slots'
    BY <2>1, <2>2, StackNow DEF Slots, TypeOK
  <2>4. coroStop' \in [Ctxs -> Fibers \cup {None}]
    BY <2>1, StackNow DEF TypeOK
  <2> QED BY <1>2, <2>1, <2>3, <2>4
<1> QED BY <1>1, <1>4, <1>5, <1>6

\* A step that only puts or takes frames other than fibers and callbacks.
LEMMA LoopKeeps ==
    ASSUME IInv, UNCHANGED <<state, registry, waiting>>, loop' \in Loops,
           stack' \in Seq(Frames), Single(stack'),
           \A x : x.op \in {"fiber", "idle"} => (OnSeq(stack', x) <=> OnSeq(stack, x))
    PROVE  IInv'
<1>1. TypeOK' /\ Slots'
  BY StackNow DEF TypeOK, Slots, Loops, waiting
<1>2. \A c \in Ctxs : OnSeq(stack', IdleFrame(c)) <=> OnSeq(stack, IdleFrame(c))
  BY FrameFacts
<1>3. \A f \in Fibers : OnSeq(stack', FiberFrame(f)) <=> OnSeq(stack, FiberFrame(f))
  BY FrameFacts
<1> QED BY <1>1, <1>2, <1>3, StackNow, NextFromStack DEF waiting

\* begin() is a context or the end iterator.
LEMMA FirstType == \A kids \in SUBSET Ctxs : First(kids) \subseteq kids \cup {None}
BY DEF First

\* stop_all keeps it, in each of its rounds.
LEMMA StopAllKeeps ==
    ASSUME ContextConstants, IInv, StopAll \/ StopAllRound \/ StopAllAstray \/ StopAllEnd
    PROVE  IInv'
<1>0. /\ stack \in Seq(Frames) /\ Single(stack) /\ registry \in SUBSET Ctxs
      /\ loop \in Loops /\ loop.ahead \in SUBSET Ctxs
  BY StackNow DEF TypeOK, Loops
<1>1. ASSUME NEW e \in {LoopFrame, CrashFrame}, stack' = <<e>> \o stack, loop' \in Loops,
             e = LoopFrame => ~OnSeq(stack, e), UNCHANGED <<state, registry, waiting>>
      PROVE  IInv'
  <2>1. e \in Frames /\ e.op \notin {"fiber", "idle"} /\ (e = LoopFrame \/ e.op = "crash")
    BY <1>1, FrameFacts
  <2>2. stack' \in Seq(Frames) /\ Single(stack')
    BY <1>0, <1>1, <2>1, PushFacts, PushSingle
  <2>3. \A x : x.op \in {"fiber", "idle"} => (OnSeq(stack', x) <=> OnSeq(stack, x))
    BY <1>0, <1>1, <2>1, PushOn
  <2> QED BY <1>1, <2>2, <2>3, LoopKeeps
<1>2. CASE StopAll
  <2>1. PICK next \in First(registry) : loop' = LoopFrom(next, registry \ {next}, registry)
    BY <1>2 DEF StopAll
  <2>2. next \in Ctxs \cup {None}
    BY <1>0, <2>1, FirstType
  <2>3. loop' \in Loops
    BY <1>0, <2>1, <2>2 DEF LoopFrom, Loops
  <2>4. ~OnSeq(stack, LoopFrame)
    BY <1>2, OnStackIsOnSeq DEF StopAll, Looping
  <2> QED BY <1>1, <1>2, <2>3, <2>4 DEF StopAll
<1>3. CASE StopAllRound
  <2>1. PICK next \in First(loop.ahead) : loop' = Advanced(next)
    BY <1>3 DEF StopAllRound
  <2>2. next \in Ctxs \cup {None}
    BY <1>0, <2>1, FirstType
  <2>3. loop' \in Loops
    BY <2>1, <2>2, AdvancedType
  <2>4. loop.next \in Ctxs /\ UNCHANGED <<registry, waiting>>
    BY <1>0, <1>3 DEF StopAllRound
  <2>5. CASE Stoppable(loop.next)
    BY <1>3, <2>3, <2>4, <2>5, StoppingKeeps DEF StopAllRound
  <2>6. CASE ~Stoppable(loop.next)
    BY <1>0, <1>3, <2>3, <2>4, <2>6, LoopKeeps DEF StopAllRound
  <2> QED BY <2>5, <2>6
<1>4. CASE StopAllAstray
  <2>1. UNCHANGED <<state, registry, waiting>>
    BY <1>4 DEF StopAllAstray
  <2>2. ASSUME NEW next \in registry \cup {None}, NEW ahead \in SUBSET registry,
               loop' = [Advanced(next) EXCEPT !.ahead = IF next = None THEN {} ELSE ahead \ {next},
                                              !.intact = FALSE],
               stack' = stack
        PROVE  IInv'
    <3>1. Advanced(next) \in Loops
      BY <1>0, AdvancedType
    <3>2. loop' \in Loops
      BY <1>0, <2>2, <3>1 DEF Loops
    <3> QED BY <1>0, <2>1, <2>2, <3>2, LoopKeeps
  <2>3. CASE stack' = <<CrashFrame>> \o stack /\ loop' = loop
    <3>1. CrashFrame # LoopFrame
      BY DEF CrashFrame, LoopFrame
    <3> QED BY <1>0, <1>1, <2>1, <2>3, <3>1
  <2> QED BY <1>4, <2>2, <2>3 DEF StopAllAstray
<1>5. CASE StopAllEnd
  <2>1. /\ stack # <<>> /\ Head(stack) = LoopFrame /\ stack' = Tail(stack)
        /\ loop' = LoopFrom(None, {}, {}) /\ UNCHANGED <<state, registry, waiting>>
    BY <1>5 DEF StopAllEnd
  <2>2. loop' \in Loops
    BY <2>1 DEF LoopFrom, Loops
  <2>3. stack' \in Seq(Frames) /\ Single(stack')
    BY <1>0, <2>1, PopFacts, PopSingle
  <2>4. \A x : x.op \in {"fiber", "idle"} => (OnSeq(stack', x) <=> OnSeq(stack, x))
    BY <1>0, <2>1, PopOn, FrameFacts
  <2> QED BY <2>1, <2>2, <2>3, <2>4, LoopKeeps
<1> QED BY <1>2, <1>3, <1>4, <1>5

\* A step that resumes f on top of below and changes no context.
LEMMA WakeKeeps ==
    ASSUME IInv, NEW f \in Fibers, at[f] \in {"data", "elsewhere"}, ResumeOn(f, stack),
           UNCHANGED <<state, registry, coroStart, coroStop, loop>>
    PROVE  IInv'
<1>0. /\ at' = [at EXCEPT ![f] = "running"] /\ on' = [on EXCEPT ![f] = None]
  BY DEF ResumeOn
<1>1. ~OnSeq(stack, FiberFrame(f)) /\ stack \in Seq(Frames) /\ Single(stack)
  BY StackNow
<1>2. /\ stack' \in Seq(Frames) /\ Single(stack')
      /\ \A x : OnSeq(stack', x) <=> x = FiberFrame(f) \/ OnSeq(stack, x)
  BY <1>1, ResumeStack
<1>3. TypeOK'
  BY <1>0, <1>2, StackNow DEF TypeOK
<1>4. Slots'
  BY <1>0, StackNow DEF Slots, TypeOK
<1>5. \A c \in Ctxs : OnSeq(stack', IdleFrame(c)) <=> OnSeq(stack, IdleFrame(c))
  BY <1>2, FrameFacts
<1>6. \A g \in Fibers : OnSeq(stack', FiberFrame(g)) => at'[g] = "running"
  BY <1>0, <1>2, StackNow, FrameFacts DEF TypeOK
<1> QED BY <1>2, <1>3, <1>4, <1>5, <1>6, StackNow, NextFromStack

\* signal_stopped_child and the resumption of coro_stop_ keep it.
LEMMA SignalKeeps ==
    ASSUME ContextConstants, IInv, NEW c \in Ctxs, SignalStopped(c)
    PROVE  IInv'
<1>0. stack \in Seq(Frames) /\ Single(stack) /\ stack # <<>> /\ Head(stack) = IdleFrame(c)
  BY StackNow DEF SignalStopped
<1>1. /\ Tail(stack) \in Seq(Frames) /\ Single(Tail(stack))
      /\ ~OnSeq(Tail(stack), IdleFrame(c))
      /\ \A x : OnSeq(stack, x) <=> x = IdleFrame(c) \/ OnSeq(Tail(stack), x)
  <2>1. Head(stack).op # "crash"
    BY <1>0, FrameFacts
  <2>2. Tail(stack) \in Seq(Frames)
    BY <1>0, PopFacts
  <2>3. Single(Tail(stack)) /\ ~OnSeq(Tail(stack), IdleFrame(c))
    BY <1>0, <2>1, PopSingle
  <2>4. \A x : OnSeq(stack, x) <=> x = IdleFrame(c) \/ OnSeq(Tail(stack), x)
    BY <1>0, PopOn
  <2> QED BY <2>2, <2>3, <2>4
<1>2. state[c] = "idle"
  BY <1>1, StackNow
<1>3. /\ registry' = registry \ {c} /\ UNCHANGED <<state, coroStart>>
      /\ coroStop' = [coroStop EXCEPT ![c] = None] /\ loop' \in Loops
  BY EraseType DEF SignalStopped
<1>4. \A d \in Ctxs : OnSeq(Tail(stack), IdleFrame(d)) <=> d # c /\ OnSeq(stack, IdleFrame(d))
  BY <1>1, FrameFacts
<1>5. CASE coroStop[c] # None
  <2> DEFINE f == coroStop[c]
  <2>1. f \in Fibers /\ at[f] = "stop" /\ on[f] = c
    BY <1>5, StackNow DEF TypeOK, Slots
  <2>2. ResumeOn(f, Tail(stack))
    BY <1>5 DEF SignalStopped
  <2> HIDE DEF f
  <2>3. ~OnSeq(Tail(stack), FiberFrame(f))
    BY <1>1, <2>1, StackNow
  <2>4. /\ stack' \in Seq(Frames) /\ Single(stack')
        /\ \A x : OnSeq(stack', x) <=> x = FiberFrame(f) \/ OnSeq(Tail(stack), x)
    BY Zenon, <1>1, <2>1, <2>2, <2>3, ResumeStack
  <2>5. at' = [at EXCEPT ![f] = "running"] /\ on' = [on EXCEPT ![f] = None]
    BY <2>2 DEF ResumeOn
  <2>6. TypeOK'
    BY Zenon, <1>3, <2>4, <2>5, StackNow DEF TypeOK, Loops
  <2>7. Slots'
    BY <1>3, <2>1, <2>5, StackNow DEF Slots, TypeOK, f
  <2>8. \A d \in Ctxs : OnSeq(stack', IdleFrame(d)) <=> OnSeq(Tail(stack), IdleFrame(d))
    BY <2>1, <2>4, FrameFacts
  <2>9. \A g \in Fibers : OnSeq(stack', FiberFrame(g)) => at'[g] = "running"
    BY <1>1, <2>1, <2>4, <2>5, StackNow, FrameFacts DEF TypeOK
  <2> QED BY <1>2, <1>3, <1>4, <2>4, <2>6, <2>7, <2>8, <2>9, StackNow, NextFromStack
<1>6. CASE coroStop[c] = None
  <2>1. stack' = Tail(stack) /\ UNCHANGED <<at, on>>
    BY <1>6 DEF SignalStopped
  <2>2. TypeOK'
    BY <1>1, <1>3, <2>1, StackNow DEF TypeOK, Loops
  <2>3. Slots'
    BY <1>3, <2>1, StackNow DEF Slots, TypeOK
  <2> QED BY <1>1, <1>2, <1>3, <1>4, <2>1, <2>2, <2>3, StackNow, NextFromStack
<1> QED BY <1>5, <1>6

\* The change to RUNNING keeps it.
LEMMA StartedKeeps ==
    ASSUME ContextConstants, IInv, NEW c \in Ctxs, Started(c)
    PROVE  IInv'
<1>0. /\ stack = <<>> /\ state[c] = "starting" /\ state' = [state EXCEPT ![c] = "running"]
      /\ coroStart' = [coroStart EXCEPT ![c] = None] /\ UNCHANGED <<registry, coroStop, loop>>
  BY DEF Started
<1>1. /\ stack \in Seq(Frames) /\ Single(stack) /\ \A x : ~OnSeq(stack, x)
  BY <1>0, StackNow DEF OnSeq
<1>2. CASE coroStart[c] # None
  <2> DEFINE f == coroStart[c]
  <2>1. f \in Fibers /\ at[f] = "start" /\ on[f] = c
    BY <1>2, StackNow DEF TypeOK, Slots
  <2>2. ResumeOn(f, stack)
    BY <1>0, <1>2 DEF Started
  <2> HIDE DEF f
  <2>3. /\ stack' \in Seq(Frames) /\ Single(stack')
        /\ \A x : OnSeq(stack', x) <=> x = FiberFrame(f)
    BY <1>1, <2>1, <2>2, ResumeStack
  <2>4. at' = [at EXCEPT ![f] = "running"] /\ on' = [on EXCEPT ![f] = None]
    BY <2>2 DEF ResumeOn
  <2>5. TypeOK'
    BY Zenon, <1>0, <2>3, <2>4, StackNow DEF TypeOK
  <2>6. Slots'
    BY <1>0, <2>1, <2>4, StackNow DEF Slots, TypeOK, f
  <2>7. \A d \in Ctxs : ~OnSeq(stack', IdleFrame(d))
    BY ZenonT(60), <2>1, <2>3, FrameFacts
  <2>8. \A g \in Fibers : OnSeq(stack', FiberFrame(g)) => at'[g] = "running"
    BY <2>1, <2>3, <2>4, StackNow, FrameFacts DEF TypeOK
  <2> QED BY <1>0, <1>1, <2>3, <2>5, <2>6, <2>7, <2>8, StackNow, NextFromStack DEF TypeOK
<1>3. CASE coroStart[c] = None
  <2>1. UNCHANGED <<at, on, stack>>
    BY <1>3 DEF Started
  <2>2. TypeOK'
    BY <1>0, <2>1, StackNow DEF TypeOK
  <2>3. Slots'
    BY <1>0, <1>3, <2>1, StackNow DEF Slots, TypeOK
  <2> QED BY <1>0, <1>1, <2>1, <2>2, <2>3, StackNow, NextFromStack DEF TypeOK
<1> QED BY <1>2, <1>3

\* The change to IDLE keeps it.
LEMMA StoppedKeeps ==
    ASSUME ContextConstants, IInv, NEW c \in Ctxs, Stopped(c)
    PROVE  IInv'
<1>0. /\ stack = <<>> /\ state[c] \in {"starting", "stopping"}
      /\ state' = [state EXCEPT ![c] = "idle"] /\ stack' = <<IdleFrame(c)>>
      /\ UNCHANGED <<registry, coroStart, coroStop, at, on, loop>>
  BY DEF Stopped, waiting
<1>1. \A x : ~OnSeq(stack, x)
  BY <1>0, StackNow DEF OnSeq
<1>2. IdleFrame(c) \in Frames
  BY FrameFacts
<1>3. stack' \in Seq(Frames) /\ DOMAIN stack' = {1} /\ stack'[1] = IdleFrame(c)
  BY <1>0, <1>2
<1>4. Single(stack') /\ \A x : OnSeq(stack', x) <=> x = IdleFrame(c)
  BY <1>3 DEF Single, OnSeq
<1>5. TypeOK'
  BY <1>0, <1>3, StackNow DEF TypeOK
<1>6. Slots'
  BY <1>0, StackNow DEF Slots, TypeOK
<1>7. \A d \in Ctxs : OnSeq(stack', IdleFrame(d)) <=> d = c
  <2>1. \A d \in Ctxs : IdleFrame(d) = IdleFrame(c) => d = c
    BY DEF IdleFrame
  <2> QED BY <1>4, <2>1
<1>8. \A g \in Fibers : ~OnSeq(stack', FiberFrame(g))
  <2>1. \A g \in Fibers : FiberFrame(g) # IdleFrame(c)
    BY DEF FiberFrame, IdleFrame
  <2> QED BY <1>4, <2>1
<1> QED BY <1>0, <1>1, <1>4, <1>5, <1>6, <1>7, <1>8, StackNow, NextFromStack DEF TypeOK

\* One case per action.
LEMMA NextIInv ==
    ASSUME ContextConstants, IInv, [Next]_vars
    PROVE  IInv'
<1>1. ASSUME NEW f \in Fibers, WakeDataAwaiter(f) \/ Wake(f) PROVE IInv'
  BY <1>1, WakeKeeps DEF WakeDataAwaiter, Wake
<1>2. ASSUME UNCHANGED vars PROVE IInv'
  BY <1>2, LoopKeeps, StackNow DEF vars, waiting, TypeOK, Loops
<1> QED BY <1>1, <1>2, CreateKeeps, FiberKeeps, StopAllKeeps, SignalKeeps, StartedKeeps,
           StoppedKeeps DEF Next, Callbacks
\* The inductive invariant, for the theorems below.
THEOREM Invariant == Spec => []IInv
<1>1. Init => IInv
  BY InitIInv
<1>2. IInv /\ [Next]_vars => IInv'
  BY NextIInv, ContextConstants
<1> QED BY <1>1, <1>2, PTL DEF Spec

\* The state of contexts, fibers and stack keeps its types.
THEOREM TypeCorrect == Spec => []TypeOK
<1>1. IInv => TypeOK
  BY DEF IInv
<1> QED BY <1>1, Invariant, PTL

\* The registry holds the contexts that are not idle, and those whose callback
\* has yet to take them out.
THEOREM RegistryCorrect == Spec => []RegistryMatches
<1>1. IInv => RegistryMatches
  BY DEF IInv
<1> QED BY <1>1, Invariant, PTL

-----------------------------------------------------------------------------
(* Awaiters *)

\* With one waiter per stop, it is the one in the slot.
StopSlots ==
    \A f \in Fibers : at[f] = "stop" /\ on[f] \notin SharedStop =>
        /\ coroStop[on[f]] = f
        /\ state[on[f]] = "stopping" \/ OnSeq(stack, IdleFrame(on[f]))

\* A context leaves the registry in signal_stopped_child only, and does not
\* come back from where it goes.
LEMMA OneWay ==
    ASSUME ContextConstants, IInv, [Next]_vars, NEW c \in Ctxs
    PROVE  /\ c \in registry /\ ~SignalStopped(c) => c \in registry'
           /\ state[c] = "idle" => state'[c] = "idle"
           /\ state[c] = "stopping" => state'[c] \in {"stopping", "idle"}
           /\ state[c] = "starting" => \/ state'[c] = "starting"
                                       \/ state'[c] = "running" /\ Started(c)
                                       \/ c \in StartMayEnd /\ state'[c] \in {"stopping", "idle"}
<1>0. TypeOK
  BY DEF IInv
<1>1. ASSUME NEW f \in Fibers, NEW d \in Ctxs, CreateContext(f, d)
      PROVE  registry \subseteq registry' /\ (state'[c] = state[c] \/ state[c] = "none")
  BY <1>0, <1>1, InsertType DEF CreateContext, TypeOK
<1>2. ASSUME NEW d \in Ctxs, Stoppable(d), Stopping(d)
      PROVE  \/ state'[c] = state[c]
             \/ /\ state'[c] \in {"stopping", "idle"}
                /\ state[c] = "running" \/ (state[c] = "starting" /\ c \in StartMayEnd)
  BY <1>0, <1>2 DEF Stopping, Stoppable, TypeOK
<1>3. ASSUME NEW f \in Fibers, NEW d \in Ctxs, StopContext(f, d)
      PROVE  /\ registry' = registry
             /\ \/ state'[c] = state[c]
                \/ /\ state'[c] \in {"stopping", "idle"}
                   /\ state[c] = "running" \/ (state[c] = "starting" /\ c \in StartMayEnd)
  BY <1>2, <1>3 DEF StopContext
<1>4. ASSUME StopAllRound
      PROVE  /\ registry' = registry
             /\ \/ state'[c] = state[c]
                \/ /\ state'[c] \in {"stopping", "idle"}
                   /\ state[c] = "running" \/ (state[c] = "starting" /\ c \in StartMayEnd)
  BY Zenon, <1>0, <1>2, <1>4 DEF StopAllRound, TypeOK
<1>5. ASSUME \/ StopAll \/ StopAllAstray \/ StopAllEnd \/ UNCHANGED vars
             \/ \E f \in Fibers : \/ Leave(f) \/ Wake(f) \/ WakeDataAwaiter(f)
                                  \/ \E d \in Ctxs : AwaitStop(f, d) \/ AwaitData(f, d)
      PROVE  registry' = registry /\ state' = state
  BY <1>5 DEF StopAll, StopAllAstray, StopAllEnd, vars, Leave, Wake, WakeDataAwaiter, AwaitStop, AwaitData
<1>6. ASSUME NEW d \in Ctxs, SignalStopped(d)
      PROVE  (c # d => (c \in registry => c \in registry')) /\ state' = state
  BY <1>6, EraseType DEF SignalStopped
<1>7. ASSUME NEW d \in Ctxs, Started(d)
      PROVE  registry' = registry /\ (c # d => state'[c] = state[c])
             /\ (c = d => state[c] = "starting" /\ state'[c] = "running")
  BY <1>0, <1>7 DEF Started, TypeOK
<1>8. ASSUME NEW d \in Ctxs, Stopped(d)
      PROVE  /\ registry' = registry
             /\ \/ state'[c] = state[c]
                \/ /\ state'[c] = "idle"
                   /\ state[c] = "stopping" \/ (state[c] = "starting" /\ c \in StartMayEnd)
  BY <1>0, <1>8 DEF Stopped, TypeOK
<1>9. CASE \E f \in Fibers : \E d \in Ctxs : CreateContext(f, d)
  BY <1>1, <1>9
<1>10. CASE \E f \in Fibers : \E d \in Ctxs : StopContext(f, d)
  BY <1>3, <1>10
<1>11. CASE \E d \in Ctxs : SignalStopped(d)
  BY <1>6, <1>11
<1>12. CASE \E d \in Ctxs : Started(d)
  BY <1>7, <1>12
<1>13. CASE \E d \in Ctxs : Stopped(d)
  BY <1>8, <1>13
<1> QED BY <1>4, <1>5, <1>9, <1>10, <1>11, <1>12, <1>13 DEF Next, Callbacks

\* So the callback of an idle context stays on the stack until it has signalled.
LEMMA CallbackStays ==
    ASSUME ContextConstants, IInv, [Next]_vars, NEW c \in Ctxs, ~SignalStopped(c),
           state[c] = "stopping" \/ OnSeq(stack, IdleFrame(c))
    PROVE  state'[c] = "stopping" \/ OnSeq(stack', IdleFrame(c))
<1>1. c \in registry /\ state[c] \in {"stopping", "idle"}
  BY StackNow
<1>2. c \in registry' /\ state'[c] \in {"stopping", "idle"}
  BY <1>1, OneWay
<1>3. IInv'
  BY NextIInv
<1>4. OnStack(IdleFrame(c))' <=> OnSeq(stack', IdleFrame(c))
  BY DEF OnStack, OnSeq, IdleFrame
<1> QED BY <1>2, <1>3, <1>4 DEF IInv, RegistryMatches

\* With one stop waiter per context, every fiber that waits for a stop is the
\* one its context remembers.
LEMMA NextStopSlots ==
    ASSUME ContextConstants, IInv, StopSlots, [Next]_vars
    PROVE  StopSlots'
<1>0. TypeOK /\ Slots
  BY DEF IInv
<1>1. SUFFICES ASSUME NEW f \in Fibers, at'[f] = "stop", on'[f] \notin SharedStop
               PROVE  /\ coroStop'[on'[f]] = f
                      /\ state'[on'[f]] = "stopping" \/ OnSeq(stack', IdleFrame(on'[f]))
  BY DEF StopSlots, OnSeq, IdleFrame
<1>2. ASSUME at[f] = "stop", on'[f] = on[f], coroStop'[on[f]] = coroStop[on[f]],
             ~SignalStopped(on[f])
      PROVE  /\ coroStop'[on'[f]] = f
             /\ state'[on'[f]] = "stopping" \/ OnSeq(stack', IdleFrame(on'[f]))
  <2>1. on[f] \in Ctxs
    BY <1>0, <1>2 DEF Slots
  <2> QED BY Zenon, <1>1, <1>2, <2>1, CallbackStays DEF StopSlots
<1>3. CASE \E c \in Ctxs : SignalStopped(c)
  <2>1. PICK c \in Ctxs : SignalStopped(c)
    BY <1>3
  <2>2. coroStop' = [coroStop EXCEPT ![c] = None] /\ stack # <<>> /\ Head(stack) = IdleFrame(c)
    BY <2>1 DEF SignalStopped
  <2>3. /\ at[f] = "stop" /\ on'[f] = on[f]
        /\ coroStop[c] # None => f # coroStop[c]
    BY <1>0, <1>1, <2>1 DEF SignalStopped, ResumeOn, TypeOK
  <2>4. coroStop[on[f]] = f /\ on[f] \in Ctxs
    BY <1>0, <1>1, <2>3 DEF StopSlots, Slots
  <2>5. on[f] # c
    BY <2>3, <2>4, ContextConstants DEF ContextConstants
  <2>6. ~SignalStopped(on[f])
    <3>1. IdleFrame(on[f]) # IdleFrame(c)
      BY <2>4, <2>5 DEF IdleFrame
    <3> QED BY <2>2, <3>1 DEF SignalStopped
  <2>7. coroStop'[on[f]] = coroStop[on[f]]
    BY <1>0, <2>2, <2>4, <2>5 DEF TypeOK
  <2> QED BY <1>2, <2>3, <2>6, <2>7
<1>4. CASE \E g \in Fibers, c \in Ctxs : AwaitStop(g, c)
  <2>1. PICK g \in Fibers, c \in Ctxs : AwaitStop(g, c)
    BY <1>4
  <2>2. /\ c \in SharedStop \/ coroStop[c] = None
        /\ coroStop' = [coroStop EXCEPT ![c] = g]
        /\ at' = [at EXCEPT ![g] = "stop"] /\ on' = [on EXCEPT ![g] = c]
        /\ state[c] = "stopping" /\ state' = state
    BY <2>1 DEF AwaitStop, SuspendOn
  <2>3. CASE f = g
    BY <1>0, <2>2, <2>3 DEF TypeOK
  <2>4. CASE f # g
    <3>1. at[f] = "stop" /\ on'[f] = on[f]
      BY <1>0, <1>1, <2>2, <2>4 DEF TypeOK
    <3>2. on[f] # c /\ on[f] \in Ctxs
      BY <1>0, <1>1, <2>2, <3>1, ContextConstants DEF StopSlots, Slots, ContextConstants
    <3>3. coroStop'[on[f]] = coroStop[on[f]]
      BY <1>0, <2>2, <3>2 DEF TypeOK
    <3>4. ~SignalStopped(on[f])
      <4>1. Head(stack) = FiberFrame(g)
        BY <2>1 DEF AwaitStop, Runs
      <4>2. IdleFrame(on[f]) # FiberFrame(g)
        BY DEF IdleFrame, FiberFrame
      <4> QED BY <4>1, <4>2 DEF SignalStopped
    <3> QED BY <1>2, <3>1, <3>3, <3>4
  <2> QED BY <2>3, <2>4
<1>5. CASE /\ ~\E c \in Ctxs : SignalStopped(c)
           /\ ~\E g \in Fibers, c \in Ctxs : AwaitStop(g, c)
  <2>1. coroStop' = coroStop
    BY <1>5 DEF Next, Callbacks, CreateContext, StopContext, AwaitData, Leave, Wake, StopAll,
                StopAllRound, StopAllAstray, StopAllEnd, WakeDataAwaiter, Started, Stopped,
                vars, waiting
  <2>2. at[f] = "stop" /\ on'[f] = on[f]
    <3>1. ASSUME NEW g \in Fibers, NEW what, NEW c, what # "stop", SuspendOn(g, what, c)
          PROVE  at[f] = "stop" /\ on'[f] = on[f]
      BY <1>0, <1>1, <3>1 DEF SuspendOn, TypeOK
    <3>2. ASSUME NEW g \in Fibers, NEW below, ResumeOn(g, below)
          PROVE  at[f] = "stop" /\ on'[f] = on[f]
      BY <1>0, <1>1, <3>2 DEF ResumeOn, TypeOK
    <3>3. ASSUME UNCHANGED <<at, on>>
          PROVE  at[f] = "stop" /\ on'[f] = on[f]
      BY <1>1, <3>3
    <3>4. ASSUME NEW g \in Fibers, NEW c \in Ctxs, CreateContext(g, c)
          PROVE  at[f] = "stop" /\ on'[f] = on[f]
      BY <3>1, <3>3, <3>4 DEF CreateContext
    <3>5. ASSUME NEW g \in Fibers, NEW c \in Ctxs, AwaitData(g, c)
          PROVE  at[f] = "stop" /\ on'[f] = on[f]
      BY <3>1, <3>5 DEF AwaitData
    <3>6. ASSUME NEW g \in Fibers, Leave(g) \/ Wake(g) \/ WakeDataAwaiter(g)
          PROVE  at[f] = "stop" /\ on'[f] = on[f]
      BY <3>1, <3>2, <3>6 DEF Leave, Wake, WakeDataAwaiter
    <3>7. ASSUME NEW c \in Ctxs, Started(c)
          PROVE  at[f] = "stop" /\ on'[f] = on[f]
      BY <1>0, <3>2, <3>3, <3>7 DEF Started, TypeOK
    <3>8. ASSUME \/ StopAll \/ StopAllRound \/ StopAllAstray \/ StopAllEnd \/ UNCHANGED vars
                 \/ \E c \in Ctxs : Stopped(c) \/ \E g \in Fibers : StopContext(g, c)
          PROVE  at[f] = "stop" /\ on'[f] = on[f]
      BY <3>3, <3>8 DEF StopAll, StopAllRound, StopAllAstray, StopAllEnd, Stopped, StopContext,
                       vars, waiting
    <3> QED BY <1>5, <3>4, <3>5, <3>6, <3>7, <3>8 DEF Next, Callbacks
  <2>3. on[f] \in Ctxs
    BY <1>0, <2>2 DEF Slots
  <2> QED BY Zenon, <1>2, <1>5, <2>1, <2>2, <2>3
<1> QED BY Zenon, <1>3, <1>4, <1>5

\* If nobody else waits for the stop of the same context, a fiber in co_await
\* stop() is never left behind by a context that has become idle.
THEOREM StopAwaitersServed == Spec => []NoStopAwaiterLeft
<1>1. Init => StopSlots
  BY DEF Init, StopSlots
<1>2. IInv /\ StopSlots /\ [Next]_vars => StopSlots'
  BY NextStopSlots, ContextConstants
<1>3. StopSlots => NoStopAwaiterLeft
  BY OnStackIsOnSeq DEF StopSlots, NoStopAwaiterLeft
<1> QED BY <1>1, <1>2, <1>3, Invariant, PTL DEF Spec

\* With starts that come to run, no step leaves a start waiter behind.
LEMMA NextStart ==
    ASSUME ContextConstants, IInv, NoStartAwaiterLeft, [Next]_vars
    PROVE  NoStartAwaiterLeft'
<1>0. TypeOK /\ Slots
  BY DEF IInv
<1>1. SUFFICES ASSUME NEW f \in Fibers, at'[f] = "start", on'[f] \notin StartMayEnd
               PROVE  state'[on'[f]] = "starting"
  BY DEF NoStartAwaiterLeft
<1>2. CASE \E g \in Fibers, c \in Ctxs : CreateContext(g, c)
  <2>1. PICK g \in Fibers, c \in Ctxs : CreateContext(g, c)
    BY <1>2
  <2>2. CASE at[f] = "start" /\ on'[f] = on[f]
    <3>1. on[f] \in Ctxs /\ state[on[f]] = "starting"
      BY <1>0, <1>1, <2>2 DEF Slots, NoStartAwaiterLeft
    <3> QED BY SMTT(30), <1>0, <2>1, <2>2, <3>1 DEF CreateContext, TypeOK
  <2>3. CASE ~(at[f] = "start" /\ on'[f] = on[f])
    <3>1. f = g /\ on'[f] = c /\ state' = [state EXCEPT ![c] = "starting"]
      BY <1>0, <1>1, <2>1, <2>3 DEF CreateContext, SuspendOn, TypeOK
    <3> QED BY <1>0, <3>1 DEF TypeOK
  <2> QED BY <2>2, <2>3
<1>3. CASE ~\E g \in Fibers, c \in Ctxs : CreateContext(g, c)
  <2>1. at[f] = "start" /\ on'[f] = on[f]
    <3>1. ASSUME NEW g \in Fibers, NEW what, NEW c, what # "start", SuspendOn(g, what, c)
          PROVE  at[f] = "start" /\ on'[f] = on[f]
      BY <1>0, <1>1, <3>1 DEF SuspendOn, TypeOK
    <3>2. ASSUME NEW g \in Fibers, NEW below, ResumeOn(g, below)
          PROVE  at[f] = "start" /\ on'[f] = on[f]
      BY <1>0, <1>1, <3>2 DEF ResumeOn, TypeOK
    <3>3. ASSUME UNCHANGED <<at, on>>
          PROVE  at[f] = "start" /\ on'[f] = on[f]
      BY <1>1, <3>3
    <3>4. ASSUME NEW g \in Fibers, NEW c \in Ctxs, AwaitStop(g, c) \/ AwaitData(g, c)
          PROVE  at[f] = "start" /\ on'[f] = on[f]
      BY <3>1, <3>4 DEF AwaitStop, AwaitData
    <3>5. ASSUME NEW g \in Fibers, Leave(g) \/ Wake(g) \/ WakeDataAwaiter(g)
          PROVE  at[f] = "start" /\ on'[f] = on[f]
      BY <3>1, <3>2, <3>5 DEF Leave, Wake, WakeDataAwaiter
    <3>6. ASSUME NEW c \in Ctxs, Started(c) \/ SignalStopped(c)
          PROVE  at[f] = "start" /\ on'[f] = on[f]
      BY <1>0, <3>2, <3>3, <3>6 DEF Started, SignalStopped, TypeOK
    <3>7. ASSUME \/ StopAll \/ StopAllRound \/ StopAllAstray \/ StopAllEnd \/ UNCHANGED vars
                 \/ \E c \in Ctxs : Stopped(c) \/ \E g \in Fibers : StopContext(g, c)
          PROVE  at[f] = "start" /\ on'[f] = on[f]
      BY <3>3, <3>7 DEF StopAll, StopAllRound, StopAllAstray, StopAllEnd, Stopped, StopContext,
                       vars, waiting
    <3> QED BY <1>3, <3>4, <3>5, <3>6, <3>7 DEF Next, Callbacks
  <2>2. on[f] \in Ctxs /\ state[on[f]] = "starting" /\ coroStart[on[f]] = f
    BY <1>0, <1>1, <2>1 DEF Slots, NoStartAwaiterLeft
  <2>3. ~Started(on[f])
    BY <1>0, <1>1, <2>2, ContextConstants DEF Started, ResumeOn, TypeOK, ContextConstants
  <2> QED BY Zenon, <1>1, <2>1, <2>2, <2>3, OneWay
<1> QED BY <1>2, <1>3

\* If contexts that start come to run, a fiber in co_await create_context() is
\* never left behind.
THEOREM StartAwaitersServed == Spec => []NoStartAwaiterLeft
<1>1. Init => NoStartAwaiterLeft
  BY DEF Init, NoStartAwaiterLeft
<1>2. IInv /\ NoStartAwaiterLeft /\ [Next]_vars => NoStartAwaiterLeft'
  BY NextStart, ContextConstants
<1> QED BY <1>1, <1>2, Invariant, PTL DEF Spec
-----------------------------------------------------------------------------
(* stop_all *)

\* On stack s, the callback of c has been called from inside stop_all.
CalledBack(s, c) == \E i, j \in DOMAIN s : i < j /\ s[i] = IdleFrame(c) /\ s[j] = LoopFrame

\* What stop_all keeps true of its iterator, with stack s, registry reg and
\* context states st.  The lines, in order: ahead of the iterator are other
\* elements of the table; what it has found and where it points to have been
\* created; the callback of its element is called from inside the loop for a
\* fiber only, and so it is lost; and nobody is passed by.
LoopOK(s, reg, st, lp) ==
    /\ lp.next \notin lp.ahead /\ lp.ahead \subseteq reg
    /\ \A c \in lp.found : st[c] # "none"
    /\ lp.next # None => st[lp.next] # "none"
    /\ CalledBack(s, lp.next) => lp.taken
    /\ OnSeq(s, LoopFrame) => lp.next \in reg \cup {None} \/ lp.taken
    /\ OnSeq(s, LoopFrame) /\ lp.intact /\ lp.next \in reg \cup {None} =>
         \A c \in lp.found : st[c] = "running" => c = lp.next \/ c \in lp.ahead

LoopInv == LoopOK(stack, registry, state, loop)

\* Who is called back from inside stop_all, after a call.
LEMMA PushCalled ==
    ASSUME NEW s \in Seq(Frames), NEW e \in Frames, NEW c, CalledBack(<<e>> \o s, c)
    PROVE  CalledBack(s, c) \/ (e = IdleFrame(c) /\ OnSeq(s, LoopFrame))
<1> DEFINE t == <<e>> \o s
<1>0. DOMAIN t = 1..(Len(s) + 1) /\ DOMAIN s = 1..Len(s) /\ Len(s) \in Nat /\ t[1] = e
  BY PushFacts
<1>1. \A i \in 2..(Len(s) + 1) : t[i] = s[i - 1] /\ i - 1 \in DOMAIN s
  BY <1>0, PushFacts
<1>2. PICK i, j \in DOMAIN t : i < j /\ t[i] = IdleFrame(c) /\ t[j] = LoopFrame
  BY DEF CalledBack
<1> HIDE DEF t
<1>3. s[j - 1] = LoopFrame /\ j - 1 \in DOMAIN s
  BY <1>0, <1>1, <1>2
<1>4. CASE i = 1
  BY <1>0, <1>2, <1>3, <1>4 DEF OnSeq
<1>5. CASE i # 1
  <2>1. s[i - 1] = IdleFrame(c) /\ i - 1 \in DOMAIN s /\ i - 1 < j - 1
    BY <1>0, <1>1, <1>2, <1>5
  <2> QED BY <1>3, <2>1 DEF CalledBack
<1> QED BY <1>4, <1>5

\* And before a return.
LEMMA PopCalled ==
    ASSUME NEW s \in Seq(Frames), s # <<>>, NEW c,
           CalledBack(Tail(s), c) \/ (Head(s) = IdleFrame(c) /\ OnSeq(Tail(s), LoopFrame))
    PROVE  CalledBack(s, c)
<1> DEFINE t == Tail(s)
<1>0. /\ DOMAIN s = 1..Len(s) /\ Len(s) \in Nat /\ Len(s) >= 1
      /\ DOMAIN t = 1..(Len(s) - 1) /\ Head(s) = s[1] /\ 1 \in DOMAIN s
  BY PopFacts
<1>1. \A i \in DOMAIN t : t[i] = s[i + 1] /\ i + 1 \in DOMAIN s
  BY <1>0, PopFacts
<1>2. CASE CalledBack(t, c)
  <2>1. PICK i, j \in DOMAIN t : i < j /\ t[i] = IdleFrame(c) /\ t[j] = LoopFrame
    BY <1>2 DEF CalledBack
  <2>2. i + 1 < j + 1 /\ s[i + 1] = IdleFrame(c) /\ s[j + 1] = LoopFrame
    BY <1>0, <1>1, <2>1
  <2> QED BY <1>1, <2>2 DEF CalledBack
<1>3. CASE Head(s) = IdleFrame(c) /\ OnSeq(t, LoopFrame)
  <2>1. PICK j \in DOMAIN t : t[j] = LoopFrame
    BY <1>3 DEF OnSeq
  <2>2. 1 < j + 1 /\ s[1] = IdleFrame(c) /\ s[j + 1] = LoopFrame
    BY <1>0, <1>1, <1>3, <2>1
  <2> QED BY <1>0, <1>1, <2>2 DEF CalledBack
<1> QED BY <1>2, <1>3

\* Nobody is, when the loop itself has control, or there is none.
LEMMA NotCalled ==
    ASSUME NEW s \in Seq(Frames), Single(s), NEW c,
           (s # <<>> /\ Head(s) = LoopFrame) \/ ~OnSeq(s, LoopFrame)
    PROVE  ~CalledBack(s, c)
<1>1. SUFFICES ASSUME NEW i \in DOMAIN s, NEW j \in DOMAIN s, i < j, s[j] = LoopFrame
               PROVE  FALSE
  BY DEF CalledBack
<1>2. s # <<>> /\ Head(s) = LoopFrame
  BY <1>1 DEF OnSeq
<1>3. s[1] = LoopFrame /\ 1 \in DOMAIN s /\ LoopFrame.op # "crash"
  BY <1>2, PopFacts, FrameFacts
<1>4. j = 1
  BY <1>1, <1>3 DEF Single
<1> QED BY <1>1, <1>4

\* A step with the same loop: contexts may stop, the frame in front may return
\* and another be called that is no callback of the iterator's element.
LEMMA SameLoop ==
    ASSUME ContextConstants, IInv, LoopInv, UNCHANGED <<registry, loop>>,
           \A c \in Ctxs : state[c] # "none" =>
             state'[c] # "none" /\ (state'[c] = "running" => state[c] = "running"),
           \/ stack' = stack
           \/ stack # <<>> /\ stack' = Tail(stack)
           \/ \E e \in Frames : /\ stack' = <<e>> \o stack
                                /\ e # LoopFrame
                                /\ e = IdleFrame(loop.next) => loop.taken
    PROVE  LoopInv'
<1>0. /\ stack \in Seq(Frames) /\ LoopOK(stack, registry, state, loop)
      /\ loop.next \in Ctxs \cup {None} /\ loop.found \in SUBSET Ctxs
  BY DEF IInv, TypeOK, LoopInv
<1>1. /\ CalledBack(stack', loop.next) => CalledBack(stack, loop.next) \/ loop.taken
      /\ OnSeq(stack', LoopFrame) => OnSeq(stack, LoopFrame)
  <2>1. CASE stack' = stack
    BY <2>1
  <2>2. CASE stack # <<>> /\ stack' = Tail(stack)
    BY <1>0, <2>2, PopCalled, PopOn
  <2>3. ASSUME NEW e \in Frames, stack' = <<e>> \o stack, e # LoopFrame,
               e = IdleFrame(loop.next) => loop.taken
        PROVE  /\ CalledBack(stack', loop.next) => CalledBack(stack, loop.next) \/ loop.taken
               /\ OnSeq(stack', LoopFrame) => OnSeq(stack, LoopFrame)
    BY <1>0, <2>3, PushCalled, PushOn
  <2> QED BY <2>1, <2>2, <2>3
<1>2. LoopOK(stack', registry, state', loop)
  BY <1>0, <1>1 DEF LoopOK
<1> QED BY <1>2 DEF LoopInv

\* A context that is created inside the loop is not one that it has found, nor
\* where the iterator points to, wherever it is inserted.
LEMMA CreateLoop ==
    ASSUME ContextConstants, IInv, LoopInv, NEW f \in Fibers, NEW c \in Ctxs, CreateContext(f, c)
    PROVE  LoopInv'
<1>0. /\ TypeOK /\ stack \in Seq(Frames) /\ LoopOK(stack, registry, state, loop)
      /\ loop \in Loops /\ loop.next \in Ctxs \cup {None} /\ loop.found \in SUBSET Ctxs
  BY DEF IInv, TypeOK, LoopInv, Loops
<1>1. /\ registry' = registry \cup {c} /\ state[c] = "none" /\ stack # <<>>
      /\ \A d \in Ctxs : d # c => state'[d] = state[d]
  BY <1>0, InsertType DEF CreateContext, Runs, TypeOK
<1>2. c # loop.next /\ c \notin loop.found
  BY <1>0, <1>1, ContextConstants DEF LoopOK, ContextConstants
<1>3. /\ CalledBack(stack', loop.next) => CalledBack(stack, loop.next)
      /\ OnSeq(stack', LoopFrame) => OnSeq(stack, LoopFrame)
  <2>1. stack' = stack \/ stack' = Tail(stack)
    BY DEF CreateContext, SuspendOn
  <2>2. CASE stack' = Tail(stack)
    BY <1>0, <1>1, <2>2, PopCalled, PopOn
  <2> QED BY <2>1, <2>2
<1>4. CASE loop' = loop
  <2>1. LoopOK(stack', registry', state', loop)
    BY <1>0, <1>1, <1>2, <1>3, ContextConstants DEF LoopOK, ContextConstants
  <2> QED BY <1>4, <2>1 DEF LoopInv
<1>5. CASE loop' = [loop EXCEPT !.ahead = @ \cup {c}]
  <2>1. /\ loop'.next = loop.next /\ loop'.ahead = loop.ahead \cup {c}
        /\ loop'.found = loop.found /\ loop'.taken = loop.taken /\ loop'.intact = loop.intact
    BY <1>0, <1>5 DEF Loops
  <2>2. LoopOK(stack', registry', state', loop')
    BY <1>0, <1>1, <1>2, <1>3, <2>1, ContextConstants DEF LoopOK, ContextConstants
  <2> QED BY <2>2 DEF LoopInv
<1>6. ASSUME NEW ahead \in SUBSET (registry' \ {loop.next}),
             loop' = [loop EXCEPT !.ahead = IF loop.next = None THEN {} ELSE ahead,
                                  !.intact = FALSE]
      PROVE  LoopInv'
  <2>1. /\ loop'.next = loop.next /\ loop'.ahead \subseteq registry' \ {loop.next}
        /\ loop'.found = loop.found /\ loop'.taken = loop.taken /\ ~loop'.intact
    BY <1>0, <1>6 DEF Loops
  <2>2. LoopOK(stack', registry', state', loop')
    BY <1>0, <1>1, <1>2, <1>3, <2>1, ContextConstants DEF LoopOK, ContextConstants
  <2> QED BY <2>2 DEF LoopInv
<1> QED BY <1>4, <1>5, <1>6 DEF CreateContext, Insert

\* The states a stop leads to.
LEMMA StoppingStates ==
    ASSUME IInv, NEW c \in Ctxs, Stopping(c)
    PROVE  /\ state'[c] \in {"stopping", "idle"}
           /\ \A d \in Ctxs : d # c => state'[d] = state[d]
           /\ stack' = stack \/ stack' = <<IdleFrame(c)>> \o stack
BY DEF Stopping, IInv, TypeOK

\* A fiber that stops the iterator's element is remembered.
LEMMA StopLoop ==
    ASSUME ContextConstants, IInv, LoopInv, NEW f \in Fibers, NEW c \in Ctxs, StopContext(f, c)
    PROVE  LoopInv'
<1>0. /\ stack \in Seq(Frames) /\ LoopOK(stack, registry, state, loop)
      /\ loop \in Loops /\ loop.next \in Ctxs \cup {None} /\ loop.found \in SUBSET Ctxs
  BY DEF IInv, TypeOK, LoopInv, Loops
<1>1. /\ registry' = registry /\ Stopping(c) /\ state[c] # "none"
      /\ loop' = [loop EXCEPT !.taken = @ \/ c = loop.next]
  BY DEF StopContext, Stoppable
<1>2. /\ loop'.next = loop.next /\ loop'.ahead = loop.ahead /\ loop'.found = loop.found
      /\ loop'.intact = loop.intact /\ loop'.taken = (loop.taken \/ c = loop.next)
  BY <1>0, <1>1 DEF Loops
<1>3. /\ state'[c] \in {"stopping", "idle"}
      /\ \A d \in Ctxs : d # c => state'[d] = state[d]
      /\ stack' = stack \/ stack' = <<IdleFrame(c)>> \o stack
  BY <1>1, StoppingStates
<1>4. IdleFrame(c) \in Frames /\ IdleFrame(c) # LoopFrame
  BY FrameFacts
<1>5. /\ CalledBack(stack', loop.next) => CalledBack(stack, loop.next) \/ c = loop.next
      /\ OnSeq(stack', LoopFrame) => OnSeq(stack, LoopFrame)
  <2>1. IdleFrame(c) = IdleFrame(loop.next) => c = loop.next
    BY DEF IdleFrame
  <2>2. CASE stack' = <<IdleFrame(c)>> \o stack
    BY <1>0, <1>4, <2>1, <2>2, PushCalled, PushOn
  <2> QED BY <1>3, <2>2
<1>6. LoopOK(stack', registry', state', loop')
  BY <1>0, <1>1, <1>2, <1>3, <1>5 DEF LoopOK
<1> QED BY <1>6 DEF LoopInv

\* When stop_all begins, everything it has found is ahead.
LEMMA StopAllLoop ==
    ASSUME ContextConstants, IInv, LoopInv, StopAll
    PROVE  LoopInv'
<1>0. /\ stack \in Seq(Frames) /\ Single(stack) /\ registry \in SUBSET Ctxs
  BY StackNow DEF TypeOK
<1>1. PICK next \in First(registry) : loop' = LoopFrom(next, registry \ {next}, registry)
  BY DEF StopAll
<1>2. /\ loop'.next = next /\ loop'.ahead = registry \ {next} /\ loop'.found = registry
  BY <1>1 DEF LoopFrom
<1>3. /\ ~OnSeq(stack, LoopFrame) /\ registry' = registry /\ state' = state
      /\ stack' = <<LoopFrame>> \o stack
  BY OnStackIsOnSeq DEF StopAll, Looping
<1>4. next \in registry \cup {None}
  BY <1>0, <1>1, FirstType
<1>5. \A c \in registry : state[c] # "none"
  <2>1. \A c \in Ctxs : c \in registry => state[c] \in {"starting", "running", "stopping", "idle"}
    BY StackNow
  <2> QED BY <1>0, <2>1
<1>6. ~CalledBack(stack', next)
  <2>1. LoopFrame \in Frames /\ LoopFrame # IdleFrame(next)
    BY FrameFacts DEF LoopFrame, IdleFrame
  <2> QED BY <1>0, <1>3, <2>1, PushCalled, NotCalled
<1>7. LoopOK(stack', registry', state', loop')
  BY <1>2, <1>3, <1>4, <1>5, <1>6 DEF LoopOK
<1> QED BY <1>7 DEF LoopInv

\* A round of stop_all: the iterator moves past one context only, that one is
\* stopped, and its callback is not the callback of where the iterator is now.
LEMMA RoundLoop ==
    ASSUME ContextConstants, IInv, LoopInv, StopAllRound
    PROVE  LoopInv'
<1> DEFINE it == loop.next
<1>0. /\ TypeOK /\ stack \in Seq(Frames) /\ Single(stack) /\ registry \in SUBSET Ctxs
      /\ loop \in Loops /\ loop.ahead \in SUBSET Ctxs /\ loop.found \in SUBSET Ctxs
  BY StackNow DEF TypeOK, Loops
<1>1. LoopOK(stack, registry, state, loop)
  BY DEF LoopInv
<1>2. /\ stack # <<>> /\ Head(stack) = LoopFrame /\ it \in registry /\ registry' = registry
  BY DEF StopAllRound
<1>3. PICK next \in First(loop.ahead) : loop' = Advanced(next)
  BY DEF StopAllRound
<1>4. /\ loop'.next = next /\ loop'.ahead = loop.ahead \ {next} /\ loop'.found = loop.found
      /\ loop'.intact = loop.intact
  BY <1>0, <1>3 DEF Advanced, Loops
<1>5. /\ next \in loop.ahead \cup {None} /\ next \in registry \cup {None} /\ next # it
      /\ loop.ahead # {} => next \in loop.ahead
  BY <1>0, <1>1, <1>2, <1>3, ContextConstants DEF First, LoopOK, ContextConstants
<1>6. OnSeq(stack, LoopFrame) /\ \A c : ~CalledBack(stack, c)
  BY <1>0, <1>2, PopOn, NotCalled
<1>7. /\ \A d \in Ctxs : d # it => state'[d] = state[d]
      /\ state'[it] # "running" /\ (state[it] # "none" => state'[it] # "none")
      /\ stack' = stack \/ stack' = <<IdleFrame(it)>> \o stack
  <2>1. CASE Stoppable(it)
    <3>1. Stopping(it) /\ it \in Ctxs
      BY <1>0, <1>2, <2>1 DEF StopAllRound
    <3> QED BY <3>1, StoppingStates
  <2>2. CASE ~Stoppable(it)
    BY <2>2 DEF StopAllRound, Stoppable
  <2> QED BY <2>1, <2>2
<1>8. ~CalledBack(stack', next)
  <2>1. IdleFrame(it) # IdleFrame(next)
    BY <1>5 DEF IdleFrame
  <2>2. IdleFrame(it) \in Frames
    BY <1>0, <1>2, FrameFacts
  <2> QED BY <1>0, <1>6, <1>7, <2>1, <2>2, PushCalled
<1>9. \A c \in Ctxs : state[c] # "none" => state'[c] # "none"
  BY <1>7
<1>10. \A c \in registry : state[c] # "none"
  <2>1. \A c \in Ctxs : c \in registry => state[c] \in {"starting", "running", "stopping", "idle"}
    BY StackNow
  <2> QED BY <1>0, <2>1
<1>11. ASSUME loop.intact, NEW c \in loop.found, state'[c] = "running"
       PROVE  c = next \/ c \in loop.ahead \ {next}
  <2>1. c # it /\ state[c] = "running"
    BY <1>0, <1>7, <1>11
  <2>2. c \in loop.ahead
    BY <1>1, <1>2, <1>6, <1>11, <2>1 DEF LoopOK
  <2> QED BY <2>2
<1> HIDE DEF it
<1>12. /\ next \notin loop.ahead \ {next} /\ loop.ahead \ {next} \subseteq registry
       /\ \A c \in loop.found : state'[c] # "none"
       /\ next # None => state'[next] # "none"
  BY <1>0, <1>1, <1>5, <1>9, <1>10 DEF LoopOK
<1>13. LoopOK(stack', registry', state', loop')
  BY <1>2, <1>4, <1>5, <1>8, <1>11, <1>12 DEF LoopOK
<1> QED BY <1>13 DEF LoopInv

\* A stop_all whose element is lost goes on with an element of the table, but
\* not through the table as it was, or crashes.
LEMMA AstrayLoop ==
    ASSUME ContextConstants, IInv, LoopInv, StopAllAstray
    PROVE  LoopInv'
<1>0. /\ stack \in Seq(Frames) /\ Single(stack) /\ registry \in SUBSET Ctxs
      /\ loop \in Loops /\ loop.next \in Ctxs \cup {None}
  BY StackNow DEF TypeOK, Loops
<1>1. /\ stack # <<>> /\ Head(stack) = LoopFrame /\ registry' = registry /\ state' = state
  BY DEF StopAllAstray
<1>2. ASSUME NEW next \in registry \cup {None}, NEW ahead \in SUBSET registry,
             loop' = [Advanced(next) EXCEPT !.ahead = IF next = None THEN {} ELSE ahead \ {next},
                                            !.intact = FALSE],
             stack' = stack
      PROVE  LoopInv'
  <2>1. /\ loop'.next = next /\ loop'.ahead \subseteq registry \ {next}
        /\ loop'.found = loop.found /\ ~loop'.intact
    BY <1>0, <1>2 DEF Advanced, Loops
  <2>2. ~CalledBack(stack', next)
    BY <1>0, <1>1, <1>2, NotCalled
  <2>3. \A c \in registry : state[c] # "none"
    <3>1. \A c \in Ctxs : c \in registry => state[c] \in {"starting", "running", "stopping", "idle"}
      BY StackNow
    <3> QED BY <1>0, <3>1
  <2>4. LoopOK(stack', registry', state', loop')
    BY <1>1, <2>1, <2>2, <2>3 DEF LoopOK, LoopInv
  <2> QED BY <2>4 DEF LoopInv
<1>3. CASE stack' = <<CrashFrame>> \o stack /\ loop' = loop
  <2>1. CrashFrame \in Frames /\ CrashFrame # LoopFrame /\ CrashFrame # IdleFrame(loop.next)
    BY FrameFacts DEF CrashFrame, LoopFrame, IdleFrame
  <2> QED BY <1>1, <1>3, <2>1, SameLoop
<1> QED BY <1>2, <1>3 DEF StopAllAstray

\* When it ends, nothing is left to say.
LEMMA EndLoop ==
    ASSUME IInv, StopAllEnd
    PROVE  LoopInv'
<1>0. stack \in Seq(Frames) /\ Single(stack)
  BY StackNow
<1>1. /\ stack # <<>> /\ Head(stack) = LoopFrame /\ stack' = Tail(stack)
      /\ loop'.next = None /\ loop'.ahead = {} /\ loop'.found = {}
  BY DEF StopAllEnd, LoopFrom
<1>2. ~CalledBack(stack', None)
  BY <1>0, <1>1, PopCalled, NotCalled
<1>3. LoopOK(stack', registry', state', loop')
  BY <1>1, <1>2 DEF LoopOK
<1> QED BY <1>3 DEF LoopInv

\* signal_stopped_child removes the iterator's element only if it has been called
\* back from inside the loop, which is a fiber's doing.
LEMMA SignalLoop ==
    ASSUME ContextConstants, IInv, LoopInv, NEW c \in Ctxs, SignalStopped(c)
    PROVE  LoopInv'
<1>0. /\ stack \in Seq(Frames) /\ LoopOK(stack, registry, state, loop)
      /\ loop \in Loops /\ loop.next \in Ctxs \cup {None}
  BY DEF IInv, TypeOK, LoopInv, Loops
<1>1. /\ stack # <<>> /\ Head(stack) = IdleFrame(c) /\ state' = state
      /\ registry' = registry \ {c}
      /\ loop' = [loop EXCEPT !.ahead = @ \ {c}, !.found = @ \ {c}]
  BY DEF SignalStopped, Erase
<1>2. /\ loop'.next = loop.next /\ loop'.ahead = loop.ahead \ {c}
      /\ loop'.found = loop.found \ {c}
      /\ loop'.taken = loop.taken /\ loop'.intact = loop.intact
  BY <1>0, <1>1 DEF Loops
<1>3. Tail(stack) \in Seq(Frames)
  BY <1>0, <1>1, PopFacts
<1>4. /\ OnSeq(stack', LoopFrame) => OnSeq(Tail(stack), LoopFrame)
      /\ CalledBack(stack', loop.next) => CalledBack(Tail(stack), loop.next)
  <2>1. CASE coroStop[c] = None
    BY <2>1 DEF SignalStopped
  <2>2. CASE coroStop[c] # None
    <3>1. coroStop[c] \in Fibers /\ stack' = <<FiberFrame(coroStop[c])>> \o Tail(stack)
      BY <2>2 DEF IInv, TypeOK, SignalStopped, ResumeOn
    <3> DEFINE e == FiberFrame(coroStop[c])
    <3>2. e \in Frames /\ e # LoopFrame /\ e # IdleFrame(loop.next)
      BY <3>1, FrameFacts DEF FiberFrame, LoopFrame, IdleFrame
    <3>3. stack' = <<e>> \o Tail(stack)
      BY <3>1
    <3> HIDE DEF e
    <3> QED BY <1>3, <3>2, <3>3, PushCalled, PushOn
  <2> QED BY <2>1, <2>2
<1>5. OnSeq(Tail(stack), LoopFrame) => OnSeq(stack, LoopFrame)
  BY <1>0, <1>1, PopOn
<1>6. CalledBack(Tail(stack), loop.next) => CalledBack(stack, loop.next)
  BY <1>0, <1>1, PopCalled
<1>7. OnSeq(Tail(stack), LoopFrame) /\ c = loop.next => CalledBack(stack, loop.next)
  BY <1>0, <1>1, PopCalled
<1>8. LoopOK(stack', registry', state', loop')
  BY <1>0, <1>1, <1>2, <1>4, <1>5, <1>6, <1>7 DEF LoopOK
<1> QED BY <1>8 DEF LoopInv

\* What the event loop does, it does with no stop_all on the stack.
LEMMA EventLoop ==
    ASSUME ContextConstants, IInv, LoopInv, stack = <<>>, UNCHANGED <<registry, loop>>,
           \A c \in Ctxs : state[c] # "none" => state'[c] # "none",
           stack' = <<>> \/ \E e \in Frames : stack' = <<e>> /\ e # LoopFrame
    PROVE  LoopInv'
<1>0. /\ LoopOK(stack, registry, state, loop)
      /\ loop.next \in Ctxs \cup {None} /\ loop.found \in SUBSET Ctxs
  BY DEF IInv, TypeOK, LoopInv
<1>1. ~OnSeq(stack', LoopFrame) /\ ~CalledBack(stack', loop.next)
  BY DEF OnSeq, CalledBack
<1>2. LoopOK(stack', registry', state', loop')
  BY <1>0, <1>1 DEF LoopOK
<1> QED BY <1>2 DEF LoopInv

\* One step per action.
LEMMA NextLoop ==
    ASSUME ContextConstants, IInv, LoopInv, [Next]_vars
    PROVE  LoopInv'
<1>0. TypeOK
  BY DEF IInv
<1>1. ASSUME NEW f \in Fibers, NEW c \in Ctxs, AwaitStop(f, c) \/ AwaitData(f, c) PROVE LoopInv'
  BY <1>1, SameLoop DEF AwaitStop, AwaitData, SuspendOn, Runs
<1>2. ASSUME NEW f \in Fibers, Leave(f) PROVE LoopInv'
  BY <1>2, SameLoop DEF Leave, SuspendOn, Runs
<1>3. ASSUME NEW f \in Fibers, Wake(f) \/ WakeDataAwaiter(f) PROVE LoopInv'
  <2>1. /\ FiberFrame(f) \in Frames /\ FiberFrame(f) # LoopFrame
        /\ FiberFrame(f) # IdleFrame(loop.next)
    BY FrameFacts DEF FiberFrame, LoopFrame, IdleFrame
  <2>2. /\ UNCHANGED <<state, registry, loop>>
        /\ stack' = <<FiberFrame(f)>> \o stack
    BY <1>3 DEF Wake, WakeDataAwaiter, ResumeOn
  <2> QED BY <2>1, <2>2, SameLoop
<1>4. ASSUME NEW c \in Ctxs, Started(c) PROVE LoopInv'
  <2>1. /\ stack = <<>> /\ UNCHANGED <<registry, loop>>
        /\ \A d \in Ctxs : state[d] # "none" => state'[d] # "none"
    BY <1>0, <1>4 DEF Started, TypeOK
  <2>2. stack' = <<>> \/ \E e \in Frames : stack' = <<e>> /\ e # LoopFrame
    <3>1. CASE coroStart[c] = None
      BY <1>4, <3>1 DEF Started
    <3>2. CASE coroStart[c] # None
      <4>1. coroStart[c] \in Fibers /\ stack' = <<FiberFrame(coroStart[c])>> \o <<>>
        BY <1>0, <1>4, <3>2 DEF Started, ResumeOn, TypeOK
      <4>2. FiberFrame(coroStart[c]) \in Frames /\ FiberFrame(coroStart[c]) # LoopFrame
        BY <4>1, FrameFacts DEF FiberFrame, LoopFrame
      <4> QED BY <4>1, <4>2
    <3> QED BY <3>1, <3>2
  <2> QED BY <2>1, <2>2, EventLoop
<1>5. ASSUME NEW c \in Ctxs, Stopped(c) PROVE LoopInv'
  <2>1. /\ stack = <<>> /\ UNCHANGED <<registry, loop>> /\ stack' = <<IdleFrame(c)>>
        /\ \A d \in Ctxs : state[d] # "none" => state'[d] # "none"
    BY <1>0, <1>5 DEF Stopped, TypeOK
  <2>2. IdleFrame(c) \in Frames /\ IdleFrame(c) # LoopFrame
    BY FrameFacts DEF IdleFrame, LoopFrame
  <2> QED BY <2>1, <2>2, EventLoop
<1>6. CASE UNCHANGED vars
  BY <1>6, SameLoop DEF vars
<1> QED BY <1>1, <1>2, <1>3, <1>4, <1>5, <1>6, CreateLoop, StopLoop, StopAllLoop, RoundLoop,
           AstrayLoop, EndLoop, SignalLoop DEF Next, Callbacks

\* What stop_all relies on holds throughout, whatever fibers do inside it.
THEOREM LoopInvariant == Spec => []LoopInv
<1>1. Init => LoopInv
  BY DEF Init, LoopFrom, LoopInv, LoopOK, OnSeq, CalledBack
<1>2. IInv /\ LoopInv /\ [Next]_vars => LoopInv'
  BY NextLoop, ContextConstants
<1> QED BY <1>1, <1>2, Invariant, PTL DEF Spec

\* The iterator that dependent_contexts::stop_all keeps across the call of stop()
\* loses its element only if a fiber that is resumed inside that call, or inside a
\* callback it leads to, stops the context of that element.  All other removals,
\* and all insertions, leave it its element.
THEOREM IteratorLostOnlyToFibers == Spec => []LostOnlyToFibers
<1>1. LoopInv => LostOnlyToFibers
  BY OnStackIsOnSeq DEF LoopInv, LoopOK, LostOnlyToFibers, Looping
<1> QED BY <1>1, LoopInvariant, PTL

\* In any order of iteration, wherever new contexts are inserted and whatever the
\* resumed fibers stop or wait for, stop_all passes no running context by, as long
\* as the table is not rehashed and the iterator has its element.
THEOREM EverybodyVisited == Spec => []NobodyPassedBy
<1>1. LoopInv => NobodyPassedBy
  BY OnStackIsOnSeq DEF LoopInv, LoopOK, NobodyPassedBy, Looping
<1> QED BY <1>1, LoopInvariant, PTL
=============================================================================
