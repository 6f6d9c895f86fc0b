------------------------- MODULE AccepterQueuesProofs -------------------------
(***************************************************************************)
(* Proofs about AccepterQueues for any set of payloads and any bounds: the *)
(* invariants the runs check, and that the queues implement AcceptChannel  *)
(* (its safety part).                                                      *)
(*                                                                         *)
(* The invariants are not inductive alone.  What makes them so is that the *)
(* queue of accepters holds the empty receptables, all of them and in the  *)
(* order of the calls, and that the queue of data holds the end of what    *)
(* was supplied.                                                           *)
(***************************************************************************)
EXTENDS AccepterQueues, TLAPS

Result == Payload \cup {Empty, NotConnected}

\* Every accept made one receptable and one awaitable.
OneAwaiterEach == Len(awaiter) = Len(receptable)

\* The queue of accepters is in order of the calls ...
AcceptersOrdered ==
    \A j, k \in 1..Len(pendingAccepters) :
        j < k => pendingAccepters[j] < pendingAccepters[k]

\* ... holds only empty receptables ...
AcceptersEmpty ==
    \A k \in 1..Len(pendingAccepters) :
        /\ pendingAccepters[k] \in 1..Len(receptable)
        /\ receptable[pendingAccepters[k]] = Empty

\* ... and all of them.
EmptyQueued ==
    \A i \in 1..Len(receptable) : receptable[i] = Empty =>
        \E k \in 1..Len(pendingAccepters) : pendingAccepters[k] = i

SuspendedEmpty ==
    \A i \in 1..Len(awaiter) : awaiter[i] = "suspended" => receptable[i] = Empty

DrainedAfter ==
    /\ draining => disconnected
    /\ disconnected /\ ~draining => pendingAccepters = <<>>

\* pending_data_ is the undelivered end of what was supplied.
DataIsSuffix ==
    /\ Len(pendingData) <= Len(supplied)
    /\ \A k \in 1..Len(pendingData) :
         pendingData[k] = supplied[Len(supplied) - Len(pendingData) + k]

IInv ==
    /\ TypeOK
    /\ QueuesExclusive
    /\ OneAwaiterEach
    /\ AcceptersOrdered
    /\ AcceptersEmpty
    /\ EmptyQueued
    /\ SuspendedEmpty
    /\ DrainedAfter
    /\ DataIsSuffix

-----------------------------------------------------------------------------
(* Facts about sequences *)

\* What Append does to the length and to the elements.
LEMMA AppendFacts ==
    ASSUME NEW S, NEW s \in Seq(S), NEW x \in S
    PROVE  /\ Append(s, x) \in Seq(S)
           /\ Len(Append(s, x)) = Len(s) + 1
           /\ \A i \in 1..Len(s) : Append(s, x)[i] = s[i]
           /\ Append(s, x)[Len(s) + 1] = x
  OBVIOUS

\* What Head and Tail take from a sequence that is not empty.
LEMMA TailFacts ==
    ASSUME NEW S, NEW s \in Seq(S), s # <<>>
    PROVE  /\ Len(s) \in Nat \ {0}
           /\ Head(s) = s[1]
           /\ Head(s) \in S
           /\ Tail(s) \in Seq(S)
           /\ Len(Tail(s)) = Len(s) - 1
           /\ \A i \in 1..Len(Tail(s)) : Tail(s)[i] = s[i + 1]
  OBVIOUS

\* An update of one element keeps the length and the other elements.
LEMMA ExceptFacts ==
    ASSUME NEW S, NEW s \in Seq(S), NEW i \in 1..Len(s), NEW x \in S
    PROVE  /\ [s EXCEPT ![i] = x] \in Seq(S)
           /\ Len([s EXCEPT ![i] = x]) = Len(s)
           /\ [s EXCEPT ![i] = x][i] = x
           /\ \A j \in 1..Len(s) : j # i => [s EXCEPT ![i] = x][j] = s[j]
  OBVIOUS

\* Only the empty sequence has length 0.
LEMMA EmptySeq ==
    ASSUME NEW S, NEW s \in Seq(S)
    PROVE  /\ Len(s) \in Nat
           /\ s = <<>> <=> Len(s) = 0
           /\ DOMAIN s = 1..Len(s)
  OBVIOUS

-----------------------------------------------------------------------------
(* The inductive invariant *)

\* Empty queues, no calls yet.
LEMMA InitIInv == Init => IInv
  <1> SUFFICES ASSUME Init PROVE IInv
    OBVIOUS
  <1>1. TypeOK
    <2>1. \A S : <<>> \in Seq(S)
      OBVIOUS
    <2> QED
      BY Zenon, <2>1 DEF Init, TypeOK
  <1>2. QueuesExclusive /\ DrainedAfter /\ OneAwaiterEach
    BY DEF Init, QueuesExclusive, DrainedAfter, OneAwaiterEach
  <1>3. Len(pendingAccepters) = 0 /\ Len(receptable) = 0
        /\ Len(awaiter) = 0 /\ Len(pendingData) = 0 /\ Len(supplied) = 0
    BY DEF Init
  <1>4. AcceptersOrdered /\ AcceptersEmpty
    BY <1>3 DEF AcceptersOrdered, AcceptersEmpty
  <1>5. EmptyQueued /\ SuspendedEmpty /\ DataIsSuffix
    BY <1>3 DEF EmptyQueued, SuspendedEmpty, DataIsSuffix
  <1> QED
    BY <1>1, <1>2, <1>4, <1>5 DEF IInv

\* accept: the three branches differ in where the receptable's value comes from.
LEMMA AcceptIInv == IInv /\ Accept => IInv'
  <1> SUFFICES ASSUME IInv, Accept PROVE IInv'
    OBVIOUS
  <1> USE QueueConstants
  <1> DEFINE n == Len(receptable)
             m == Len(pendingAccepters)
  <1>1. /\ receptable \in Seq(Result) /\ awaiter \in Seq(AwaiterState)
        /\ pendingAccepters \in Seq(Nat) /\ pendingData \in Seq(Payload)
        /\ supplied \in Seq(Payload)
        /\ n \in Nat /\ m \in Nat /\ Len(awaiter) = n
    BY DEF IInv, TypeOK, OneAwaiterEach, Result
  <1>2. /\ awaiter' \in Seq(AwaiterState)
        /\ Len(awaiter') = n + 1
        /\ \A i \in 1..n : awaiter'[i] = awaiter[i]
        /\ awaiter'[n + 1] = "held"
    BY <1>1, AppendFacts, "held" \in AwaiterState DEF Accept, AwaiterState
  <1>3. UNCHANGED <<disconnected, draining, supplied>>
    BY DEF Accept
  <1>4. PICK v \in Result : receptable' = Append(receptable, v)
    <2>1. pendingData # <<>> => Head(pendingData) \in Payload
      BY <1>1, TailFacts
    <2> QED
      BY <2>1 DEF Accept, AcceptPending, AcceptDisconnected, AcceptQueued, Result
  <1>5. /\ receptable' \in Seq(Result)
        /\ Len(receptable') = n + 1
        /\ \A i \in 1..n : receptable'[i] = receptable[i]
        /\ receptable'[n + 1] = v
    BY <1>1, <1>4, AppendFacts
  <1>6. OneAwaiterEach'
    BY <1>2, <1>5 DEF OneAwaiterEach
  <1>7. SuspendedEmpty'
    <2> SUFFICES ASSUME NEW i \in 1..(n + 1), awaiter'[i] = "suspended"
                 PROVE  receptable'[i] = Empty
      BY <1>2 DEF SuspendedEmpty
    <2>1. i # n + 1
      BY <1>2
    <2>2. i \in 1..n /\ awaiter[i] = "suspended"
      BY <1>1, <1>2, <2>1
    <2> QED
      BY Zenon, <1>1, <1>5, <2>2 DEF IInv, SuspendedEmpty
  <1>8. CASE UNCHANGED pendingAccepters /\ v # Empty
    <2>1. EmptyQueued'
      <3> SUFFICES ASSUME NEW i \in 1..(n + 1), receptable'[i] = Empty
                   PROVE  \E k \in 1..m : pendingAccepters[k] = i
        BY <1>5, <1>8 DEF EmptyQueued
      <3>1. i \in 1..n /\ receptable[i] = Empty
        BY <1>1, <1>5, <1>8
      <3> QED
        BY <3>1 DEF IInv, EmptyQueued
    <2>2. AcceptersEmpty'
      BY <1>1, <1>5, <1>8 DEF IInv, AcceptersEmpty
    <2>3. AcceptersOrdered'
      BY <1>8 DEF IInv, AcceptersOrdered
    <2>4. DrainedAfter'
      BY <1>3, <1>8 DEF IInv, DrainedAfter
    <2>5. CASE AcceptPending
      <3>1. /\ pendingData' \in Seq(Payload)
            /\ Len(pendingData) \in Nat \ {0}
            /\ Len(pendingData') = Len(pendingData) - 1
            /\ \A i \in 1..Len(pendingData') : pendingData'[i] = pendingData[i + 1]
        BY <1>1, <2>5, TailFacts DEF AcceptPending
      <3>2. TypeOK'
        BY <1>2, <1>3, <1>5, <1>8, <3>1 DEF IInv, TypeOK, Result
      <3>3. QueuesExclusive'
        BY <1>8, <2>5 DEF AcceptPending, IInv, QueuesExclusive
      <3>4. DataIsSuffix'
        BY <1>1, <1>3, <3>1, EmptySeq DEF IInv, DataIsSuffix
      <3> QED
        BY <1>6, <1>7, <2>1, <2>2, <2>3, <2>4, <3>2, <3>3, <3>4 DEF IInv
    <2>6. CASE UNCHANGED pendingData
      <3>1. TypeOK'
        BY <1>2, <1>3, <1>5, <1>8, <2>6 DEF IInv, TypeOK, Result
      <3>2. QueuesExclusive'
        BY <1>8, <2>6 DEF IInv, QueuesExclusive
      <3>3. DataIsSuffix'
        BY <1>3, <2>6 DEF IInv, DataIsSuffix
      <3> QED
        BY <1>6, <1>7, <2>1, <2>2, <2>3, <2>4, <3>1, <3>2, <3>3 DEF IInv
    <2>7. AcceptPending \/ UNCHANGED pendingData
      BY DEF Accept, AcceptDisconnected, AcceptQueued
    <2> QED
      BY <2>5, <2>6, <2>7
  <1>9. CASE AcceptQueued
    <2>1. receptable'[n + 1] = Empty
      BY <1>1, <1>9, AppendFacts DEF AcceptQueued, Result
    <2>2. /\ pendingAccepters' \in Seq(Nat)
          /\ Len(pendingAccepters') = m + 1
          /\ \A k \in 1..m : pendingAccepters'[k] = pendingAccepters[k]
          /\ pendingAccepters'[m + 1] = n + 1
      BY <1>1, <1>9, AppendFacts DEF AcceptQueued
    <2>3. UNCHANGED pendingData /\ pendingData = <<>> /\ ~disconnected
      BY <1>9 DEF AcceptQueued
    <2>4. TypeOK'
      BY <1>2, <1>3, <1>5, <2>2, <2>3 DEF IInv, TypeOK, Result
    <2>5. \A k \in 1..m : /\ pendingAccepters[k] \in 1..n
                          /\ receptable[pendingAccepters[k]] = Empty
      BY DEF IInv, AcceptersEmpty
    <2>6. AcceptersOrdered'
      <3> SUFFICES ASSUME NEW j \in 1..(m + 1), NEW k \in 1..(m + 1), j < k
                   PROVE  pendingAccepters'[j] < pendingAccepters'[k]
        BY <2>2 DEF AcceptersOrdered
      <3>0. j \in 1..m
        BY <1>1
      <3>1. j \in 1..m /\ pendingAccepters'[j] = pendingAccepters[j]
        BY <2>2, <3>0
      <3>2. CASE k = m + 1
        BY SMTT(30), <1>1, <2>2, <2>5, <3>1, <3>2
      <3>3. CASE k \in 1..m
        BY <2>2, <3>1, <3>3 DEF IInv, AcceptersOrdered
      <3> QED
        BY <1>1, <3>2, <3>3
    <2>7. AcceptersEmpty'
      <3> SUFFICES ASSUME NEW k \in 1..(m + 1)
                   PROVE  /\ pendingAccepters'[k] \in 1..(n + 1)
                          /\ receptable'[pendingAccepters'[k]] = Empty
        BY <1>5, <2>2 DEF AcceptersEmpty
      <3>1. CASE k = m + 1
        BY <1>1, <2>1, <2>2, <3>1
      <3>2. CASE k \in 1..m
        <4>1. pendingAccepters'[k] \in 1..n /\ receptable[pendingAccepters'[k]] = Empty
          BY SMTT(30), <2>2, <2>5, <3>2
        <4> QED
          BY <1>1, <1>5, <4>1
      <3> QED
        BY <1>1, <3>1, <3>2
    <2>8. EmptyQueued'
      <3> SUFFICES ASSUME NEW i \in 1..(n + 1), receptable'[i] = Empty
                   PROVE  \E k \in 1..(m + 1) : pendingAccepters'[k] = i
        BY Zenon, <1>5, <2>2 DEF EmptyQueued
      <3>1. CASE i = n + 1
        BY <1>1, <2>2, <3>1
      <3>2. CASE i \in 1..n
        <4>1. PICK k \in 1..m : pendingAccepters[k] = i
          BY <1>5, <3>2 DEF IInv, EmptyQueued
        <4> QED
          BY SMTT(30), <1>1, <2>2, <4>1
      <3> QED
        BY <1>1, <3>1, <3>2
    <2>9. QueuesExclusive' /\ DrainedAfter' /\ DataIsSuffix'
      BY <1>3, <2>3 DEF IInv, QueuesExclusive, DrainedAfter, DataIsSuffix
    <2> QED
      BY <1>6, <1>7, <2>4, <2>6, <2>7, <2>8, <2>9 DEF IInv
  <1>10. AcceptQueued \/ (UNCHANGED pendingAccepters /\ v # Empty)
    <2>1. pendingData # <<>> => Head(pendingData) \in Payload
      BY <1>1, TailFacts
    <2>2. ASSUME NEW x \in Result, receptable' = Append(receptable, x)
          PROVE  x = v
      BY <1>1, <1>5, <2>2, AppendFacts
    <2> QED
      BY <2>1, <2>2 DEF Accept, AcceptPending, AcceptDisconnected, Result
  <1> QED
    BY <1>8, <1>9, <1>10

\* co_await only moves the awaiter that calls it.
LEMMA CoAwaitIInv ==
    ASSUME NEW i \in DOMAIN awaiter, IInv, CoAwait(i)
    PROVE  IInv'
  <1> USE QueueConstants
  <1>1. i \in 1..Len(awaiter) /\ awaiter \in Seq(AwaiterState)
        /\ Len(awaiter) = Len(receptable)
    BY EmptySeq DEF IInv, TypeOK, OneAwaiterEach
  <1> DEFINE w == IF receptable[i] # Empty THEN "resumed" ELSE "suspended"
  <1>2. /\ awaiter' \in Seq(AwaiterState)
        /\ Len(awaiter') = Len(awaiter)
        /\ awaiter'[i] = w
        /\ \A j \in 1..Len(awaiter) : j # i => awaiter'[j] = awaiter[j]
    <2>1. w \in AwaiterState
      BY DEF AwaiterState
    <2>2. awaiter' = [awaiter EXCEPT ![i] = w]
      BY DEF CoAwait
    <2> HIDE DEF w
    <2> QED
      BY <1>1, <2>1, <2>2, ExceptFacts
  <1>3. UNCHANGED <<pendingData, pendingAccepters, disconnected, draining,
                    receptable, supplied>>
    BY DEF CoAwait
  <1>4. TypeOK' /\ OneAwaiterEach'
    BY <1>1, <1>2, <1>3 DEF IInv, TypeOK, OneAwaiterEach
  <1>5. SuspendedEmpty'
    BY <1>1, <1>2, <1>3 DEF IInv, SuspendedEmpty
  <1> QED
    BY <1>3, <1>4, <1>5
    DEF IInv, QueuesExclusive, AcceptersOrdered, AcceptersEmpty, EmptyQueued,
        DrainedAfter, DataIsSuffix

\* What supply and disconnect do to the accepters, whichever value they set.
LEMMA FeedFrontIInv ==
    ASSUME NEW v \in Payload \cup {NotConnected}, IInv, FeedFront(v)
    PROVE  /\ receptable' \in Seq(Result) /\ Len(receptable') = Len(receptable)
           /\ awaiter' \in Seq(AwaiterState)
           /\ pendingAccepters' \in Seq(Nat)
           /\ OneAwaiterEach' /\ AcceptersOrdered' /\ AcceptersEmpty'
           /\ EmptyQueued' /\ SuspendedEmpty'
           /\ pendingData = <<>>
  <1> USE QueueConstants
  <1> DEFINE h == Head(pendingAccepters)
             m == Len(pendingAccepters)
             n == Len(receptable)
             w == IF awaiter[h] = "suspended" THEN "resumed" ELSE awaiter[h]
  <1>1. /\ receptable \in Seq(Result) /\ awaiter \in Seq(AwaiterState)
        /\ pendingAccepters \in Seq(Nat)
        /\ n \in Nat /\ Len(awaiter) = n /\ v \in Result /\ v # Empty
    BY DEF IInv, TypeOK, OneAwaiterEach, Result
  <1>2. /\ m \in Nat \ {0} /\ h = pendingAccepters[1]
        /\ pendingAccepters' \in Seq(Nat)
        /\ Len(pendingAccepters') = m - 1
        /\ \A k \in 1..(m - 1) : pendingAccepters'[k] = pendingAccepters[k + 1]
    BY <1>1, TailFacts DEF FeedFront
  <1>3. \A k \in 1..m : pendingAccepters[k] \in 1..n /\ receptable[pendingAccepters[k]] = Empty
    BY DEF IInv, AcceptersEmpty
  <1>4. h \in 1..n /\ pendingData = <<>>
    <2>1. 1 \in 1..m
      BY <1>2
    <2> QED
      BY <1>2, <1>3, <2>1 DEF IInv, QueuesExclusive, FeedFront
  <1>5. /\ receptable' \in Seq(Result)
        /\ Len(receptable') = n
        /\ receptable'[h] = v
        /\ \A j \in 1..n : j # h => receptable'[j] = receptable[j]
    <2>1. receptable' = [receptable EXCEPT ![h] = v]
      BY DEF FeedFront
    <2> HIDE DEF h
    <2> QED
      BY <1>1, <1>4, <2>1, ExceptFacts
  <1>6. /\ awaiter' \in Seq(AwaiterState)
        /\ Len(awaiter') = n
        /\ awaiter'[h] = w
        /\ \A j \in 1..n : j # h => awaiter'[j] = awaiter[j]
    <2>1. awaiter' = [awaiter EXCEPT ![h] = w]
      BY DEF FeedFront, Resume
    <2>2. w \in AwaiterState
      BY <1>1, <1>4 DEF AwaiterState
    <2> HIDE DEF h, w
    <2> QED
      BY <1>1, <1>4, <2>1, <2>2, ExceptFacts
  <1>7. \A k \in 1..(m - 1) : pendingAccepters'[k] > h
    <2> SUFFICES ASSUME NEW k \in 1..(m - 1)
                 PROVE  pendingAccepters[k + 1] > pendingAccepters[1]
      BY <1>2
    <2>1. 1 \in 1..m /\ k + 1 \in 1..m /\ 1 < k + 1
      BY <1>2
    <2>2. pendingAccepters[1] \in Nat /\ pendingAccepters[k + 1] \in Nat
      BY <1>1, <2>1
    <2>3. pendingAccepters[1] < pendingAccepters[k + 1]
      BY <2>1 DEF IInv, AcceptersOrdered
    <2> QED
      BY <2>2, <2>3
  <1> HIDE DEF h
  <1>8. OneAwaiterEach'
    BY <1>5, <1>6 DEF OneAwaiterEach
  <1>9. AcceptersOrdered'
    <2> SUFFICES ASSUME NEW j \in 1..(m - 1), NEW k \in 1..(m - 1), j < k
                 PROVE  pendingAccepters[j + 1] < pendingAccepters[k + 1]
      BY <1>2 DEF AcceptersOrdered
    <2>1. j + 1 \in 1..m /\ k + 1 \in 1..m /\ j + 1 < k + 1
      BY <1>2
    <2> QED
      BY <2>1 DEF IInv, AcceptersOrdered
  <1>10. AcceptersEmpty'
    <2> SUFFICES ASSUME NEW k \in 1..(m - 1)
                 PROVE  /\ pendingAccepters'[k] \in 1..n
                        /\ receptable'[pendingAccepters'[k]] = Empty
      BY <1>2, <1>5 DEF AcceptersEmpty
    <2>1. k + 1 \in 1..m /\ pendingAccepters'[k] = pendingAccepters[k + 1]
      BY <1>2
    <2>2. /\ pendingAccepters'[k] \in 1..n
          /\ receptable[pendingAccepters'[k]] = Empty
      BY <1>3, <2>1
    <2>3. pendingAccepters'[k] # h
      BY <1>4, <1>7, <2>2
    <2> QED
      BY <1>5, <2>2, <2>3
  <1>11. EmptyQueued'
    <2> SUFFICES ASSUME NEW i \in 1..n, receptable'[i] = Empty
                 PROVE  \E k \in 1..(m - 1) : pendingAccepters'[k] = i
      BY <1>2, <1>5 DEF EmptyQueued
    <2>1. i # h /\ receptable[i] = Empty
      BY <1>1, <1>5
    <2>2. PICK k \in 1..m : pendingAccepters[k] = i
      BY <2>1 DEF IInv, EmptyQueued
    <2>3. k # 1
      BY <1>2, <2>1, <2>2
    <2>4. k - 1 \in 1..(m - 1) /\ (k - 1) + 1 = k
      BY <1>2, <2>3
    <2>5. pendingAccepters'[k - 1] = i
      BY <1>2, <2>2, <2>4
    <2> QED
      BY <2>4, <2>5
  <1>12. SuspendedEmpty'
    <2> SUFFICES ASSUME NEW i \in 1..n, awaiter'[i] = "suspended"
                 PROVE  receptable'[i] = Empty
      BY <1>6 DEF SuspendedEmpty
    <2>1. i # h
      BY <1>6
    <2> QED
      BY <1>1, <1>5, <1>6, <2>1 DEF IInv, SuspendedEmpty
  <1> QED
    BY <1>2, <1>4, <1>5, <1>6, <1>8, <1>9, <1>10, <1>11, <1>12

\* supply: either the data is queued, or the front accepter gets it.
LEMMA SupplyIInv ==
    ASSUME NEW p \in Payload, IInv, Supply(p)
    PROVE  IInv'
  <1> USE QueueConstants
  <1>1. /\ pendingData \in Seq(Payload) /\ supplied \in Seq(Payload)
        /\ Len(pendingData) \in Nat /\ Len(supplied) \in Nat
    BY DEF IInv, TypeOK
  <1>2. /\ supplied' \in Seq(Payload)
        /\ Len(supplied') = Len(supplied) + 1
        /\ \A i \in 1..Len(supplied) : supplied'[i] = supplied[i]
        /\ supplied'[Len(supplied) + 1] = p
    BY <1>1, AppendFacts DEF Supply
  <1>3. UNCHANGED <<disconnected, draining>> /\ ~draining
    BY DEF Supply
  <1>4. CASE QueueData(p)
    <2>1. /\ pendingData' \in Seq(Payload)
          /\ Len(pendingData') = Len(pendingData) + 1
          /\ \A i \in 1..Len(pendingData) : pendingData'[i] = pendingData[i]
          /\ pendingData'[Len(pendingData) + 1] = p
      BY <1>1, <1>4, AppendFacts DEF QueueData
    <2>2. UNCHANGED <<pendingAccepters, receptable, awaiter>> /\ pendingAccepters = <<>>
      BY <1>4 DEF QueueData
    <2>3. TypeOK'
      BY <1>2, <1>3, <2>1, <2>2 DEF IInv, TypeOK
    <2>4. DataIsSuffix'
      <3>1. Len(pendingData') <= Len(supplied')
        BY <1>1, <1>2, <2>1 DEF IInv, DataIsSuffix
      <3>2. ASSUME NEW k \in 1..(Len(pendingData) + 1)
            PROVE  pendingData'[k] = supplied'[Len(supplied) - Len(pendingData) + k]
        <4>1. CASE k = Len(pendingData) + 1
          BY <1>1, <1>2, <2>1, <4>1
        <4>2. CASE k \in 1..Len(pendingData)
          <5>1. Len(supplied) - Len(pendingData) + k \in 1..Len(supplied)
            BY <1>1, <4>2 DEF IInv, DataIsSuffix
          <5> QED
            BY Zenon, <1>2, <2>1, <4>2, <5>1 DEF IInv, DataIsSuffix
        <4> QED
          BY <1>1, <4>1, <4>2
      <3>3. Len(supplied') - Len(pendingData') = Len(supplied) - Len(pendingData)
        BY <1>1, <1>2, <2>1
      <3> QED
        BY Zenon, <2>1, <3>1, <3>2, <3>3 DEF DataIsSuffix
    <2>5. QueuesExclusive' /\ DrainedAfter' /\ OneAwaiterEach'
      BY <1>3, <2>2 DEF IInv, QueuesExclusive, DrainedAfter, OneAwaiterEach
    <2>6. AcceptersOrdered' /\ AcceptersEmpty' /\ EmptyQueued' /\ SuspendedEmpty'
      BY <2>2 DEF IInv, AcceptersOrdered, AcceptersEmpty, EmptyQueued, SuspendedEmpty
    <2> QED
      BY <2>3, <2>4, <2>5, <2>6 DEF IInv
  <1>5. CASE FeedFront(p) /\ UNCHANGED pendingData
    <2>1. /\ receptable' \in Seq(Result) /\ awaiter' \in Seq(AwaiterState)
          /\ pendingAccepters' \in Seq(Nat)
          /\ OneAwaiterEach' /\ AcceptersOrdered' /\ AcceptersEmpty'
          /\ EmptyQueued' /\ SuspendedEmpty'
          /\ pendingData = <<>>
      BY <1>5, FeedFrontIInv
    <2>2. TypeOK'
      BY <1>2, <1>3, <1>5, <2>1 DEF IInv, TypeOK, Result
    <2>3. DataIsSuffix'
      BY <1>1, <1>2, <1>5, <2>1 DEF DataIsSuffix
    <2>4. QueuesExclusive'
      BY <1>5, <2>1 DEF QueuesExclusive
    <2>5. DrainedAfter'
      BY <1>3, <1>5 DEF IInv, DrainedAfter, FeedFront
    <2> QED
      BY <2>1, <2>2, <2>3, <2>4, <2>5 DEF IInv
  <1> QED
    BY <1>4, <1>5 DEF Supply

\* Every step keeps the inductive invariant.
LEMMA NextIInv == IInv /\ [Next]_vars => IInv'
  <1> SUFFICES ASSUME IInv, [Next]_vars PROVE IInv'
    OBVIOUS
  <1> USE QueueConstants
  <1>1. CASE Accept
    BY <1>1, AcceptIInv
  <1>2. ASSUME NEW i \in DOMAIN awaiter, CoAwait(i) PROVE IInv'
    BY <1>2, CoAwaitIInv
  <1>3. ASSUME NEW p \in Payload, Supply(p) PROVE IInv'
    BY <1>3, SupplyIInv
  <1>4. CASE Disconnect
    BY <1>4 DEF Disconnect, IInv, TypeOK, QueuesExclusive, OneAwaiterEach,
        AcceptersOrdered, AcceptersEmpty, EmptyQueued, SuspendedEmpty,
        DrainedAfter, DataIsSuffix
  <1>5. CASE DrainOne
    <2>1. /\ receptable' \in Seq(Result) /\ awaiter' \in Seq(AwaiterState)
          /\ pendingAccepters' \in Seq(Nat)
          /\ OneAwaiterEach' /\ AcceptersOrdered' /\ AcceptersEmpty'
          /\ EmptyQueued' /\ SuspendedEmpty'
          /\ pendingData = <<>>
      BY <1>5, FeedFrontIInv DEF DrainOne
    <2>2. UNCHANGED <<pendingData, disconnected, draining, supplied>> /\ draining
      BY <1>5 DEF DrainOne
    <2>3. TypeOK' /\ QueuesExclusive' /\ DrainedAfter'
      BY <2>1, <2>2 DEF IInv, TypeOK, QueuesExclusive, DrainedAfter, Result
    <2>4. DataIsSuffix'
      BY <2>2 DEF IInv, DataIsSuffix
    <2> QED
      BY <2>1, <2>3, <2>4 DEF IInv
  <1>6. CASE DrainEnd
    BY ZenonT(60), <1>6 DEF DrainEnd, IInv, TypeOK, QueuesExclusive, OneAwaiterEach,
        AcceptersOrdered, AcceptersEmpty, EmptyQueued, SuspendedEmpty,
        DrainedAfter, DataIsSuffix
  <1>7. CASE UNCHANGED vars
    BY <1>7 DEF vars, IInv, TypeOK, QueuesExclusive, OneAwaiterEach,
        AcceptersOrdered, AcceptersEmpty, EmptyQueued, SuspendedEmpty,
        DrainedAfter, DataIsSuffix
  <1> QED
    BY <1>1, <1>2, <1>3, <1>4, <1>5, <1>6, <1>7 DEF Next

\* The inductive invariant holds in every reachable state.
LEMMA SpecIInv == Spec => []IInv
  BY InitIInv, NextIInv, PTL DEF Spec

-----------------------------------------------------------------------------
(* Theorems *)

\* The queues, flags and receptables of accepter_queues keep their types.
THEOREM TypeCorrect == Spec => []TypeOK
  <1>1. IInv => TypeOK
    BY DEF IInv
  <1> QED
    BY <1>1, SpecIInv, PTL

\* pending_data_ and pending_accepters_ are never both in use, so neither
\* accept nor supply can overtake the other.
THEOREM Exclusive == Spec => []QueuesExclusive
  <1>1. IInv => QueuesExclusive
    BY DEF IInv
  <1> QED
    BY <1>1, SpecIInv, PTL

\* No suspended fiber is lost: its receptable stays queued, exactly once,
\* until supply or disconnect takes it.
THEOREM NoLostWaiter == Spec => []WaitersQueued
  <1>1. ASSUME IInv PROVE WaitersQueued
    <2> SUFFICES ASSUME NEW i \in 1..Len(awaiter), awaiter[i] = "suspended"
                 PROVE  /\ receptable[i] = Empty
                        /\ \E k \in 1..Len(pendingAccepters) :
                             /\ pendingAccepters[k] = i
                             /\ \A m \in 1..Len(pendingAccepters) :
                                  pendingAccepters[m] = i => m = k
      <3>1. /\ DOMAIN awaiter = 1..Len(awaiter)
            /\ DOMAIN pendingAccepters = 1..Len(pendingAccepters)
        BY <1>1 DEF IInv, TypeOK
      <3> QED
        BY <3>1 DEF WaitersQueued
    <2>1. receptable[i] = Empty /\ i \in 1..Len(receptable)
      BY <1>1 DEF IInv, SuspendedEmpty, OneAwaiterEach
    <2>2. PICK k \in 1..Len(pendingAccepters) : pendingAccepters[k] = i
      BY <1>1, <2>1 DEF IInv, EmptyQueued
    <2>3. ASSUME NEW m \in 1..Len(pendingAccepters), pendingAccepters[m] = i
          PROVE  m = k
      <3>1. ~(m < k) /\ ~(k < m)
        BY <1>1, <2>2, <2>3 DEF IInv, AcceptersOrdered
      <3> QED
        BY <3>1
    <2> QED
      BY <2>1, <2>2, <2>3
  <1> QED
    BY <1>1, SpecIInv, PTL

\* After disconnect nobody waits and nobody ever waits again, although the
\* fibers it resumes may call accept while it still loops.
THEOREM NoWaiterAfterDisconnect == Spec => []DisconnectDrains
  <1>1. ASSUME IInv, disconnected, ~draining
        PROVE  /\ pendingAccepters = <<>>
               /\ \A i \in DOMAIN awaiter : awaiter[i] # "suspended"
    <2>1. pendingAccepters = <<>> /\ Len(pendingAccepters) = 0
      BY <1>1 DEF IInv, DrainedAfter
    <2>2. \A i \in 1..Len(awaiter) : awaiter[i] # "suspended"
      BY <1>1, <2>1 DEF IInv, SuspendedEmpty, OneAwaiterEach, EmptyQueued
    <2> QED
      BY <1>1, <2>1, <2>2, EmptySeq DEF IInv, TypeOK
  <1>2. IInv => DisconnectDrains
    BY <1>1 DEF DisconnectDrains
  <1> QED
    BY <1>2, SpecIInv, PTL

-----------------------------------------------------------------------------
(* Refinement *)

\* The accepter FeedFront serves is the oldest one without an outcome.
LEMMA HeadIsFirstWaiting ==
    ASSUME IInv, pendingAccepters # <<>>
    PROVE  /\ Channel!FirstWaiting(Head(pendingAccepters))
           /\ Head(pendingAccepters) \in DOMAIN receptable
  <1> DEFINE h == Head(pendingAccepters)
             m == Len(pendingAccepters)
  <1>1. /\ m \in Nat \ {0} /\ h = pendingAccepters[1] /\ 1 \in 1..m
        /\ pendingAccepters \in Seq(Nat)
    BY TailFacts DEF IInv, TypeOK
  <1>2. h \in 1..Len(receptable) /\ receptable[h] = Empty
    BY <1>1 DEF IInv, AcceptersEmpty
  <1>3. DOMAIN receptable = 1..Len(receptable) /\ Len(receptable) \in Nat
    BY DEF IInv, TypeOK
  <1>4. ASSUME NEW j \in 1..Len(receptable), j < h, receptable[j] = Empty
        PROVE  FALSE
    <2>1. PICK k \in 1..m : pendingAccepters[k] = j
      BY <1>4 DEF IInv, EmptyQueued
    <2>2. CASE k = 1
      BY <1>1, <1>4, <2>1, <2>2
    <2>3. CASE 1 < k
      <3>1. h < j
        BY <1>1, <2>1, <2>3 DEF IInv, AcceptersOrdered
      <3> QED
        BY <1>2, <1>3, <1>4, <3>1
    <2> QED
      BY <1>1, <2>2, <2>3
  <1> QED
    BY <1>2, <1>3, <1>4 DEF Channel!FirstWaiting

\* Every step of the queues is a step of the channel or changes nothing of it.
LEMMA StepRefines ==
    IInv /\ IInv' /\ [Next]_vars => [Channel!Next]_(Channel!vars)
  <1> SUFFICES ASSUME IInv, IInv', [Next]_vars
               PROVE  Channel!Next \/ UNCHANGED Channel!vars
    OBVIOUS
  <1> USE QueueConstants
  <1> DEFINE t == Len(supplied) - Len(pendingData)
  <1>1. /\ pendingData \in Seq(Payload) /\ supplied \in Seq(Payload)
        /\ Len(pendingData) \in Nat /\ Len(supplied) \in Nat
        /\ Len(pendingData) <= Len(supplied)
        /\ DOMAIN receptable = 1..Len(receptable)
    BY SMTT(30) DEF IInv, TypeOK, DataIsSuffix
  <1>2. CASE Accept /\ AcceptPending
    <2>1. /\ Len(pendingData) \in Nat \ {0}
          /\ Head(pendingData) = pendingData[1]
          /\ Len(pendingData') = Len(pendingData) - 1
      BY <1>1, <1>2, TailFacts DEF AcceptPending
    <2>2. pendingData[1] = supplied[t + 1]
      BY SMTT(30), <1>1, <2>1 DEF IInv, DataIsSuffix
    <2>3. UNCHANGED <<supplied, disconnected>>
      BY <1>2 DEF Accept
    <2>4. t < Len(supplied) /\ t' = t + 1
      BY <1>1, <2>1, <2>3
    <2>5. receptable' = Append(receptable, supplied[t + 1])
      BY <1>2, <2>1, <2>2 DEF AcceptPending
    <2>6. Channel!Take
      BY <2>3, <2>4, <2>5 DEF Channel!Take
    <2> QED
      BY <2>6 DEF Channel!Next
  <1>3. CASE Accept /\ AcceptDisconnected
    <2>1. t = Len(supplied)
      BY <1>1, <1>3 DEF AcceptDisconnected
    <2>2. Channel!Refuse
      BY <1>3, <2>1 DEF Accept, AcceptDisconnected, Channel!Refuse
    <2> QED
      BY <2>2 DEF Channel!Next
  <1>4. CASE Accept /\ AcceptQueued
    <2>1. t = Len(supplied)
      BY <1>1, <1>4 DEF AcceptQueued
    <2>2. Channel!Wait
      BY <1>4, <2>1 DEF Accept, AcceptQueued, Channel!Wait
    <2> QED
      BY <2>2 DEF Channel!Next
  <1>5. ASSUME NEW i \in DOMAIN awaiter, CoAwait(i)
        PROVE  UNCHANGED Channel!vars
    BY <1>5 DEF CoAwait, Channel!vars
  <1>6. ASSUME NEW p \in Payload, Supply(p), QueueData(p)
        PROVE  Channel!Next
    <2>1. \A i \in DOMAIN receptable : receptable[i] # Empty
      <3>1. Len(pendingAccepters) = 0
        BY <1>6 DEF QueueData
      <3> QED
        BY <1>1, <3>1 DEF IInv, EmptyQueued
    <2>2. /\ Len(pendingData') = Len(pendingData) + 1
          /\ Len(supplied') = Len(supplied) + 1
      BY <1>1, <1>6, AppendFacts DEF Supply, QueueData
    <2>3. t' = t
      BY <1>1, <2>2
    <2>4. Channel!Store(p)
      BY <1>6, <2>1, <2>3 DEF Supply, QueueData, Channel!Store
    <2> QED
      BY <2>4 DEF Channel!Next
  <1>7. ASSUME NEW p \in Payload, Supply(p), FeedFront(p), UNCHANGED pendingData
        PROVE  Channel!Next
    <2>1. pendingData = <<>> /\ Len(pendingData) = 0
      BY <1>7 DEF FeedFront, IInv, QueuesExclusive
    <2>2. /\ supplied' = Append(supplied, p)
          /\ Len(supplied') = Len(supplied) + 1
          /\ supplied'[Len(supplied) + 1] = p
      BY <1>1, <1>7, AppendFacts DEF Supply
    <2>3. t = Len(supplied) /\ t' = t + 1
      BY <1>1, <1>7, <2>1, <2>2
    <2>4. /\ Channel!FirstWaiting(Head(pendingAccepters))
          /\ Head(pendingAccepters) \in DOMAIN receptable
      BY <1>7, HeadIsFirstWaiting DEF FeedFront
    <2>5. receptable' = [receptable EXCEPT ![Head(pendingAccepters)] = supplied'[t + 1]]
      BY Zenon, <1>7, <2>2, <2>3 DEF FeedFront
    <2>6. UNCHANGED disconnected
      BY <1>7 DEF Supply
    <2>7. Channel!Deliver(p)
      BY Zenon, <2>2, <2>3, <2>4, <2>5, <2>6 DEF Channel!Deliver
    <2> QED
      BY <2>7 DEF Channel!Next
  <1>8. CASE Disconnect
    BY <1>8 DEF Disconnect, Channel!Next, Channel!Close
  <1>9. CASE DrainOne
    <2>1. /\ Channel!FirstWaiting(Head(pendingAccepters))
          /\ Head(pendingAccepters) \in DOMAIN receptable
      BY <1>9, HeadIsFirstWaiting DEF DrainOne, FeedFront
    <2>2. disconnected
      BY <1>9 DEF DrainOne, IInv, DrainedAfter
    <2>3. /\ receptable' = [receptable EXCEPT ![Head(pendingAccepters)] = NotConnected]
          /\ UNCHANGED <<pendingData, disconnected, supplied>>
      BY <1>9 DEF DrainOne, FeedFront
    <2>4. Channel!Fail
      BY Zenon, <2>1, <2>2, <2>3 DEF Channel!Fail
    <2> QED
      BY <2>4 DEF Channel!Next
  <1>10. CASE DrainEnd
    BY <1>10 DEF DrainEnd, Channel!vars
  <1>11. CASE UNCHANGED vars
    BY <1>11 DEF vars, Channel!vars
  <1> QED
    BY SMTT(30), <1>2, <1>3, <1>4, <1>5, <1>6, <1>7, <1>8, <1>9, <1>10, <1>11
    DEF Next, Accept, Supply

\* accepter_queues implements the ordered channel: payloads are delivered once
\* each, in order of supply, to the accepters in order of accept.
THEOREM QueuesImplementChannel == Spec => ImplementsChannel
  <1>1. Init => Channel!Init
    BY DEF Init, Channel!Init
  <1> QED
    BY <1>1, SpecIInv, StepRefines, PTL DEF Spec, ImplementsChannel, Channel!Spec

\* A receptable is written at most once: set_value and set_error only ever
\* reach one that is still empty.
THEOREM ResultsAreFinal == Spec => ResultsStick
  <1> DEFINE A == \A i \in DOMAIN receptable :
                    receptable[i] # Empty => receptable'[i] = receptable[i]
  <1>1. ASSUME IInv, [Next]_vars PROVE [A]_vars
    <2> USE QueueConstants
    <2>1. /\ receptable \in Seq(Result) /\ DOMAIN receptable = 1..Len(receptable)
          /\ pendingData \in Seq(Payload)
      BY <1>1 DEF IInv, TypeOK, Result
    <2>2. CASE Accept
      <3>1. pendingData # <<>> => Head(pendingData) \in Payload
        BY <2>1, TailFacts
      <3>2. PICK v \in Result : receptable' = Append(receptable, v)
        BY <2>2, <3>1
        DEF Accept, AcceptPending, AcceptDisconnected, AcceptQueued, Result
      <3>3. \A i \in 1..Len(receptable) : receptable'[i] = receptable[i]
        BY <2>1, <3>2, AppendFacts
      <3> QED
        BY <2>1, <3>3
    <2>3. ASSUME NEW v, FeedFront(v) PROVE A
      <3>1. /\ Head(pendingAccepters) \in DOMAIN receptable
            /\ receptable[Head(pendingAccepters)] = Empty
        BY <1>1, <2>3, HeadIsFirstWaiting DEF FeedFront, Channel!FirstWaiting
      <3>2. receptable' = [receptable EXCEPT ![Head(pendingAccepters)] = v]
        BY <2>3 DEF FeedFront
      <3> QED
        BY <3>1, <3>2
    <2>4. CASE UNCHANGED receptable
      BY <2>4
    <2> QED
      BY <1>1, <2>2, <2>3, <2>4
      DEF Next, CoAwait, Supply, QueueData, Disconnect, DrainOne, DrainEnd, vars
  <1> QED
    BY <1>1, SpecIInv, PTL DEF Spec, ResultsStick
=============================================================================
