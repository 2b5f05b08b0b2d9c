------------------------ MODULE ThreadSafeQueueProofs ------------------------
(***************************************************************************)
(* Proofs about ThreadSafeQueue for every number of producers, consumers   *)
(* and closers, every capacity and every number of pushes.                 *)
(***************************************************************************)
EXTENDS ThreadSafeQueue, FiniteSetTheorems, SequenceTheorems, TLAPS

-----------------------------------------------------------------------------
\* Counting: how a finite set's size moves when one member is exchanged.

\* A set that gains a member grows by at least one.
LEMMA CardGrow ==
  ASSUME NEW S, NEW T, IsFiniteSet(T), S \subseteq T, NEW x \in T \ S
  PROVE  /\ Cardinality(S) \in Nat
         /\ Cardinality(T) \in Nat
         /\ Cardinality(S) + 1 <= Cardinality(T)
  <1>1. S \cup {x} \subseteq T
    OBVIOUS
  <1>2. IsFiniteSet(S)
    BY FS_Subset
  <1>3. Cardinality(S \cup {x}) = Cardinality(S) + 1
    BY <1>2, FS_AddElement
  <1>4. Cardinality(S \cup {x}) <= Cardinality(T)
    BY <1>1, FS_Subset
  <1> QED
    BY <1>2, <1>3, <1>4, FS_CardinalityType

\* Taking one element away takes away at most one from the size.
LEMMA CardMinus ==
  ASSUME NEW S, IsFiniteSet(S), NEW x
  PROVE  /\ Cardinality(S \ {x}) \in Nat
         /\ Cardinality(S) <= Cardinality(S \ {x}) + 1
  <1>1. IsFiniteSet(S \ {x})
    BY FS_RemoveElement
  <1>2. Cardinality(S) \in Nat /\ Cardinality(S \ {x}) \in Nat
    BY <1>1, FS_CardinalityType
  <1>3. CASE x \in S
    <2>1. Cardinality(S \ {x}) = Cardinality(S) - 1
      BY <1>3, FS_RemoveElement
    <2> QED
      BY <1>2, <2>1
  <1>4. CASE x \notin S
    <2>1. Cardinality(S \ {x}) = Cardinality(S)
      BY <1>4, FS_RemoveElement
    <2> QED
      BY <1>2, <2>1
  <1> QED
    BY <1>3, <1>4

\* A set that loses at most one member shrinks by at most one.
LEMMA CardDrop ==
  ASSUME NEW S, NEW T, IsFiniteSet(S), IsFiniteSet(T), NEW x, S \ {x} \subseteq T
  PROVE  /\ Cardinality(S) \in Nat
         /\ Cardinality(T) \in Nat
         /\ Cardinality(S) <= Cardinality(T) + 1
  <1>1. Cardinality(S \ {x}) <= Cardinality(T)
    BY FS_Subset
  <1>2. Cardinality(S) <= Cardinality(S \ {x}) + 1 /\ Cardinality(S \ {x}) \in Nat
    BY CardMinus
  <1>3. Cardinality(S) \in Nat /\ Cardinality(T) \in Nat
    BY FS_CardinalityType
  <1> QED
    BY <1>1, <1>2, <1>3

\* A set that swaps one member for a new one does not shrink.
LEMMA CardSwap ==
  ASSUME NEW S, NEW T, IsFiniteSet(S), IsFiniteSet(T),
         NEW x, S \ {x} \subseteq T, NEW y \in T \ S
  PROVE  /\ Cardinality(S) \in Nat
         /\ Cardinality(T) \in Nat
         /\ Cardinality(S) <= Cardinality(T)
  <1>1. Cardinality(S \ {x}) + 1 <= Cardinality(T)
    BY CardGrow
  <1>2. Cardinality(S) <= Cardinality(S \ {x}) + 1 /\ Cardinality(S \ {x}) \in Nat
    BY CardMinus
  <1>3. Cardinality(S) \in Nat /\ Cardinality(T) \in Nat
    BY FS_CardinalityType
  <1> QED
    BY <1>1, <1>2, <1>3

\* A set that only gains members does not shrink.
LEMMA CardKeep ==
  ASSUME NEW S, NEW T, IsFiniteSet(T), S \subseteq T
  PROVE  /\ Cardinality(S) \in Nat
         /\ Cardinality(T) \in Nat
         /\ Cardinality(S) <= Cardinality(T)
  BY FS_Subset, FS_CardinalityType

-----------------------------------------------------------------------------
\* Dequeueing moves the head across without changing the concatenation.
LEMMA ConcatMoveHead ==
  ASSUME NEW S, NEW d \in Seq(S), NEW q \in Seq(S), q # <<>>
  PROVE  Append(d, Head(q)) \o Tail(q) = d \o q
  BY SMT

-----------------------------------------------------------------------------
\* The wake-up arguments count threads; every set of them is finite.
LEMMA ThreadsFinite ==
  ASSUME NEW E, E \subseteq Producers \cup Consumers
  PROVE  IsFiniteSet(E)
  <1>1. IsFiniteSet(Producers \cup Consumers)
    BY ThreadsAssumption, FS_Union
  <1> QED
    BY <1>1, FS_Subset

\* Every state of the queue is well formed: TypeOK of ThreadSafeQueue.
THEOREM TypeCorrect == Spec => []TypeOK
  <1>1. Init => TypeOK
    <2> SUFFICES ASSUME Init PROVE TypeOK
      OBVIOUS
    <2>1. <<>> \in Seq(Values)
      OBVIOUS
    <2>2. pc \in [Threads -> {"idle"}] /\ calls \in [Producers -> Nat]
      BY DEF Init
    <2> QED
      BY <2>1, <2>2 DEF Init, TypeOK
  <1>2. TypeOK /\ [Next]_vars => TypeOK'
    <2> SUFFICES ASSUME TypeOK, [Next]_vars PROVE TypeOK'
      OBVIOUS
    <2> USE DEF TypeOK, Threads, Goto
    <2>1. ASSUME NEW p \in Producers, Push(p) PROVE TypeOK'
      BY <2>1 DEF Push
    <2>2. ASSUME NEW p \in Producers, PushLocked(p) PROVE TypeOK'
      <3>1. Current(p) \in Values
        BY DEF Current, Values
      <3>2. Append(items, Current(p)) \in Seq(Values) /\ Append(accepted, Current(p)) \in Seq(Values)
        BY <3>1
      <3>3. CASE Enqueue(p, Current(p))
        BY <2>2, <3>2, <3>3 DEF PushLocked, Enqueue
      <3>4. CASE UNCHANGED <<items, accepted, delivered>>
        BY <2>2, <3>4 DEF PushLocked, Enqueue
      <3> QED
        BY <2>2, <3>3, <3>4 DEF PushLocked
    <2>3. ASSUME NEW p \in Producers, NotifyNotEmpty(p) PROVE TypeOK'
      BY <2>3 DEF NotifyNotEmpty, NotifyOne, Waiting
    <2>4. ASSUME NEW p \in Producers, TryPush(p) PROVE TypeOK'
      <3>1. <<p, calls[p] + 1>> \in Values
        BY DEF Values
      <3>2. CASE Enqueue(p, <<p, calls[p] + 1>>)
        BY <2>4, <3>1, <3>2 DEF TryPush, Enqueue
      <3>3. CASE UNCHANGED <<items, accepted, delivered, pc>>
        BY <2>4, <3>3 DEF TryPush
      <3> QED
        BY <2>4, <3>2, <3>3 DEF TryPush
    <2>5. ASSUME NEW c \in Consumers, Pop(c) PROVE TypeOK'
      BY <2>5 DEF Pop
    <2>6. ASSUME NEW c \in Consumers, PopLocked(c) PROVE TypeOK'
      <3>1. CASE ~Empty /\ Dequeue(c)
        <4>1. Head(items) \in Values /\ Tail(items) \in Seq(Values)
          BY <3>1 DEF Empty
        <4> QED
          BY <2>6, <3>1, <4>1 DEF PopLocked, Dequeue
      <3>2. CASE Empty
        BY <2>6, <3>2 DEF PopLocked
      <3> QED
        BY <2>6, <3>1, <3>2 DEF PopLocked
    <2>7. ASSUME NEW c \in Consumers, NotifyNotFull(c) PROVE TypeOK'
      BY <2>7 DEF NotifyNotFull, NotifyOne, Waiting
    <2>8. ASSUME NEW c \in Consumers, TryPop(c) PROVE TypeOK'
      BY <2>8 DEF TryPop, Dequeue, Empty
    <2>9. ASSUME NEW t \in Producers \cup Consumers, SpuriousWakeup(t) PROVE TypeOK'
      BY <2>9 DEF SpuriousWakeup
    <2>10. ASSUME NEW k \in Closers, Close(k) PROVE TypeOK'
      BY <2>10 DEF Close
    <2>11. ASSUME NEW k \in Closers, CloseNotEmpty(k) PROVE TypeOK'
      BY <2>11 DEF CloseNotEmpty, NotifyAll
    <2>12. ASSUME NEW k \in Closers, CloseNotFull(k) PROVE TypeOK'
      BY <2>12 DEF CloseNotFull, NotifyAll
    <2>13. CASE UNCHANGED vars
      BY <2>13 DEF vars
    <2> QED
      BY <2>1, <2>2, <2>3, <2>4, <2>5, <2>6, <2>7, <2>8, <2>9, <2>10, <2>11,
         <2>12, <2>13 DEF Next
  <1> QED
    BY <1>1, <1>2, PTL DEF Spec

-----------------------------------------------------------------------------
\* Safety of the contents: the bound, and first-in first-out without loss.

\* A step leaves the histories alone, enqueues below the bound, or dequeues.
LEMMA QueueStep ==
  ASSUME TypeOK, [Next]_vars
  PROVE  \/ UNCHANGED <<items, accepted, delivered>>
         \/ \E v \in Values : /\ ~Full
                              /\ items' = Append(items, v)
                              /\ accepted' = Append(accepted, v)
                              /\ delivered' = delivered
         \/ /\ items # <<>>
            /\ items' = Tail(items)
            /\ delivered' = Append(delivered, Head(items))
            /\ accepted' = accepted
  <1>1. ASSUME NEW p \in Producers, PushLocked(p) \/ TryPush(p)
        PROVE  \/ UNCHANGED <<items, accepted, delivered>>
               \/ \E v \in Values : /\ ~Full
                                    /\ items' = Append(items, v)
                                    /\ accepted' = Append(accepted, v)
                                    /\ delivered' = delivered
    <2>1. Current(p) \in Values /\ <<p, calls[p] + 1>> \in Values
      BY DEF Current, Values, TypeOK
    <2> QED
      BY <1>1, <2>1 DEF PushLocked, TryPush, Enqueue
  <1>2. ASSUME NEW c \in Consumers, PopLocked(c) \/ TryPop(c)
        PROVE  \/ UNCHANGED <<items, accepted, delivered>>
               \/ /\ items # <<>>
                  /\ items' = Tail(items)
                  /\ delivered' = Append(delivered, Head(items))
                  /\ accepted' = accepted
    BY <1>2 DEF PopLocked, TryPop, Dequeue, Empty
  <1> QED
    BY <1>1, <1>2 DEF Next, vars, Push, NotifyNotEmpty, Pop, NotifyNotFull,
       SpuriousWakeup, Close, CloseNotEmpty, CloseNotFull

\* items_ never holds more than capacity_, for every capacity and every number
\* of threads: push and tryPush re-test the bound under the mutex.
THEOREM Bounded == Spec => []NeverExceedsItsBound
  <1>1. Init => NeverExceedsItsBound
    BY BoundsAssumption DEF Init, NeverExceedsItsBound, capacity
  <1>2. TypeOK /\ NeverExceedsItsBound /\ [Next]_vars => NeverExceedsItsBound'
    <2> SUFFICES ASSUME TypeOK, NeverExceedsItsBound, [Next]_vars
                 PROVE  Len(items') <= capacity
      BY DEF NeverExceedsItsBound, capacity
    <2>1. capacity \in Nat /\ items \in Seq(Values) /\ Len(items) <= capacity
      BY BoundsAssumption DEF capacity, TypeOK, NeverExceedsItsBound
    <2>2. CASE items' = items
      BY <2>1, <2>2
    <2>3. ASSUME NEW v \in Values, ~Full, items' = Append(items, v)
          PROVE  Len(items') <= capacity
      BY <2>1, <2>3 DEF Full
    <2>4. CASE items # <<>> /\ items' = Tail(items)
      BY <2>1, <2>4
    <2> QED
      BY <2>2, <2>3, <2>4, QueueStep
  <1> QED
    BY <1>1, <1>2, TypeCorrect, PTL DEF Spec

\* Every accepted value is delivered once and in order, or still queued: no
\* push, pop, wakeup or close loses, duplicates or reorders one.
THEOREM Fifo == Spec => []LosesNothing
  <1>1. Init => LosesNothing
    BY DEF Init, LosesNothing
  <1>2. TypeOK /\ LosesNothing /\ [Next]_vars => LosesNothing'
    <2> SUFFICES ASSUME TypeOK, LosesNothing, [Next]_vars
                 PROVE  accepted' = delivered' \o items'
      BY DEF LosesNothing
    <2>1. /\ items \in Seq(Values) /\ delivered \in Seq(Values)
          /\ accepted = delivered \o items
      BY DEF TypeOK, LosesNothing
    <2>2. CASE UNCHANGED <<items, accepted, delivered>>
      BY <2>1, <2>2
    <2>3. ASSUME NEW v \in Values, items' = Append(items, v),
                 accepted' = Append(accepted, v), delivered' = delivered
          PROVE  accepted' = delivered' \o items'
      <3>1. delivered \o Append(items, v) = Append(delivered \o items, v)
        BY <2>1, SMT
      <3> QED
        BY <2>1, <2>3, <3>1, Zenon
    <2>4. CASE /\ items # <<>> /\ items' = Tail(items)
               /\ delivered' = Append(delivered, Head(items)) /\ accepted' = accepted
      <3>1. Append(delivered, Head(items)) \o Tail(items) = delivered \o items
        BY <2>1, <2>4, ConcatMoveHead, Zenon
      <3> QED
        BY <2>1, <2>4, <3>1, Zenon
    <2> QED
      BY <2>2, <2>3, <2>4, QueueStep
  <1> QED
    BY <1>1, <1>2, TypeCorrect, PTL DEF Spec

\* A consumer leaves its loop only when the queue is closed and drained, and
\* nothing is accepted after that: pop returns nullopt at no other time.
THEOREM Drained == Spec => []ExitsOnlyWhenDrained
  <1>1. Init => ExitsOnlyWhenDrained
    BY DEF Init, ExitsOnlyWhenDrained, Threads
  <1>2. TypeOK /\ ExitsOnlyWhenDrained /\ [Next]_vars => ExitsOnlyWhenDrained'
    <2> SUFFICES ASSUME TypeOK, ExitsOnlyWhenDrained, [Next]_vars,
                        NEW d \in Consumers, pc'[d] = "exited"
                 PROVE  closed' /\ items' = <<>>
      BY DEF ExitsOnlyWhenDrained
    <2> USE DEF TypeOK, Threads, Goto
    <2>1. CASE pc[d] = "exited"
      <3>1. closed /\ items = <<>>
        BY <2>1 DEF ExitsOnlyWhenDrained
      <3>2. closed'
        BY <3>1 DEF Next, vars, Push, PushLocked, NotifyNotEmpty, TryPush, Pop,
           PopLocked, NotifyNotFull, TryPop, SpuriousWakeup, Close,
           CloseNotEmpty, CloseNotFull
      <3>3. items' = items
        BY <3>1 DEF Next, vars, Push, PushLocked, NotifyNotEmpty, TryPush, Pop,
           PopLocked, NotifyNotFull, TryPop, SpuriousWakeup, Close,
           CloseNotEmpty, CloseNotFull, Empty, Enqueue, Dequeue
      <3> QED
        BY <3>1, <3>2, <3>3
    <2>2. CASE pc[d] # "exited"
      <3>1. PopLocked(d)
        BY <2>2, ThreadsAssumption DEF Next, vars, Push, PushLocked,
           NotifyNotEmpty, TryPush, Pop, PopLocked, NotifyNotFull, TryPop,
           SpuriousWakeup, Close, CloseNotEmpty, CloseNotFull, NotifyOne,
           NotifyAll, Waiting, Enqueue, Dequeue
      <3> QED
        BY <2>2, <3>1 DEF PopLocked, Dequeue, Empty
    <2> QED
      BY <2>1, <2>2
  <1> QED
    BY <1>1, <1>2, TypeCorrect, PTL DEF Spec

-----------------------------------------------------------------------------
\* No lost wakeup.  Each invariant needs only TypeOK beside itself; what has to
\* be counted is the set EnRoute before and after a step.

\* A consumer asleep on notEmpty_ while items are queued always has that many
\* wakeups on the way, whatever the interleaving of the notify calls, which
\* push and close make after releasing the mutex.
THEOREM ConsumersAreWoken == Spec => []NoConsumerLeftAsleep
  <1> DEFINE C == EnRoute(Consumers, Producers)
             Counted == Len(items) <= Cardinality(C)
             Flagged == closed => \E k \in Closers : pc[k] = "wakeConsumers"
  <1>1. Init => NoConsumerLeftAsleep
    BY DEF Init, NoConsumerLeftAsleep, Waiting, Threads
  <1>2. TypeOK /\ NoConsumerLeftAsleep /\ [Next]_vars => NoConsumerLeftAsleep'
    <2> SUFFICES ASSUME TypeOK, NoConsumerLeftAsleep, [Next]_vars,
                        Waiting(Consumers)' # {}
                 PROVE  Counted' /\ Flagged'
      BY DEF NoConsumerLeftAsleep
    <2> USE DEF Threads, Goto, Waiting
    <2>t. /\ pc \in [Threads -> {"idle", "enter", "blocked", "notify", "exited",
                                 "wakeConsumers", "wakeProducers"}]
          /\ items \in Seq(Values) /\ Len(items) \in Nat
      BY DEF TypeOK
    <2>f. IsFiniteSet(C) /\ IsFiniteSet(C')
      BY ThreadsFinite DEF EnRoute
    <2>i. Waiting(Consumers) # {} => Counted /\ Flagged
      BY DEF NoConsumerLeftAsleep
    <2>k. ASSUME Waiting(Consumers) # {}, C \subseteq C', items' = items
          PROVE  Counted'
      BY <2>k, <2>t, <2>f, <2>i, CardKeep
    <2>1. ASSUME NEW p \in Producers, Push(p) PROVE Counted' /\ Flagged'
      <3>1. Waiting(Consumers) # {} /\ C \subseteq C' /\ items' = items
        BY <2>1, <2>t, ThreadsAssumption DEF Push, EnRoute
      <3>2. Flagged'
        BY <2>1, <2>t, <2>i, <3>1, ThreadsAssumption DEF Push
      <3> QED
        BY <2>k, <3>1, <3>2
    <2>2. ASSUME NEW p \in Producers, PushLocked(p) PROVE Counted' /\ Flagged'
      <3>1. Waiting(Consumers) # {}
        BY <2>2, <2>t, ThreadsAssumption DEF PushLocked, Enqueue
      <3>2. Flagged'
        BY <2>2, <2>t, <2>i, <3>1, ThreadsAssumption DEF PushLocked, Enqueue
      <3>3. CASE Enqueue(p, Current(p))
        <4>1. C \subseteq C' /\ p \in C' \ C
          BY <2>2, <3>3, <2>t, ThreadsAssumption DEF PushLocked, Enqueue, EnRoute
        <4>2. Len(items') = Len(items) + 1
          BY <3>3, <2>t DEF Enqueue
        <4> QED
          BY <4>1, <4>2, <2>t, <2>f, <2>i, <3>1, <3>2, CardGrow
      <3>4. CASE items' = items
        <4>1. C \subseteq C'
          BY <2>2, <3>4, <2>t, ThreadsAssumption DEF PushLocked, Enqueue, EnRoute
        <4> QED
          BY <4>1, <3>1, <3>2, <3>4, <2>k
      <3> QED
        BY <2>2, <3>3, <3>4 DEF PushLocked
    <2>3. ASSUME NEW p \in Producers, NotifyNotEmpty(p) PROVE Counted' /\ Flagged'
      <3>1. PICK w \in Waiting(Consumers) : pc' = [pc EXCEPT ![p] = "idle", ![w] = "enter"]
        BY <2>3, <2>t, ThreadsAssumption DEF NotifyNotEmpty, NotifyOne
      <3>2. C \ {p} \subseteq C' /\ w \in C' \ C
        BY <3>1, <2>3, <2>t, ThreadsAssumption DEF EnRoute
      <3>3. Cardinality(C) \in Nat /\ Cardinality(C') \in Nat /\ Cardinality(C) <= Cardinality(C')
        BY <3>2, <2>f, CardSwap
      <3>4. items' = items
        BY <2>3 DEF NotifyNotEmpty
      <3>5. Flagged'
        BY <2>3, <2>t, <2>i, <3>1, ThreadsAssumption DEF NotifyNotEmpty
      <3> QED
        BY <3>1, <3>3, <3>4, <3>5, <2>t, <2>i
    <2>4. ASSUME NEW p \in Producers, TryPush(p) PROVE Counted' /\ Flagged'
      <3>1. Waiting(Consumers) # {}
        BY <2>4, <2>t, ThreadsAssumption DEF TryPush, Enqueue
      <3>2. Flagged'
        BY <2>4, <2>t, <2>i, <3>1, ThreadsAssumption DEF TryPush, Enqueue
      <3>3. CASE Enqueue(p, <<p, calls[p] + 1>>)
        <4>1. C \subseteq C' /\ p \in C' \ C
          BY <2>4, <3>3, <2>t, ThreadsAssumption DEF TryPush, Enqueue, EnRoute
        <4>2. Len(items') = Len(items) + 1
          BY <3>3, <2>t DEF Enqueue
        <4> QED
          BY <4>1, <4>2, <2>t, <2>f, <2>i, <3>1, <3>2, CardGrow
      <3>4. CASE UNCHANGED <<items, accepted, delivered, pc>>
        BY <3>4, <3>1, <3>2, <2>k DEF EnRoute
      <3> QED
        BY <2>4, <3>3, <3>4 DEF TryPush
    <2>5. ASSUME NEW c \in Consumers, Pop(c) PROVE Counted' /\ Flagged'
      <3>1. Waiting(Consumers) # {} /\ C \subseteq C' /\ items' = items
        BY <2>5, <2>t, ThreadsAssumption DEF Pop, EnRoute
      <3>2. Flagged'
        BY <2>5, <2>t, <2>i, <3>1, ThreadsAssumption DEF Pop
      <3> QED
        BY <2>k, <3>1, <3>2
    <2>6. ASSUME NEW c \in Consumers, PopLocked(c) PROVE Counted' /\ Flagged'
      <3>1. CASE Empty
        <4>1. Len(items') = 0
          BY <2>6, <3>1 DEF PopLocked, Empty, Dequeue
        <4>2. Cardinality(C') \in Nat
          BY <2>f, FS_CardinalityType
        <4>3. Flagged'
          <5>1. CASE closed
            <6>1. Waiting(Consumers) # {}
              BY <2>6, <3>1, <5>1, <2>t DEF PopLocked
            <6> QED
              BY <2>6, <3>1, <5>1, <6>1, <2>t, <2>i, ThreadsAssumption DEF PopLocked
          <5> QED
            BY <2>6, <5>1 DEF PopLocked
        <4> QED
          BY <4>1, <4>2, <4>3
      <3>2. CASE ~Empty
        <4>1. Dequeue(c) /\ closed' = closed /\ pc[c] = "enter"
          BY <2>6, <3>2 DEF PopLocked
        <4>2. Waiting(Consumers) # {} /\ C \ {c} \subseteq C'
          BY <4>1, <2>t, ThreadsAssumption DEF Dequeue, EnRoute
        <4>3. Len(items') = Len(items) - 1
          BY <4>1, <3>2, <2>t DEF Dequeue, Empty
        <4>4. /\ Cardinality(C) \in Nat /\ Cardinality(C') \in Nat
              /\ Cardinality(C) <= Cardinality(C') + 1
          BY <4>2, <2>f, CardDrop
        <4>5. Flagged'
          BY <4>1, <4>2, <2>t, <2>i, ThreadsAssumption DEF Dequeue
        <4> QED
          BY <4>2, <4>3, <4>4, <4>5, <2>t, <2>i
      <3> QED
        BY <3>1, <3>2
    <2>7. ASSUME NEW c \in Consumers, NotifyNotFull(c) PROVE Counted' /\ Flagged'
      <3>1. Waiting(Consumers) # {} /\ C \subseteq C' /\ items' = items
        BY <2>7, <2>t, ThreadsAssumption DEF NotifyNotFull, NotifyOne, EnRoute
      <3>2. Flagged'
        BY <2>7, <2>t, <2>i, <3>1, ThreadsAssumption DEF NotifyNotFull, NotifyOne
      <3> QED
        BY <2>k, <3>1, <3>2
    <2>8. ASSUME NEW c \in Consumers, TryPop(c) PROVE Counted' /\ Flagged'
      <3>1. Waiting(Consumers) # {} /\ C \subseteq C'
        BY <2>8, <2>t, ThreadsAssumption DEF TryPop, Dequeue, EnRoute
      <3>2. Len(items') = Len(items) - 1
        BY <2>8, <2>t DEF TryPop, Dequeue, Empty
      <3>3. /\ Cardinality(C) \in Nat /\ Cardinality(C') \in Nat
            /\ Cardinality(C) <= Cardinality(C')
        BY <3>1, <2>f, CardKeep
      <3>4. Flagged'
        BY <2>8, <3>1, <2>t, <2>i, ThreadsAssumption DEF TryPop, Dequeue
      <3> QED
        BY <3>1, <3>2, <3>3, <3>4, <2>t, <2>i
    <2>9. ASSUME NEW t \in Producers \cup Consumers, SpuriousWakeup(t)
          PROVE  Counted' /\ Flagged'
      <3>1. Waiting(Consumers) # {} /\ C \subseteq C' /\ items' = items
        BY <2>9, <2>t, ThreadsAssumption DEF SpuriousWakeup, EnRoute
      <3>2. Flagged'
        BY <2>9, <2>t, <2>i, <3>1, ThreadsAssumption DEF SpuriousWakeup
      <3> QED
        BY <2>k, <3>1, <3>2
    <2>10. ASSUME NEW k \in Closers, Close(k) PROVE Counted' /\ Flagged'
      <3>1. Waiting(Consumers) # {} /\ C \subseteq C' /\ items' = items
        BY <2>10, <2>t, ThreadsAssumption DEF Close, EnRoute
      <3>2. Flagged'
        BY <2>10, <2>t, ThreadsAssumption DEF Close
      <3> QED
        BY <2>k, <3>1, <3>2
    <2>11. ASSUME NEW k \in Closers, CloseNotEmpty(k) PROVE FALSE
      BY <2>11, <2>t, ThreadsAssumption DEF CloseNotEmpty, NotifyAll
    <2>12. ASSUME NEW k \in Closers, CloseNotFull(k) PROVE Counted' /\ Flagged'
      <3>1. Waiting(Consumers) # {} /\ C \subseteq C' /\ items' = items
        BY <2>12, <2>t, ThreadsAssumption DEF CloseNotFull, NotifyAll, EnRoute
      <3>2. Flagged'
        BY <2>12, <2>t, <2>i, <3>1, ThreadsAssumption DEF CloseNotFull, NotifyAll
      <3> QED
        BY <2>k, <3>1, <3>2
    <2>13. CASE UNCHANGED vars
      BY <2>13, <2>i DEF vars, EnRoute
    <2> QED
      BY <2>1, <2>2, <2>3, <2>4, <2>5, <2>6, <2>7, <2>8, <2>9, <2>10, <2>11,
         <2>12, <2>13 DEF Next
  <1> QED
    BY <1>1, <1>2, TypeCorrect, PTL DEF Spec

\* A producer asleep on notFull_ while the queue is open always has one wakeup
\* on the way for each free slot, and on a closed queue a closer that has not
\* notified yet: pop's notify_one and close's notify_all cannot be missed.
THEOREM ProducersAreWoken == Spec => []NoProducerLeftAsleep
  <1> DEFINE P == EnRoute(Producers, Consumers)
             Counted == ~closed => capacity <= Len(items) + Cardinality(P)
             Flagged == closed => \E k \in Closers : pc[k] \in {"wakeConsumers", "wakeProducers"}
  <1>1. Init => NoProducerLeftAsleep
    BY DEF Init, NoProducerLeftAsleep, Waiting, Threads
  <1>2. TypeOK /\ NoProducerLeftAsleep /\ [Next]_vars => NoProducerLeftAsleep'
    <2> SUFFICES ASSUME TypeOK, NoProducerLeftAsleep, [Next]_vars,
                        Waiting(Producers)' # {}
                 PROVE  Counted' /\ Flagged'
      BY DEF NoProducerLeftAsleep
    <2> USE DEF Threads, Goto, Waiting
    <2>t. /\ pc \in [Threads -> {"idle", "enter", "blocked", "notify", "exited",
                                 "wakeConsumers", "wakeProducers"}]
          /\ items \in Seq(Values) /\ Len(items) \in Nat
      BY DEF TypeOK
    <2>c. capacity \in Nat /\ capacity' = capacity
      BY BoundsAssumption DEF capacity
    <2>f. IsFiniteSet(P) /\ IsFiniteSet(P')
      BY ThreadsFinite DEF EnRoute
    <2>i. Waiting(Producers) # {} => Counted /\ Flagged
      BY DEF NoProducerLeftAsleep
    <2>k. ASSUME Waiting(Producers) # {}, P \subseteq P', items' = items, closed' = closed
          PROVE  Counted'
      BY <2>k, <2>t, <2>c, <2>f, <2>i, CardKeep
    <2>1. ASSUME NEW p \in Producers, Push(p) PROVE Counted' /\ Flagged'
      <3>1. Waiting(Producers) # {} /\ P \subseteq P' /\ items' = items /\ closed' = closed
        BY <2>1, <2>t, ThreadsAssumption DEF Push, EnRoute
      <3>2. Flagged'
        BY <2>1, <2>t, <2>i, <3>1, ThreadsAssumption DEF Push
      <3> QED
        BY <2>k, <3>1, <3>2
    <2>2. ASSUME NEW p \in Producers, PushLocked(p) PROVE Counted' /\ Flagged'
      <3>1. CASE closed
        <4>1. Waiting(Producers) # {} /\ closed'
          BY <2>2, <3>1, <2>t, ThreadsAssumption DEF PushLocked
        <4> QED
          BY <2>2, <3>1, <4>1, <2>t, <2>i, ThreadsAssumption DEF PushLocked
      <3>2. CASE ~closed /\ Enqueue(p, Current(p))
        <4>1. Waiting(Producers) # {} /\ P \ {p} \subseteq P' /\ closed' = closed
          BY <2>2, <3>2, <2>t, ThreadsAssumption DEF PushLocked, Enqueue, EnRoute
        <4>2. Len(items') = Len(items) + 1
          BY <3>2, <2>t DEF Enqueue
        <4>3. /\ Cardinality(P) \in Nat /\ Cardinality(P') \in Nat
              /\ Cardinality(P) <= Cardinality(P') + 1
          BY <4>1, <2>f, CardDrop
        <4> QED
          BY <4>1, <4>2, <4>3, <3>2, <2>t, <2>c, <2>i
      <3>3. CASE ~closed /\ Full /\ items' = items /\ closed' = closed
        <4>1. Cardinality(P') \in Nat
          BY <2>f, FS_CardinalityType
        <4> QED
          BY <4>1, <3>3, <2>t, <2>c DEF Full
      <3> QED
        BY <2>2, <3>1, <3>2, <3>3 DEF PushLocked
    <2>3. ASSUME NEW p \in Producers, NotifyNotEmpty(p) PROVE Counted' /\ Flagged'
      <3>1. Waiting(Producers) # {} /\ P \subseteq P' /\ items' = items /\ closed' = closed
        BY <2>3, <2>t, ThreadsAssumption DEF NotifyNotEmpty, NotifyOne, EnRoute
      <3>2. Flagged'
        BY <2>3, <2>t, <2>i, <3>1, ThreadsAssumption DEF NotifyNotEmpty, NotifyOne
      <3> QED
        BY <2>k, <3>1, <3>2
    <2>4. ASSUME NEW p \in Producers, TryPush(p) PROVE Counted' /\ Flagged'
      <3>1. Waiting(Producers) # {} /\ closed' = closed /\ P \subseteq P'
        BY <2>4, <2>t, ThreadsAssumption DEF TryPush, Enqueue, EnRoute
      <3>2. Flagged'
        BY <2>4, <2>t, <2>i, <3>1, ThreadsAssumption DEF TryPush, Enqueue
      <3>3. CASE Enqueue(p, <<p, calls[p] + 1>>)
        <4>1. Len(items') = Len(items) + 1
          BY <3>3, <2>t DEF Enqueue
        <4>2. /\ Cardinality(P) \in Nat /\ Cardinality(P') \in Nat
              /\ Cardinality(P) <= Cardinality(P')
          BY <3>1, <2>f, CardKeep
        <4> QED
          BY <4>1, <4>2, <3>1, <3>2, <2>t, <2>c, <2>i
      <3>4. CASE UNCHANGED <<items, accepted, delivered, pc>>
        BY <3>4, <3>1, <3>2, <2>k
      <3> QED
        BY <2>4, <3>3, <3>4 DEF TryPush
    <2>5. ASSUME NEW c \in Consumers, Pop(c) PROVE Counted' /\ Flagged'
      <3>1. Waiting(Producers) # {} /\ P \subseteq P' /\ items' = items /\ closed' = closed
        BY <2>5, <2>t, ThreadsAssumption DEF Pop, EnRoute
      <3>2. Flagged'
        BY <2>5, <2>t, <2>i, <3>1, ThreadsAssumption DEF Pop
      <3> QED
        BY <2>k, <3>1, <3>2
    <2>6. ASSUME NEW c \in Consumers, PopLocked(c) PROVE Counted' /\ Flagged'
      <3>1. Waiting(Producers) # {} /\ P \subseteq P' /\ closed' = closed
        BY <2>6, <2>t, ThreadsAssumption DEF PopLocked, Dequeue, EnRoute
      <3>2. Flagged'
        BY <2>6, <2>t, <2>i, <3>1, ThreadsAssumption DEF PopLocked, Dequeue
      <3>3. CASE ~Empty /\ Dequeue(c)
        <4>1. Len(items') = Len(items) - 1
          BY <3>3, <2>t DEF Dequeue, Empty
        <4>2. c \in P' \ P
          BY <3>3, <2>6, <2>t, ThreadsAssumption DEF PopLocked, Dequeue, EnRoute
        <4>3. /\ Cardinality(P) \in Nat /\ Cardinality(P') \in Nat
              /\ Cardinality(P) + 1 <= Cardinality(P')
          BY <4>2, <3>1, <2>f, CardGrow
        <4> QED
          BY <4>1, <4>3, <3>1, <3>2, <2>t, <2>c, <2>i
      <3>4. CASE items' = items
        BY <3>4, <3>1, <3>2, <2>k
      <3> QED
        BY <2>6, <3>3, <3>4 DEF PopLocked
    <2>7. ASSUME NEW c \in Consumers, NotifyNotFull(c) PROVE Counted' /\ Flagged'
      <3>1. PICK w \in Waiting(Producers) : pc' = [pc EXCEPT ![c] = "idle", ![w] = "enter"]
        BY <2>7, <2>t, ThreadsAssumption DEF NotifyNotFull, NotifyOne
      <3>2. P \ {c} \subseteq P' /\ w \in P' \ P
        BY <3>1, <2>7, <2>t, ThreadsAssumption DEF EnRoute
      <3>3. Cardinality(P) \in Nat /\ Cardinality(P') \in Nat /\ Cardinality(P) <= Cardinality(P')
        BY <3>2, <2>f, CardSwap
      <3>4. items' = items /\ closed' = closed
        BY <2>7 DEF NotifyNotFull
      <3>5. Flagged'
        BY <2>7, <2>t, <2>i, <3>1, ThreadsAssumption DEF NotifyNotFull
      <3> QED
        BY <3>1, <3>3, <3>4, <3>5, <2>t, <2>c, <2>i
    <2>8. ASSUME NEW c \in Consumers, TryPop(c) PROVE Counted' /\ Flagged'
      <3>1. Waiting(Producers) # {} /\ P \subseteq P' /\ closed' = closed /\ c \in P' \ P
        BY <2>8, <2>t, ThreadsAssumption DEF TryPop, Dequeue, EnRoute
      <3>2. Len(items') = Len(items) - 1
        BY <2>8, <2>t DEF TryPop, Dequeue, Empty
      <3>3. /\ Cardinality(P) \in Nat /\ Cardinality(P') \in Nat
            /\ Cardinality(P) + 1 <= Cardinality(P')
        BY <3>1, <2>f, CardGrow
      <3>4. Flagged'
        BY <2>8, <3>1, <2>t, <2>i, ThreadsAssumption DEF TryPop, Dequeue
      <3> QED
        BY <3>1, <3>2, <3>3, <3>4, <2>t, <2>c, <2>i
    <2>9. ASSUME NEW t \in Producers \cup Consumers, SpuriousWakeup(t)
          PROVE  Counted' /\ Flagged'
      <3>1. Waiting(Producers) # {} /\ P \subseteq P' /\ items' = items /\ closed' = closed
        BY <2>9, <2>t, ThreadsAssumption DEF SpuriousWakeup, EnRoute
      <3>2. Flagged'
        BY <2>9, <2>t, <2>i, <3>1, ThreadsAssumption DEF SpuriousWakeup
      <3> QED
        BY <2>k, <3>1, <3>2
    <2>10. ASSUME NEW k \in Closers, Close(k) PROVE Counted' /\ Flagged'
      BY <2>10, <2>t, ThreadsAssumption DEF Close
    <2>11. ASSUME NEW k \in Closers, CloseNotEmpty(k) PROVE Counted' /\ Flagged'
      <3>1. Waiting(Producers) # {} /\ P \subseteq P' /\ items' = items /\ closed' = closed
        BY <2>11, <2>t, ThreadsAssumption DEF CloseNotEmpty, NotifyAll, EnRoute
      <3>2. Flagged'
        BY <2>11, <2>t, <2>i, <3>1, ThreadsAssumption DEF CloseNotEmpty, NotifyAll
      <3> QED
        BY <2>k, <3>1, <3>2
    <2>12. ASSUME NEW k \in Closers, CloseNotFull(k) PROVE FALSE
      BY <2>12, <2>t, ThreadsAssumption DEF CloseNotFull, NotifyAll
    <2>13. CASE UNCHANGED vars
      BY <2>13, <2>i, <2>c DEF vars, EnRoute
    <2> QED
      BY <2>1, <2>2, <2>3, <2>4, <2>5, <2>6, <2>7, <2>8, <2>9, <2>10, <2>11,
         <2>12, <2>13 DEF Next
  <1> QED
    BY <1>1, <1>2, TypeCorrect, PTL DEF Spec

-----------------------------------------------------------------------------
\* The queue as its callers see it.

\* A producer starts at most PushLimit pushes, so its values are the channel's.
CallsBounded == \A p \in Producers : calls[p] \in 0 .. PushLimit

\* push and tryPush count a call only below the limit.
LEMMA CallsStayBounded == Spec => []CallsBounded
  <1>1. Init => CallsBounded
    BY BoundsAssumption DEF Init, CallsBounded
  <1>2. TypeOK /\ CallsBounded /\ [Next]_vars => CallsBounded'
    <2> SUFFICES ASSUME TypeOK, CallsBounded, [Next]_vars, NEW q \in Producers
                 PROVE  calls'[q] \in 0 .. PushLimit
      BY DEF CallsBounded
    <2>1. ASSUME NEW p \in Producers, Push(p) \/ TryPush(p)
          PROVE  calls'[q] \in 0 .. PushLimit
      BY <2>1, BoundsAssumption DEF TypeOK, CallsBounded, Push, TryPush
    <2>2. CASE calls' = calls
      BY <2>2 DEF CallsBounded
    <2> QED
      BY <2>1, <2>2 DEF Next, vars, PushLocked, NotifyNotEmpty, Pop, PopLocked,
         NotifyNotFull, TryPop, SpuriousWakeup, Close, CloseNotEmpty, CloseNotFull
  <1> QED
    BY <1>1, <1>2, TypeCorrect, PTL DEF Spec

\* Locks, sleeps, late notifications and spurious wakeups are invisible: every
\* step of the queue is a Put, a Get or a close of an atomic bounded channel, or
\* leaves the channel as it was.
THEOREM ChannelImplemented == Spec => ImplementsChannel
  <1>1. Init => Channel!Init
    BY DEF Init, Channel!Init
  <1>2. TypeOK /\ CallsBounded /\ [Next]_vars => [Channel!Next]_(Channel!vars)
    <2> SUFFICES ASSUME TypeOK, CallsBounded, [Next]_vars
                 PROVE  [Channel!Next]_(Channel!vars)
      OBVIOUS
    <2> DEFINE Offered == Producers \X (0 .. PushLimit)
    <2>1. ASSUME NEW v \in Offered, ~closed, ~Full, items' = Append(items, v),
                 accepted' = Append(accepted, v), UNCHANGED <<closed, delivered>>
          PROVE  Channel!Next
      <3>1. Len(items) < capacity
        BY <2>1, BoundsAssumption DEF Full, capacity, TypeOK
      <3>2. Channel!Put(v)
        BY <2>1, <3>1 DEF Channel!Put
      <3> QED
        BY <3>2 DEF Channel!Next
    <2>2. ASSUME NEW p \in Producers, PushLocked(p) PROVE [Channel!Next]_(Channel!vars)
      <3>1. Current(p) \in Offered
        BY DEF Current, CallsBounded
      <3>2. CASE ~closed /\ ~Full /\ Enqueue(p, Current(p))
        BY <2>1, <2>2, <3>1, <3>2 DEF PushLocked, Enqueue
      <3>3. CASE UNCHANGED <<items, accepted, delivered>>
        BY <2>2, <3>3 DEF PushLocked, Channel!vars
      <3> QED
        BY <2>2, <3>2, <3>3 DEF PushLocked
    <2>3. ASSUME NEW p \in Producers, TryPush(p) PROVE [Channel!Next]_(Channel!vars)
      <3>1. <<p, calls[p] + 1>> \in Offered
        BY <2>3, BoundsAssumption DEF TryPush, CallsBounded
      <3>2. CASE ~closed /\ ~Full /\ Enqueue(p, <<p, calls[p] + 1>>)
        BY <2>1, <2>3, <3>1, <3>2 DEF TryPush, Enqueue
      <3>3. CASE UNCHANGED <<items, accepted, delivered, pc>>
        BY <2>3, <3>3 DEF TryPush, Channel!vars
      <3> QED
        BY <2>3, <3>2, <3>3 DEF TryPush
    <2>4. ASSUME NEW c \in Consumers, PopLocked(c) \/ TryPop(c)
          PROVE  [Channel!Next]_(Channel!vars)
      BY <2>4 DEF PopLocked, TryPop, Dequeue, Empty, Channel!vars, Channel!Next, Channel!Get
    <2>5. ASSUME NEW k \in Closers, Close(k) PROVE [Channel!Next]_(Channel!vars)
      BY <2>5 DEF Close, Channel!Next, Channel!CloseChannel
    <2>6. CASE UNCHANGED <<items, closed, accepted, delivered>>
      BY <2>6 DEF Channel!vars
    <2> QED
      BY <2>2, <2>3, <2>4, <2>5, <2>6 DEF Next, vars, Push, NotifyNotEmpty, Pop,
         NotifyNotFull, SpuriousWakeup, CloseNotEmpty, CloseNotFull
  <1> QED
    BY <1>1, <1>2, TypeCorrect, CallsStayBounded, PTL DEF Spec, ImplementsChannel, Channel!Spec

=============================================================================
