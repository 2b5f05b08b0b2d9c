--------------------------- MODULE ThreadSafeQueue ---------------------------
(***************************************************************************)
(* concurrent/thread_safe_queue.hpp: the bounded queue between the network *)
(* side and the engine thread, and inside the worker pool.                 *)
(*                                                                         *)
(* A critical section of mutex_ is one step: nobody else can look inside   *)
(* it.  What the code does outside the mutex is a step of its own: asking  *)
(* for the lock (pc "enter"), sleeping on a condition variable (pc         *)
(* "blocked"), and the notify that follows the unlock (pc "notify").  The  *)
(* predicate of wait() is evaluated and the sleep begins in one step, as   *)
(* std::condition_variable guarantees.                                     *)
(***************************************************************************)
EXTENDS Naturals, Sequences, FiniteSets

CONSTANTS Producers,  \* threads that call push / tryPush
          Consumers,  \* threads that loop on pop, as Engine::run and ThreadPool::run do
          Closers,    \* threads that call close
          Capacity,   \* the constructor's argument
          PushLimit   \* bound: pushes one producer attempts

ASSUME ThreadsAssumption ==
  /\ IsFiniteSet(Producers) /\ IsFiniteSet(Consumers) /\ IsFiniteSet(Closers)
  /\ Producers \cap Consumers = {}
  /\ Producers \cap Closers = {}
  /\ Consumers \cap Closers = {}

ASSUME BoundsAssumption == Capacity \in Nat /\ PushLimit \in Nat

VARIABLES items,      \* items_, front first
          closed,     \* closed_
          pc,         \* where each thread is
          calls,      \* pushes each producer has started
          accepted,   \* history: every value a push enqueued, in order
          delivered   \* history: every value a pop returned, in order

vars == <<items, closed, pc, calls, accepted, delivered>>

Threads == Producers \cup Consumers \cup Closers

\* The n-th value a producer pushes; only its identity matters to the queue.
Values == Producers \X Nat
Current(p) == <<p, calls[p]>>

\* A capacity of zero is raised to one by the constructor.
capacity == IF Capacity = 0 THEN 1 ELSE Capacity

Full  == Len(items) >= capacity
Empty == items = <<>>

Waiting(group) == {t \in group : pc[t] = "blocked"}

Init ==
  /\ items = <<>>
  /\ closed = FALSE
  /\ pc = [t \in Threads |-> "idle"]
  /\ calls = [p \in Producers |-> 0]
  /\ accepted = <<>>
  /\ delivered = <<>>

Goto(t, label) == pc' = [pc EXCEPT ![t] = label]

\* notify_one: wakes one sleeper of the group, whichever the library picks;
\* a notification nobody sleeps on is lost.  The caller t then moves on.
NotifyOne(t, group) ==
  \/ /\ Waiting(group) = {}
     /\ Goto(t, "idle")
  \/ \E w \in Waiting(group) : pc' = [pc EXCEPT ![t] = "idle", ![w] = "enter"]

NotifyAll(t, group, label) ==
  pc' = [u \in Threads |-> IF u \in Waiting(group) THEN "enter"
                           ELSE IF u = t THEN label ELSE pc[u]]

Enqueue(p, value) ==
  /\ items' = Append(items, value)
  /\ accepted' = Append(accepted, value)
  /\ Goto(p, "notify")
  /\ UNCHANGED delivered

Dequeue(c) ==
  /\ items' = Tail(items)
  /\ delivered' = Append(delivered, Head(items))
  /\ Goto(c, "notify")
  /\ UNCHANGED accepted

-----------------------------------------------------------------------------
\* push

Push(p) ==
  /\ pc[p] = "idle"
  /\ calls[p] < PushLimit
  /\ calls' = [calls EXCEPT ![p] = @ + 1]
  /\ Goto(p, "enter")
  /\ UNCHANGED <<items, closed, accepted, delivered>>

\* Faults for the sensitivity checks of the properties below.
PushLocked_OffByOne(p) ==
  /\ pc[p] = "enter"
  /\ \/ /\ closed
        /\ Goto(p, "idle")
        /\ UNCHANGED <<items, accepted, delivered>>
     \/ ~closed /\ Len(items) <= capacity /\ Enqueue(p, Current(p))
     \/ /\ ~closed /\ Len(items) > capacity
        /\ Goto(p, "blocked")
        /\ UNCHANGED <<items, accepted, delivered>>
  /\ UNCHANGED <<closed, calls>>

PushLocked_EvenIfClosed(p) ==
  /\ pc[p] = "enter"
  /\ \/ ~Full /\ Enqueue(p, Current(p))
     \/ closed /\ Full /\ Goto(p, "idle") /\ UNCHANGED <<items, accepted, delivered>>
     \/ /\ ~closed /\ Full
        /\ Goto(p, "blocked")
        /\ UNCHANGED <<items, accepted, delivered>>
  /\ UNCHANGED <<closed, calls>>

\* The body of push under the mutex, from the first lock or after a wakeup.
PushLocked(p) ==
  /\ pc[p] = "enter"
  /\ \/ /\ closed                          \* return false
        /\ Goto(p, "idle")
        /\ UNCHANGED <<items, accepted, delivered>>
     \/ ~closed /\ ~Full /\ Enqueue(p, Current(p))
     \/ /\ ~closed /\ Full                 \* notFull_.wait
        /\ Goto(p, "blocked")
        /\ UNCHANGED <<items, accepted, delivered>>
  /\ UNCHANGED <<closed, calls>>

NotifyNotEmpty_OnlyForTheFirst(p) ==
  /\ pc[p] = "notify"
  /\ IF Len(items) = 1 THEN NotifyOne(p, Consumers) ELSE Goto(p, "idle")
  /\ UNCHANGED <<items, closed, calls, accepted, delivered>>

NotifyNotEmpty_Forgotten(p) ==
  /\ pc[p] = "notify"
  /\ Goto(p, "idle")
  /\ UNCHANGED <<items, closed, calls, accepted, delivered>>

NotifyNotEmpty(p) ==
  /\ pc[p] = "notify"
  /\ NotifyOne(p, Consumers)
  /\ UNCHANGED <<items, closed, calls, accepted, delivered>>

TryPush(p) ==
  /\ pc[p] = "idle"
  /\ calls[p] < PushLimit
  /\ calls' = [calls EXCEPT ![p] = @ + 1]
  /\ \/ (closed \/ Full) /\ UNCHANGED <<items, accepted, delivered, pc>>
     \/ ~closed /\ ~Full /\ Enqueue(p, <<p, calls[p] + 1>>)
  /\ UNCHANGED closed

-----------------------------------------------------------------------------
\* pop

Pop(c) ==
  /\ pc[c] = "idle"
  /\ Goto(c, "enter")
  /\ UNCHANGED <<items, closed, calls, accepted, delivered>>

PopLocked_QuitsOnClose(c) ==
  /\ pc[c] = "enter"
  /\ \/ closed /\ Goto(c, "exited") /\ UNCHANGED <<items, accepted, delivered>>
     \/ ~closed /\ ~Empty /\ Dequeue(c)
     \/ /\ ~closed /\ Empty
        /\ Goto(c, "blocked")
        /\ UNCHANGED <<items, accepted, delivered>>
  /\ UNCHANGED <<closed, calls>>

\* The body of pop under the mutex.  A consumer that is handed nullopt leaves
\* its loop for good.
PopLocked(c) ==
  /\ pc[c] = "enter"
  /\ \/ /\ closed /\ Empty                 \* return nullopt
        /\ Goto(c, "exited")
        /\ UNCHANGED <<items, accepted, delivered>>
     \/ ~Empty /\ Dequeue(c)
     \/ /\ ~closed /\ Empty                \* notEmpty_.wait
        /\ Goto(c, "blocked")
        /\ UNCHANGED <<items, accepted, delivered>>
  /\ UNCHANGED <<closed, calls>>

NotifyNotFull_WrongCondvar(c) ==
  /\ pc[c] = "notify"
  /\ NotifyOne(c, Consumers)
  /\ UNCHANGED <<items, closed, calls, accepted, delivered>>

NotifyNotFull(c) ==
  /\ pc[c] = "notify"
  /\ NotifyOne(c, Producers)
  /\ UNCHANGED <<items, closed, calls, accepted, delivered>>

TryPop_FromTheBack(c) ==
  /\ pc[c] = "idle"
  /\ ~Empty
  /\ items' = SubSeq(items, 1, Len(items) - 1)
  /\ delivered' = Append(delivered, items[Len(items)])
  /\ Goto(c, "notify")
  /\ UNCHANGED <<closed, calls, accepted>>

TryPop_DefaultWhenEmpty(c) ==
  /\ pc[c] = "idle"
  /\ \/ ~Empty /\ Dequeue(c)
     \/ /\ Empty
        /\ delivered' = Append(delivered, <<c, 0>>)
        /\ UNCHANGED <<items, accepted, pc>>
  /\ UNCHANGED <<closed, calls>>

\* On an empty queue tryPop returns nullopt and changes nothing.
TryPop(c) ==
  /\ pc[c] = "idle"
  /\ ~Empty
  /\ Dequeue(c)
  /\ UNCHANGED <<closed, calls>>

-----------------------------------------------------------------------------
\* A condition variable may wake a sleeper nobody notified.
SpuriousWakeup(t) ==
  /\ pc[t] = "blocked"
  /\ Goto(t, "enter")
  /\ UNCHANGED <<items, closed, calls, accepted, delivered>>

\* close: the flag under the mutex, then the two notify_all after it.
Close(k) ==
  /\ pc[k] = "idle"
  /\ closed' = TRUE
  /\ Goto(k, "wakeConsumers")
  /\ UNCHANGED <<items, calls, accepted, delivered>>

CloseNotEmpty(k) ==
  /\ pc[k] = "wakeConsumers"
  /\ NotifyAll(k, Consumers, "wakeProducers")
  /\ UNCHANGED <<items, closed, calls, accepted, delivered>>

CloseNotFull(k) ==
  /\ pc[k] = "wakeProducers"
  /\ NotifyAll(k, Producers, "idle")
  /\ UNCHANGED <<items, closed, calls, accepted, delivered>>

Next ==
  \/ \E p \in Producers : Push(p) \/ PushLocked(p) \/ NotifyNotEmpty(p) \/ TryPush(p)
  \/ \E c \in Consumers : Pop(c) \/ PopLocked(c) \/ NotifyNotFull(c) \/ TryPop(c)
  \/ \E t \in Producers \cup Consumers : SpuriousWakeup(t)
  \/ \E k \in Closers : Close(k) \/ CloseNotEmpty(k) \/ CloseNotFull(k)

Spec == Init /\ [][Next]_vars

\* A thread that asked for the mutex gets it, a thread that must notify does,
\* and a consumer goes back to pop.  Nobody is obliged to push, to close, or
\* to wake spuriously.
Fairness ==
  /\ \A p \in Producers : WF_vars(PushLocked(p)) /\ WF_vars(NotifyNotEmpty(p))
  /\ \A c \in Consumers : WF_vars(Pop(c)) /\ WF_vars(PopLocked(c)) /\ WF_vars(NotifyNotFull(c))
  /\ \A k \in Closers : WF_vars(CloseNotEmpty(k)) /\ WF_vars(CloseNotFull(k))

FairSpec == Spec /\ Fairness

-----------------------------------------------------------------------------
TypeOK ==
  /\ items \in Seq(Values)
  /\ closed \in BOOLEAN
  /\ pc \in [Threads -> {"idle", "enter", "blocked", "notify", "exited",
                         "wakeConsumers", "wakeProducers"}]
  /\ calls \in [Producers -> Nat]
  /\ accepted \in Seq(Values)
  /\ delivered \in Seq(Values)

\* items_ never holds more than capacity_, whoever pushes and however often
\* sleepers wake: the bound that turns overload into backpressure.
NeverExceedsItsBound == Len(items) <= capacity

\* Every value whose push returned true is popped exactly once and in order:
\* what was accepted is what was delivered followed by what is still queued.
LosesNothing == accepted = delivered \o items

\* Threads that will look at the queue, or will notify a sleeper that will.
EnRoute(group, notifiers) ==
  {t \in group : pc[t] = "enter"} \cup {t \in notifiers : pc[t] = "notify"}

\* No lost wakeup on notEmpty_: while a consumer sleeps, every queued item has
\* a consumer or a notification of its own on the way, and once the queue is
\* closed the notify_all is still to come.
NoConsumerLeftAsleep ==
  Waiting(Consumers) # {} =>
    /\ Len(items) <= Cardinality(EnRoute(Consumers, Producers))
    /\ closed => \E k \in Closers : pc[k] = "wakeConsumers"

\* The same for notFull_: while a producer sleeps on an open queue every free
\* slot has somebody coming for it, and on a closed one the notify_all is due.
NoProducerLeftAsleep ==
  Waiting(Producers) # {} =>
    /\ ~closed => capacity <= Len(items) + Cardinality(EnRoute(Producers, Consumers))
    /\ closed => \E k \in Closers : pc[k] \in {"wakeConsumers", "wakeProducers"}

\* No consumer reports exhaustion while accepted work remains, and the queue
\* accepts nothing afterwards (pop's only exit: closed and drained).
ExitsOnlyWhenDrained ==
  (\E c \in Consumers : pc[c] = "exited") => closed /\ items = <<>>

Channel ==
  INSTANCE BoundedChannel WITH Values <- Producers \X (0 .. PushLimit), Bound <- capacity

\* To its callers the queue is a bounded FIFO channel with atomic operations:
\* locking, sleeping, notifying after the unlock and spurious wakeups are
\* invisible, and nothing enters a closed queue.
ImplementsChannel == Channel!Spec

\* close() ends every consumer loop, once the backlog is drained.
ClosingDrainsTheBacklog ==
  closed ~> (items = <<>> /\ \A c \in Consumers : pc[c] = "exited")

\* Whatever a push accepted is eventually handed to a pop, closed or not.
AcceptedIsDelivered ==
  \A n \in 1 .. (PushLimit * Cardinality(Producers)) :
    (Len(accepted) >= n) ~> (Len(delivered) >= n)

=============================================================================
