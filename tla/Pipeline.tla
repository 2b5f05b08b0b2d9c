------------------------------- MODULE Pipeline -------------------------------
(***************************************************************************)
(* net/server with concurrent/thread_pool and the thread of core/engine:   *)
(* how a request travels from the reactor through the worker pool to the   *)
(* engine, and how Server::stop takes the three apart.                     *)
(*                                                                         *)
(* The two queues are bounded channels with atomic operations, which is    *)
(* what ThreadSafeQueue implements (ImplementsChannel).  The connections   *)
(* and the output to them are the subject of Sessions, what the engine     *)
(* does with a command that of Durability and Book.  Each order is from an *)
(* account of its own: sharing one only makes a route exist earlier.       *)
(***************************************************************************)
EXTENDS Naturals, Sequences, FiniteSets

CONSTANTS NewOrders,       \* requests: orders,
          InvalidOrders,   \* those of them that buildOrder refuses,
          Amendments,      \* and cancels and modifies
          Workers,         \* threads of the pool
          Callers,         \* threads that call Server::stop
          PoolCapacity, EngineCapacity

Frames == NewOrders \cup Amendments

ASSUME RequestsAssumption ==
  InvalidOrders \subseteq NewOrders /\ NewOrders \cap Amendments = {}
ASSUME CapacityAssumption ==
  PoolCapacity \in Nat \ {0} /\ EngineCapacity \in Nat \ {0}

VARIABLES
  stopping,         \* Server::stopping_
  caller,           \* where each caller is in stop()
  reactorStopping,  \* Reactor::stopping_
  wakeup,           \* the eventfd has been written to
  reactor,          \* where the reactor thread is
  batch,            \* requests it has read and not handed on yet
  unsent,           \* requests no client has sent yet
  pool, poolClosed,            \* ThreadPool::queue_
  worker,                      \* each worker, and the request in its task
  commands, engineClosed,      \* Engine::queue_
  engine,                      \* the engine thread, and its command
  byAccount,        \* orders whose account has a route to a session
  outcome           \* history: what became of each request

front == <<reactorStopping, wakeup, reactor, batch, unsent>>
middle == <<pool, poolClosed, worker>>
back == <<commands, engineClosed, engine>>
vars == <<stopping, caller, front, middle, back, byAccount, outcome>>

\* The workers run from construction on, the other threads from start().
Init ==
  /\ stopping = FALSE /\ caller = [k \in Callers |-> "idle"]
  /\ reactorStopping = FALSE /\ wakeup = FALSE /\ reactor = "off"
  /\ batch = {} /\ unsent = Frames
  /\ pool = <<>> /\ poolClosed = FALSE
  /\ worker = [w \in Workers |-> [at |-> "pop", frames |-> {}]]
  /\ commands = <<>> /\ engineClosed = FALSE
  /\ engine = [at |-> "off", frames |-> {}]
  /\ byAccount = {} /\ outcome = [f \in Frames |-> "none"]

Ends(f, how) == outcome' = [outcome EXCEPT ![f] = how]

\* The owner calls start() once, and before any stop().
Start ==
  /\ reactor = "off" /\ ~stopping
  /\ reactor' = "top"
  /\ engine' = [engine EXCEPT !.at = "pop"]
  /\ UNCHANGED <<stopping, caller, reactorStopping, wakeup, batch, unsent, middle, commands,
                 engineClosed, byAccount, outcome>>

-----------------------------------------------------------------------------
\* The reactor thread

\* The flag is looked at between two batches only.
CheckStop ==
  /\ reactor = "top"
  /\ reactor' = IF reactorStopping THEN "exited" ELSE "parked"
  /\ UNCHANGED <<stopping, caller, reactorStopping, wakeup, batch, unsent, middle, back,
                 byAccount, outcome>>

EpollReturns ==
  /\ reactor = "parked"
  /\ \E arrived \in SUBSET unsent :
       /\ arrived # {} \/ wakeup
       /\ batch' = arrived
       /\ unsent' = unsent \ arrived
  /\ wakeup' = FALSE
  /\ reactor' = "batch"
  /\ UNCHANGED <<stopping, caller, reactorStopping, middle, back, byAccount, outcome>>

\* onFrame: the pool takes the task, or the client is told it is overloaded.
OnFrame(f) ==
  /\ reactor = "batch" /\ f \in batch
  /\ batch' = batch \ {f}
  /\ LET room == ~poolClosed /\ Len(pool) < PoolCapacity
     IN \/ room /\ pool' = Append(pool, f) /\ UNCHANGED outcome
        \/ ~room /\ Ends(f, "refused") /\ UNCHANGED pool
  /\ UNCHANGED <<stopping, caller, reactorStopping, wakeup, reactor, unsent, poolClosed, worker,
                 back, byAccount>>

BatchDone ==
  /\ reactor = "batch" /\ batch = {}
  /\ reactor' = "top"
  /\ UNCHANGED <<stopping, caller, reactorStopping, wakeup, batch, unsent, middle, back,
                 byAccount, outcome>>

-----------------------------------------------------------------------------
\* A worker: ThreadPool::run and Server::dispatch

Becomes(w, label, frames) == worker' = [worker EXCEPT ![w] = [at |-> label, frames |-> frames]]

\* A name with a suffix is a fault of the definition it precedes, kept to show
\* that a property notices it.
TakeTask_ForgetsTheRoute(w) ==
  /\ worker[w].at = "pop" /\ pool # <<>>
  /\ pool' = Tail(pool)
  /\ Becomes(w, IF Head(pool) \in InvalidOrders THEN "order" ELSE "submit", {Head(pool)})
  /\ UNCHANGED <<stopping, caller, front, poolClosed, back, byAccount, outcome>>

TakeTask_RoutesAmendments(w) ==
  /\ worker[w].at = "pop" /\ pool # <<>>
  /\ pool' = Tail(pool)
  /\ Becomes(w, "order", {Head(pool)})
  /\ UNCHANGED <<stopping, caller, front, poolClosed, back, byAccount, outcome>>

TakeTask(w) ==
  /\ worker[w].at = "pop" /\ pool # <<>>
  /\ pool' = Tail(pool)
  /\ Becomes(w, IF Head(pool) \in NewOrders THEN "order" ELSE "submit", {Head(pool)})
  /\ UNCHANGED <<stopping, caller, front, poolClosed, back, byAccount, outcome>>

\* buildOrder throws InvalidOrderError: no quantity, or an iceberg that shows none.
buildOrderThrows(f) == f \in InvalidOrders

\* The account is routed to the session before the order is built and checked.
DispatchOrder(w) ==
  /\ worker[w].at = "order"
  /\ \E f \in worker[w].frames :
       /\ byAccount' = byAccount \cup {f}
       /\ \/ buildOrderThrows(f) /\ Ends(f, "invalid") /\ Becomes(w, "pop", {})
          \/ ~buildOrderThrows(f) /\ Becomes(w, "submit", {f}) /\ UNCHANGED outcome
  /\ UNCHANGED <<stopping, caller, front, pool, poolClosed, back>>

\* Engine::submit blocks while the queue is full, and is refused once it is closed.
SubmitCommand(w) ==
  /\ worker[w].at = "submit"
  /\ \E f \in worker[w].frames :
       \/ engineClosed /\ Ends(f, "dropped") /\ UNCHANGED commands
       \/ /\ ~engineClosed /\ Len(commands) < EngineCapacity
          /\ commands' = Append(commands, f)
          /\ UNCHANGED outcome
  /\ Becomes(w, "pop", {})
  /\ UNCHANGED <<stopping, caller, front, pool, poolClosed, engineClosed, engine, byAccount>>

TaskThrows_WorkerDies(w) ==
  /\ worker[w].at \in {"order", "submit"}
  /\ \E f \in worker[w].frames : Ends(f, "failed")
  /\ Becomes(w, "exited", {})
  /\ UNCHANGED <<stopping, caller, front, pool, poolClosed, back, byAccount>>

\* Out of memory inside the task: counted in failed_, and the worker lives on.
TaskThrows(w) ==
  /\ worker[w].at \in {"order", "submit"}
  /\ \E f \in worker[w].frames : Ends(f, "failed")
  /\ Becomes(w, "pop", {})
  /\ UNCHANGED <<stopping, caller, front, pool, poolClosed, back, byAccount>>

WorkerExits_Undrained(w) ==
  /\ worker[w].at = "pop" /\ poolClosed
  /\ Becomes(w, "exited", {})
  /\ UNCHANGED <<stopping, caller, front, pool, poolClosed, back, byAccount, outcome>>

WorkerExits(w) ==
  /\ worker[w].at = "pop" /\ poolClosed /\ pool = <<>>
  /\ Becomes(w, "exited", {})
  /\ UNCHANGED <<stopping, caller, front, pool, poolClosed, back, byAccount, outcome>>

-----------------------------------------------------------------------------
\* The engine thread

EngineTakes ==
  /\ engine.at = "pop" /\ commands # <<>>
  /\ engine' = [at |-> "apply", frames |-> {Head(commands)}]
  /\ commands' = Tail(commands)
  /\ UNCHANGED <<stopping, caller, front, middle, engineClosed, byAccount, outcome>>

\* apply() returns, whether the book took the command or declined it.
EngineApplies ==
  /\ engine.at = "apply"
  /\ \E f \in engine.frames : Ends(f, "applied")
  /\ engine' = [at |-> "pop", frames |-> {}]
  /\ UNCHANGED <<stopping, caller, front, middle, commands, engineClosed, byAccount>>

\* apply() throws (storage, memory, an order the book refuses): run() counts the
\* command, answers nobody and goes on to the next.
EngineThrows ==
  /\ engine.at = "apply"
  /\ \E f \in engine.frames : Ends(f, "failed")
  /\ engine' = [at |-> "pop", frames |-> {}]
  /\ UNCHANGED <<stopping, caller, front, middle, commands, engineClosed, byAccount>>

EngineExits ==
  /\ engine.at = "pop" /\ engineClosed /\ commands = <<>>
  /\ engine' = [engine EXCEPT !.at = "exited"]
  /\ UNCHANGED <<stopping, caller, front, middle, commands, engineClosed, byAccount, outcome>>

-----------------------------------------------------------------------------
\* Server::stop

Steps(k, from, to) == caller[k] = from /\ caller' = [caller EXCEPT ![k] = to]

\* exchange() on the flag: whoever finds it set returns at once.
StopBegins(k) ==
  /\ Steps(k, "idle", IF stopping THEN "returned" ELSE "reactor")
  /\ stopping' = TRUE
  /\ UNCHANGED <<front, middle, back, byAccount, outcome>>

StopReactor(k) ==
  /\ Steps(k, "reactor", "wake")
  /\ reactorStopping' = TRUE
  /\ UNCHANGED <<stopping, wakeup, reactor, batch, unsent, middle, back, byAccount, outcome>>

WakeReactor_Forgotten(k) ==
  /\ Steps(k, "wake", "joinReactor")
  /\ UNCHANGED <<stopping, front, middle, back, byAccount, outcome>>

WakeReactor(k) ==
  /\ Steps(k, "wake", "joinReactor")
  /\ wakeup' = TRUE
  /\ UNCHANGED <<stopping, reactorStopping, reactor, batch, unsent, middle, back, byAccount,
                 outcome>>

\* A thread that start() never launched is not joinable.
JoinReactor(k) ==
  /\ Steps(k, "joinReactor", "pool")
  /\ reactor \in {"off", "exited"}
  /\ UNCHANGED <<stopping, front, middle, back, byAccount, outcome>>

StopPool(k) ==
  /\ Steps(k, "pool", "joinWorkers")
  /\ poolClosed' = TRUE
  /\ UNCHANGED <<stopping, front, pool, worker, back, byAccount, outcome>>

JoinWorkers_AnyOne(k) ==
  /\ Steps(k, "joinWorkers", "engine")
  /\ \E w \in Workers : worker[w].at = "exited"
  /\ UNCHANGED <<stopping, front, middle, back, byAccount, outcome>>

JoinWorkers(k) ==
  /\ Steps(k, "joinWorkers", "engine")
  /\ \A w \in Workers : worker[w].at = "exited"
  /\ UNCHANGED <<stopping, front, middle, back, byAccount, outcome>>

StopEngine(k) ==
  /\ Steps(k, "engine", "joinEngine")
  /\ engineClosed' = TRUE
  /\ UNCHANGED <<stopping, front, middle, commands, engine, byAccount, outcome>>

\* The last join, then the session lists are cleared.
JoinEngine(k) ==
  /\ Steps(k, "joinEngine", "done")
  /\ engine.at \in {"off", "exited"}
  /\ byAccount' = {}
  /\ UNCHANGED <<stopping, front, middle, back, outcome>>

-----------------------------------------------------------------------------
Reactor == CheckStop \/ BatchDone \/ \E f \in Frames : OnFrame(f)
Worker(w) == TakeTask(w) \/ DispatchOrder(w) \/ SubmitCommand(w) \/ WorkerExits(w)
Engine == EngineTakes \/ EngineApplies \/ EngineThrows \/ EngineExits
Stop(k) == \/ StopReactor(k) \/ WakeReactor(k) \/ JoinReactor(k) \/ StopPool(k)
           \/ JoinWorkers(k) \/ StopEngine(k) \/ JoinEngine(k)

Next ==
  \/ Start \/ EpollReturns \/ Reactor \/ Engine
  \/ \E w \in Workers : Worker(w) \/ TaskThrows(w)
  \/ \E k \in Callers : StopBegins(k) \/ Stop(k)

Spec == Init /\ [][Next]_vars

\* The threads run.  Nobody has to start or stop the server, no client has to
\* send anything: only the eventfd obliges epoll_wait to return.
Fairness ==
  /\ WF_vars(Reactor) /\ WF_vars(wakeup /\ EpollReturns)
  /\ \A w \in Workers : WF_vars(Worker(w))
  /\ WF_vars(Engine)
  /\ \A k \in Callers : WF_vars(Stop(k))

FairSpec == Spec /\ Fairness

-----------------------------------------------------------------------------
TypeOK ==
  /\ stopping \in BOOLEAN /\ reactorStopping \in BOOLEAN /\ wakeup \in BOOLEAN
  /\ caller \in [Callers -> {"idle", "returned", "reactor", "wake", "joinReactor", "pool",
                             "joinWorkers", "engine", "joinEngine", "done"}]
  /\ reactor \in {"off", "top", "parked", "batch", "exited"}
  /\ batch \subseteq Frames /\ unsent \subseteq Frames /\ byAccount \subseteq NewOrders
  /\ pool \in Seq(Frames) /\ commands \in Seq(Frames)
  /\ poolClosed \in BOOLEAN /\ engineClosed \in BOOLEAN
  /\ worker \in [Workers -> [at : {"pop", "order", "submit", "exited"}, frames : SUBSET Frames]]
  /\ engine \in [at : {"off", "pop", "apply", "exited"}, frames : SUBSET Frames]
  /\ outcome \in [Frames -> {"none", "refused", "invalid", "dropped", "failed", "applied"}]

\* Server::stop joins the workers "so nothing further can be pushed at the
\* engine": no request the pool took is turned away because of the shutdown.
NothingIsDroppedAtShutdown == \A f \in Frames : outcome[f] # "dropped"

\* When stop() has done its work every request that was read has been applied,
\* answered or, if a task or the engine's apply() threw, counted as failed; none
\* is left in a queue or in the hands of a thread.
StopHasDrained ==
  (\E k \in Callers : caller[k] = "done") =>
    \A f \in Frames \ unsent : outcome[f] # "none"

\* Orders the engine holds or will be handed.
AtTheEngine == {commands[i] : i \in DOMAIN commands} \cup engine.frames

\* A fill finds its session: the engine never works on an order whose account
\* has no route, since dispatch enters it before it submits the order and
\* stop() clears the routes after the engine is joined.
FillsHaveARoute == AtTheEngine \cap NewOrders \subseteq byAccount

\* stop() returns, whatever the threads are waiting for when it is called.
StopReturns == stopping ~> \E k \in Callers : caller[k] = "done"

\* A request the pool accepted is applied, answered or counted as failed, with or
\* without a stop.
AcceptedIsHandled ==
  \A f \in Frames : (\E i \in DOMAIN pool : pool[i] = f) ~> outcome[f] # "none"

===============================================================================
