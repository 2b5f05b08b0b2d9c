# A verification of the exchange server

TLA+ models of the single-instrument exchange in `src/`, the TLC configurations
that check them on small instances, and TLAPS proofs about the command queue.
Each module says in its header which source files it follows; `PROJECT.json`
maps every definition to the lines it models.

## 1. The system

A request travels through these parts:

| Part | Source | What it does |
|---|---|---|
| Reactor | `net/reactor` | One thread in an edge-triggered `epoll` loop. Looks each event's descriptor up in `handlers_`. An eventfd wakes it. |
| Session | `net/session` | One connection: a read loop to `EAGAIN`, a capped outbound buffer written by several threads, `close()`. |
| Server | `net/server` | Accepts, decodes frames, hands them to the pool, routes fills to sessions by account, and stops everything in order. |
| Worker pool | `concurrent/thread_pool` | Threads that take tasks from a bounded queue and build orders. |
| Command queue | `concurrent/thread_safe_queue.hpp` | The bounded blocking queue, used in the pool and in front of the engine. |
| Engine | `core/engine` | One thread: pop a command, append it to the log, apply it to the book, publish fills. |
| Orders | `core/order`, `core/types.hpp` | Limit, market and iceberg orders; unsigned quantities. |
| Book | `core/book`, `order_book.hpp`, `price_level`, `price_time_strategy` | Plan a sweep, reserve memory, commit it. Self-match prevention, amendments. |
| Log | `store/write_ahead_log`, `store/wal_record` | Append-only records, three sync policies. |
| Recovery | `store/recovery`, `core/apply` | Replay the log through `applyCommand`, trim the damaged tail, continue the numbering. |
| Ledger | `store/sqlite_store` | Fills and positions in SQLite. |
| Protocol | `net/frame_assembler`, `net/protocol` | Frames cut out of a byte stream; field encodings. |
| Analytics | `analytics/` | L2 snapshots and statistics read from the book. |

Threads: the reactor, the workers, the engine, and whoever calls `stop()`. They
share the two queues (a mutex and two condition variables each), the outbound
buffer of a session, `closed_`, the lists `needFlush_` and `needClose_`, the
routes `byAccount_`, and the eventfd. The book, the log, `sessions_` and
`handlers_` belong to one thread each.

Builds are release builds by default: `assert` is compiled out and
`EXCHANGE_PRECONDITION` becomes an unreachable marker. The models never assume
that either holds; where a property needs one, it is a property to check.

## 2. The modules

| Module | Models | Used by |
|---|---|---|
| `ThreadSafeQueue` | the queue | `MCThreadSafeQueue`, `ThreadSafeQueueProofs` |
| `BoundedChannel` | what the queue promises its callers | `ThreadSafeQueue` (refinement) |
| `ThreadSafeQueueProofs` | the theorems | |
| `Orders` | the order classes, as values and operators | `Book`, `MatchingReference` |
| `Book` | submit, cancel, modify, step by step | `MCBook` |
| `MatchingReference` | the same calls, one lot at a time | `MCBook`, `WalReplay` |
| `Durability` | engine, log, crash, recovery | `MCDurability` |
| `WalReplay` | what a record keeps of a command | `MCWalReplay` |
| `Sessions` | sessions, reactor loop, delivery | `MCSessions` |
| `Pipeline` | reactor to pool to engine, start and stop | `MCPipeline` |

A definition whose name ends in a suffix (`PushLocked_OffByOne`,
`truncateTo_Forgotten`) is a deliberate fault of the definition it precedes. It is not
part of any specification. `PROJECT.json` pairs each with a property that must
fail when it replaces the original, which shows the property depends on the code.

### ThreadSafeQueue

State: `items` and `closed` are `items_` and `closed_`; `pc` says where each
thread is; `accepted` and `delivered` are histories. A critical section is one
step. Asking for the lock, sleeping, and the `notify_one` that follows the
unlock are steps of their own, because other threads run between them.

| Code | Actions |
|---|---|
| `push` | `Push`, `PushLocked`, `NotifyNotEmpty` |
| `tryPush` | `TryPush`, `NotifyNotEmpty` |
| `pop` | `Pop`, `PopLocked`, `NotifyNotFull` |
| `tryPop` | `TryPop`, `NotifyNotFull` |
| `close` | `Close`, `CloseNotEmpty`, `CloseNotFull` |
| the standard library | `SpuriousWakeup` |

`BoundedChannel` is the abstract specification: `Put`, `Get`, `CloseChannel`,
each atomic. `ImplementsChannel` states that the queue implements it, with the
same `items`, `closed`, `accepted` and `delivered`.

### Orders, Book, MatchingReference

`levels`, `index`, `orders` and `nextSequence` are the book. `incoming`,
`cursor`, `pending`, `available`, `plan`, `blocked` and `fills` are the locals of
a call in progress. `before` is a history of the book at the start of the call.

A call goes through phases: `walk` and `level` are `planAgainst` and
`PriceTimeStrategy::plan`, `reserve` is the allocations of `prepareSubmit`,
`commit` is `commitSubmit`. Each turn of a loop is a step, so `Throw`
(`std::bad_alloc`) can strike at any of them before the commit. `Consume` is the
caller reading the result. The book is used by one thread, so calls do not
overlap.

Quantities are numbers modulo `QuantityModulus`, so an unsigned subtraction
wraps as in the code. `MatchingReference` knows nothing of plans or cached
totals: it trades one lot at a time against the first order in price-time order.
It is recursive, so it is for TLC only.

### Durability

`file` is the log as a reader of the file sees it, `durable` how much of it was
forced to the device. A book is the sequence of commands it went through, since
`applyCommand` is deterministic and shared by the live path and the replay. A
`Torn` record stands for bytes whose checksum fails.

`Pop`, `Write`, `Sync`/`SkipSync`, `Mutate` and `Publish` are `Engine::run` and
`apply`. `WriteFails`, `SyncFails`, `MutateThrows` and `PublishThrows` (a fill
handler that throws) are their error paths. `Stop`,
`Kill` and `PowerLoss` end the process: a kill keeps what was written, a power
loss keeps any prefix that includes the durable part. `Restart`, `ReplayOne` and
`Trim` are `recoverBookOnly` and the reopening of the log, and may be interrupted
again. `truncateTo` and `ContinuedSequence` are what `Trim` makes of the file and
of the numbering.

Histories let one run cover every fault. `struck` remembers which occurred.
`unapplied` holds the commands this process logged and then did not apply, so
that `LogAgreesWithBook` can say what the log holds besides the book's commands.
`openings` counts the processes that opened the log since it was last forced:
`LossWindowIsBounded` allows each of them one batch less one. It counts as at
risk every acknowledged command whose record is not forced or stands behind a
torn one.

### WalReplay

Two books take the same commands: one as the client sent them, one after
`encodeRecord` and `decodeRecord`. The order kind is not kept as such;
`writeOrder` infers it from quantities, and so does the model. Because
`AnswersAsTheReference` shows that a call of `Book` answers as the reference
does, a call is one step here.

### Sessions

A client has one session; descriptors are reused. Output is counted in
messages. `todo` is what the reactor thread still has to do for the event at
hand, one system call or critical section per step. `ready` is epoll's ready
list, `batch` the events it has returned. A wakeup is two steps, `DrainWakeup`
and `ServicePending`, because a thread may note a session and wake the reactor
between them. `Deliver`, `SendInserts`,
`DeliverDrops`, `DeliverNotes` and `DeliverWakes` are `Server::deliver` on the
engine or a worker. `EpollWait`, `DispatchEvent`, `DrainWakeup`,
`ServicePending`, `Retire`, `Accept`, `CloseReady`, `FlushSends`, `FlushErases`, `ReadStops`, `ReadCloses`
and `ReadRejects` are the reactor thread. `Connect`, `PeerSends`, `PeerReads`
and `PeerLeaves` are the clients and the kernel (external to `src/`, modelled
from how the code uses them).

### Pipeline

A request is read in a batch, handed to the pool or refused (`OnFrame`), taken
by a worker (`TakeTask`), routed and built (`DispatchOrder`), submitted
(`SubmitCommand`), and applied (`EngineTakes`, `EngineApplies`) or, when `apply`
throws, counted and not answered (`EngineThrows`). `StopBegins` to
`JoinEngine` are `Server::stop`, with the flag, the wakeup and each join apart.
The two queues are atomic channels, which the refinement of `ThreadSafeQueue`
justifies for safety. `TaskThrows` is an allocation failing inside a task.

## 3. The runs

Times are for two TLC workers.

| Run | Question | Instance | Distinct states |
|---|---|---|---|
| `queue` | Bound, order, no lost wakeup, refinement, termination | 2 producers, 2 consumers, 1 closer, capacity 2, 2 pushes each | 24,690 (18 s) |
| `book_one_level` | Icebergs in one queue; cached totals; agreement with the reference | 3 ids, 2 accounts, 1 price, sizes 0, 1, 3, displays 1, 2 | 460,952 (42 s) |
| `book_sweeps` | Sweeps over levels; never crossed; exception guarantee | 3 ids, 2 accounts, 3 prices, sizes 1, 2 | 916,410 (96 s) |
| `log_crashes` | What survives which crash, under each policy and fault | 4 commands, 3 restarts, batch of 2, all faults | 1,770,866 (39 s) |
| `descriptor_reuse` | The reactor retires the right session | 2 clients, 1 descriptor, 1 writer | 1,159,344 (47 s) |
| `session_output` | Stream intact; no flush lost; closed sessions released | 1 client, 2 writers, cap 2, socket buffer 1 | 155,650 (87 s) |
| `pipeline` | Stop returns, drains, and turns nothing away | 3 requests (one invalid, one amendment), 2 workers, 2 callers of stop, capacities 2 and 1 | 56,922 (36 s) |
| `replay` | A replayed book is the logged book | 3 ids, 2 prices, sizes 1, 3, displays 1, 2 | 76,686 (73 s) |
| `iceberg_entry`, `torn_write`, `overflow_leak`, `replay_full_display` | The four differences of section 6 | | violations |

Why the bounds are enough to meet the interesting cases:

- `queue`: two threads on each side are needed for a woken thread to find that
  another has taken its item or slot, and four pushes against capacity 2 for producers to sleep.
- `book_*`: three orders make a queue of two and an aggressor. Size 3 with
  display 1 refreshes a tranche twice in one sweep. Three prices give a sweep
  of two levels and a remainder. A modulus of 8 is above every quantity an order
  can have, so a wrapped order is an error; the total of a level may pass it and
  is compared modulo 8, as the code's sums are.
- `log_crashes`: four commands fill a batch of 2 twice; three restarts allow a
  crash during the recovery from a crash.
- `session_output`: a socket buffer of 1 and a cap of 2 make partial flushes,
  full sockets and overflows happen within three messages.
- `pipeline`: an engine queue of 1 blocks one worker behind another, and three
  requests can meet a full pool of 2.

Ids and accounts are symmetric in the book and replay runs, which check
invariants only. Deadlock is checked in the queue, book and replay runs. It is
not in the others: a server nobody calls, or one that has stopped, rests.

**Input assumptions of passing runs.** `TrancheCoversEntry = TRUE` keeps out
icebergs that trade their first tranche away on entry, and
`IcebergsHideSize = TRUE` those that show everything. Both exclude a known
difference (section 6), which a violation run shows with the assumption off.
`WalReplay` keeps the first case out in all its runs (`Shows`).

### Fairness

Only what a running thread does by itself is fair (weakly):

- `queue`: a thread that asked for the mutex gets it, a thread past the unlock
  notifies, a consumer returns to `pop`. Nobody must push, close or wake
  spuriously. The code's consumers loop for ever, which justifies the last.
- `session_output`, `overflow_leak`: the reactor thread and threads inside
  `deliver` go on, and a peer that stays connected reads what it is sent. That
  last is an assumption on the client; `PeerLeaves` may end it at any time.
- `pipeline`: the reactor between events, the workers, the engine, and a caller
  inside `stop()` go on. `epoll_wait` must return only if the eventfd was
  written; no client has to send.

## 4. The proofs

`ThreadSafeQueueProofs` proves, for any finite sets of producers, consumers and
closers, any capacity (zero included, which the constructor raises to one) and any number of pushes:

| Theorem | Property | Argument |
|---|---|---|
| `TypeCorrect` | `TypeOK` | Inductive as it stands. |
| `Bounded` | `NeverExceedsItsBound` | A step leaves the contents alone, enqueues below the bound, or dequeues (lemma `QueueStep`). |
| `Fifo` | `LosesNothing` | The same three cases; `ConcatMoveHead` for a dequeue. |
| `Drained` | `ExitsOnlyWhenDrained` | Nothing is accepted once the queue is closed. |
| `ConsumersAreWoken` | `NoConsumerLeftAsleep` | Counting, below. |
| `ProducersAreWoken` | `NoProducerLeftAsleep` | Counting, below. |
| `ChannelImplemented` | `ImplementsChannel` | Each step is a `Put`, a `Get`, a close, or a stutter. |

Assumptions: `ThreadsAssumption` (finite, disjoint sets of threads) and
`BoundsAssumption` (natural numbers).

The two wakeup theorems are the ones a test hardly reaches. "Some notification
is on its way" is not inductive: with two items and one notification pending, a
single consumer may take one item and leave the other beside a sleeper. The
invariant therefore counts: while a consumer sleeps there are at most as many
items as threads in `EnRoute` (consumers about to look, producers about to
notify). An enqueue adds one of each. A notification trades a notifier for a
woken consumer. A dequeue removes one item and at most one such thread. In this
form the property is inductive relative to `TypeOK` alone. The lemmas `CardGrow`,
`CardMinus`, `CardDrop`, `CardSwap` and `CardKeep` carry the counting.
`ChannelImplemented` needs `CallsBounded` besides: values are numbered by calls,
and the channel's value set is bounded by `PushLimit`.

**Only model-checked.** All liveness (the prover has no reasoning about fairness
or `ENABLED`), everything in `MatchingReference` and `WalReplay` (recursive
definitions), and so far the safety of `Book`, `Durability`, `Sessions` and
`Pipeline`.

## 5. What is not modelled

- The SQLite ledger, frame assembly, market data and book iteration: planned,
  see section 7.
- Byte layouts, checksums, field encodings and statistics: pure functions that
  the unit tests cover. A record is intact or torn.
- Socket wrappers: system calls.
- In the modelled parts: what ends the reactor thread, namely a failing
  `epoll_wait` (`net/reactor.cpp:87`) and an exception that leaves the accept
  handler, from `Session::create` (`net/session.cpp:37-41`) or `Reactor::add`
  (`net/reactor.cpp:51`); `start()` after `stop()`; two sessions that share
  an account; memory ordering weaker than sequential consistency (the flags are
  atomics with acquire and release).
- The trim at recovery is not forced to the device by the code. The model lets
  it last, so a torn tail that returns after a power loss is not explored.
- After a failed `fdatasync` the model lets a later one succeed for the earlier
  records too. Linux does not promise that, which is why
  `NothingAcknowledgedIsLostUnlessStorageFails` claims nothing then.

## 6. Where the code differs from what it says

Shown by a run:

1. `iceberg_entry`: `commitSubmit` (`core/book.cpp:164`) takes the entry fills of
   an iceberg from its visible tranche, which is not replenished on entry. An
   iceberg of 3 showing 1 that trades 1 rests showing nothing; one that trades 2
   rests with a wrapped quantity. `core/order.cpp:54-56` says a resting order
   always has visible quantity.
2. `torn_write`: after a write that failed half way, `Engine::run`
   (`core/engine.cpp:77`) goes on. Later records land behind the torn one, where
   replay does not read. `core/exceptions.hpp:79-81` says the engine must stop
   accepting orders.
3. `overflow_leak`: `Session::send` (`net/session.cpp:144`) sets `closed_` itself,
   so the `close()` that follows does not run the close handler and the session
   is never unregistered. `net/server.hpp:29-30` says the client is disconnected.
4. `replay_full_display`: an iceberg that shows everything is logged as a limit
   order (`store/wal_record.cpp:38`). After an amendment that grows it, the
   replayed book shows more than the live one. `core/engine.cpp:118-120` says a
   recovered book is identical.

Seen while modelling, without a run:

- A modify that self-matches reports `Requeued`, though nothing rests or traded
  (`core/book.cpp:271`, `core/book.hpp:46`).
- A sequence number is not a queue position once an iceberg has refreshed
  (`core/price_level.cpp:58`, `core/types.hpp:42`). `OnlyIcebergsFallBack`
  states what does hold.
- A record whose `fdatasync` failed is replayed, although its command was not
  applied (`store/write_ahead_log.cpp:113`, `core/engine.cpp:110-111`). So is one
  whose `applyCommand` ran out of memory. `LogAgreesWithBook` states that these
  are all the log and the book disagree on.
- The batch window counts from the opening of the log, so unforced records can
  add up over restarts (`store/write_ahead_log.cpp:65`). `LossWindowIsBounded`
  states the bound that holds: one batch less one for each opening.
- The batch interval is looked at by `append` alone
  (`store/write_ahead_log.cpp:87`, `:103`), so the last records of a process that
  falls idle stay unforced, whatever the interval;
  `store/write_ahead_log.hpp:49` says "force at least this often".
- An event in a batch can reach the next owner of a reused descriptor
  (`net/reactor.cpp:99`).
- An accept that fails for want of descriptors leaves the backlog until the next
  connection (`net/server.cpp:144`).
- Fills of the last commands are queued on sessions nobody flushes, because the
  reactor is joined first (`net/server.cpp:113`).

`PROJECT.json` lists every hazard with the property that would notice it, or the
reason there is none.

## 7. The plan

1. Proofs for `Durability`. The strengthening: without a torn write a `Torn`
   record stands only last and only while down or replaying; between commands the
   commands of the file are the book, and one more after a write; during replay
   the book is a prefix; under Always what was acknowledged is within the durable
   part.
2. Proofs for `Pipeline` (`NothingIsDroppedAtShutdown`,
   `FillsHaveARoute`, `StopHasDrained`): the position of the one caller in
   `stop()` bounds what the threads behind it may still do.
3. Proofs for `Sessions` (`StreamIsIntact`, `RetiresTheRightSession`) and `Book`
   (`IndexAgreesWithQueues`, `ThrowLeavesNoTrace`, `NoEmptyLevel`).
4. A `Ledger` module: `recordFill` as a transaction with crashes, recovery that
   compares log positions with fill numbers, 64-bit notionals.
5. A `FrameAssembler` module: reassembly of a stream cut anywhere gives the
   frames that were sent. A `Publisher` module for the L2 snapshots, and book
   iteration as an operator compared with the queues.
6. An abstract exchange (commands in, fills out, nothing acknowledged is lost)
   that `Durability` implements in the absence of storage faults.
