--------------------------------- MODULE Book ---------------------------------
(***************************************************************************)
(* core/book, order_book, price_level and price_time_strategy: both sides  *)
(* of one instrument's book and the calls submit, cancel and modify.       *)
(*                                                                         *)
(* A call that matches runs in three phases, as in the code: it plans the  *)
(* whole sweep against an untouched book, reserves what the commit needs,  *)
(* and commits.  Each turn of a loop is a step, so that an allocation      *)
(* failure can strike between any two of them.  The book is owned by one   *)
(* thread: no call starts before the previous one has returned.            *)
(***************************************************************************)
EXTENDS Orders, Sequences, FiniteSets, FiniteSetsExt

CONSTANTS Sizes,           \* bound: the quantities clients ask for
          DisplaySizes,    \* bound: the display sizes clients ask for
          SequenceLimit,   \* bound: orders stamped with a sequence number
          TrancheCoversEntry  \* input assumption, see MayEnter

ASSUME InputsAssumption ==
  /\ Sizes \subseteq Quantities /\ DisplaySizes \subseteq Quantities
  /\ SequenceLimit \in Nat
  /\ TrancheCoversEntry \in BOOLEAN

VARIABLES
  levels,        \* levels_ of bids_ and asks_: a level or None for each price
  index,         \* index_ of bids_ and asks_: the price an id is filed under
  orders,        \* the order objects linked into the queues
  nextSequence,  \* nextSequence_
  phase,         \* where the current call is
  call,          \* its arguments
  incoming,      \* prepared.holding: the order being entered
  cursor,        \* planAgainst: the level reached, None before the first
  pending,       \* PriceTimeStrategy::plan: the simulated queue of that level
  available,     \* quantity of the incoming order not yet planned away
  plan,          \* plan.fills, then those of them not committed yet
  blocked,       \* plan.selfMatchBlocked
  fills,         \* result.fills
  result,        \* what the call returned
  before         \* history: the book when the call began

book == <<levels, index, orders, nextSequence>>
scratch == <<incoming, cursor, pending, available, plan, blocked, fills>>
vars == <<book, phase, call, scratch, result, before>>

EmptyLevel == [queue |-> <<>>, totalQty |-> 0, visibleQty |-> 0]

Present(side) == {p \in Prices : levels[side][p] # None}

\* begin() of a set of a side's levels, in the side's ordering.
First(side, prices) == CHOOSE p \in prices : \A q \in prices : q = p \/ Better(side, p, q)

bestPrice(side) == IF Present(side) = {} THEN None ELSE First(side, Present(side))

isCrossed ==
  /\ bestPrice("buy") # None /\ bestPrice("sell") # None
  /\ bestPrice("buy") >= bestPrice("sell")

\* Book::find: the side an id rests on, bids first.
SideOf(id) ==
  CASE index["buy"][id] # None  -> "buy"
    [] index["sell"][id] # None -> "sell"
    [] OTHER                    -> None

Idle ==
  /\ incoming = None /\ cursor = None /\ pending = <<>> /\ available = 0
  /\ plan = <<>> /\ blocked = FALSE /\ fills = <<>>

Init ==
  /\ levels = [s \in Sides |-> [p \in Prices |-> None]]
  /\ index = [s \in Sides |-> [id \in Ids |-> None]]
  /\ orders = [id \in Ids |-> None]
  /\ nextSequence = 1
  /\ phase = "ready" /\ call = None /\ result = None /\ before = None
  /\ Idle

-----------------------------------------------------------------------------
\* PriceLevel: what each operation leaves of a level.

adopt(level, order) ==
  [queue |-> Append(level.queue, order.id),
   totalQty |-> Plus(level.totalQty, order.remaining),
   visibleQty |-> Plus(level.visibleQty, VisibleQty(order))]

\* A name with a suffix is a fault of the definition it precedes, kept to show
\* that a property notices it.  Here the order is moved out of its list node and
\* the node, holding nullptr, stays linked.
extract_LeavesTheNode(level, order) ==
  [queue |-> [i \in DOMAIN level.queue |->
                IF level.queue[i] = order.id THEN None ELSE level.queue[i]],
   totalQty |-> Minus(level.totalQty, order.remaining),
   visibleQty |-> Minus(level.visibleQty, VisibleQty(order))]

extract(level, order) ==
  [queue |-> SelectSeq(level.queue, LAMBDA id : id # order.id),
   totalQty |-> Minus(level.totalQty, order.remaining),
   visibleQty |-> Minus(level.visibleQty, VisibleQty(order))]

applyFill(level, qty) ==
  [level EXCEPT !.totalQty = Minus(@, qty), !.visibleQty = Minus(@, qty)]

requeueReplenished_ForgetsVisible(level, order) ==
  [level EXCEPT !.queue = Append(SelectSeq(@, LAMBDA id : id # order.id), order.id)]

requeueReplenished_KeepsPlace(level, order) ==
  [level EXCEPT !.visibleQty = Plus(@, VisibleQty(order))]

\* replenishAndRequeue; order has its new tranche already.
requeueReplenished(level, order) ==
  [level EXCEPT !.queue = Append(SelectSeq(@, LAMBDA id : id # order.id), order.id),
                !.visibleQty = Plus(@, VisibleQty(order))]

reduceQuantity_Requeues(level, old, new) ==
  adopt(extract(level, old), new)

reduceQuantity(level, old, new) ==
  [level EXCEPT !.totalQty = Plus(Minus(@, old.remaining), new.remaining),
                !.visibleQty = Plus(Minus(@, VisibleQty(old)), VisibleQty(new))]

unindex_Forgotten(side, id) == index

unindex(side, id) == [index EXCEPT ![side][id] = None]

\* OrderBook::cancel on one side, for an id in its index.
Withdraw(side, id) ==
  LET price == index[side][id]
      rest  == extract(levels[side][price], orders[id])
  IN /\ index' = unindex(side, id)
     /\ levels' = [levels EXCEPT ![side][price] = IF rest.queue = <<>> THEN None ELSE rest]
     /\ orders' = [orders EXCEPT ![id] = None]

-----------------------------------------------------------------------------
\* Returning from a call, and what the clients may ask for.

Return(outcome) ==
  /\ phase' = "done"
  /\ result' = outcome
  /\ incoming' = None /\ cursor' = None /\ pending' = <<>> /\ available' = 0
  /\ plan' = <<>> /\ blocked' = FALSE /\ fills' = <<>>

Outcome(status, trades, restingQty) ==
  [status |-> status, fills |-> trades, restingQty |-> restingQty]

\* The caller has read the result (Engine::apply); the next call may begin.
Consume ==
  /\ phase = "done"
  /\ phase' = "ready" /\ call' = None /\ result' = None /\ before' = None
  /\ UNCHANGED <<book, scratch>>

\* Everything the opposite side could give an order on entry.
Exposure(order) ==
  LET opposite == Opposite(order.side)
  IN MapThenSumSet(LAMBDA id : orders[id].remaining,
                   {id \in Ids : /\ index[opposite][id] # None
                                 /\ Crosses(order, index[opposite][id])})

\* Input assumption: an iceberg that hides size and meets resting quantity on
\* entry trades less than its first tranche.  commitSubmit takes every entry
\* fill from visible_, whose precondition (qty <= visibleQty()) fails
\* otherwise; that case is studied with TrancheCoversEntry = FALSE.
MayEnter(order) ==
  \/ ~TrancheCoversEntry
  \/ order.kind # "iceberg"
  \/ order.visible = order.remaining
  \/ Exposure(order) < order.visible

\* Freshly constructed orders, the ones validate() rejects included.
Submittable ==
  {LimitOrder(id, s, a, q, p) : id \in Ids, s \in Sides, a \in Accounts, q \in Sizes, p \in Prices}
  \cup {MarketOrder(id, s, a, q) : id \in Ids, s \in Sides, a \in Accounts, q \in Sizes}
  \cup {IcebergOrder(id, s, a, q, p, d) : id \in Ids, s \in Sides, a \in Accounts,
                                        q \in Sizes, p \in Prices, d \in DisplaySizes}

-----------------------------------------------------------------------------
\* submit

\* prepareSubmit begins: the order is parked and the sweep starts at the touch.
BeginPlan(order) ==
  /\ phase' = "walk"
  /\ incoming' = order /\ available' = order.remaining
  /\ cursor' = None /\ pending' = <<>> /\ plan' = <<>> /\ blocked' = FALSE
  /\ fills' = <<>> /\ result' = None

Invalid(order) == order.remaining = 0 \/ SideOf(order.id) # None

Submit(order) ==
  /\ phase = "ready"
  /\ nextSequence <= SequenceLimit
  /\ call' = [op |-> "submit", order |-> order]
  /\ before' = book
  /\ \/ Invalid(order) /\ Return(Outcome("Threw", <<>>, 0))
     \/ ~Invalid(order) /\ MayEnter(order) /\ BeginPlan(order)
  /\ UNCHANGED book

\* planAgainst: the levels still ahead of the cursor, and whether the next one
\* is eligible.
Ahead ==
  LET opposite == Opposite(incoming.side)
  IN {p \in Present(opposite) : cursor # None => Better(opposite, cursor, p)}

Eligible ==
  /\ available > 0 /\ Ahead # {}
  /\ Crosses(incoming, First(Opposite(incoming.side), Ahead))

\* The strategy copies the level's queue before it simulates the sweep.
EnterLevel ==
  LET opposite == Opposite(incoming.side)
      price    == First(opposite, Ahead)
      queue    == levels[opposite][price].queue
  IN /\ phase = "walk" /\ Eligible
     /\ phase' = "level"
     /\ cursor' = price
     /\ pending' = [i \in 1 .. Len(queue) |->
                      LET o == orders[queue[i]]
                      IN [id |-> o.id, account |-> o.account, remaining |-> o.remaining,
                          visible |-> VisibleQty(o), display |-> DisplaySize(o)]]
     /\ UNCHANGED <<book, call, incoming, available, plan, blocked, fills, result, before>>

StopWalking ==
  /\ phase = "walk" /\ ~Eligible
  /\ phase' = "reserve"
  /\ UNCHANGED <<book, call, scratch, result, before>>

Refreshed_Stale(entry) == entry

\* The planner's own replenishment of a spent tranche.
Refreshed(entry) == [entry EXCEPT !.visible = Least(entry.display, entry.remaining)]

\* One turn of the strategy's loop: fill the head, then drop it, refresh it at
\* the back, or leave it.
PlanFill ==
  LET front == Head(pending)
      qty   == Least(available, front.visible)
      left  == [front EXCEPT !.remaining = Minus(@, qty), !.visible = Minus(@, qty)]
  IN /\ phase = "level" /\ available > 0 /\ pending # <<>>
     /\ front.account # incoming.account
     /\ plan' = Append(plan, [price |-> cursor, id |-> front.id,
                              account |-> front.account, quantity |-> qty])
     /\ available' = Minus(available, qty)
     /\ pending' = CASE left.remaining = 0 -> Tail(pending)
                     [] left.remaining # 0 /\ left.visible = 0 ->
                          Append(Tail(pending), Refreshed(left))
                     [] OTHER -> <<left>> \o Tail(pending)
     /\ UNCHANGED <<book, phase, call, incoming, cursor, blocked, fills, result, before>>

\* Self-match prevention, cancel newest: the sweep ends at an own order.
BlockSelfMatch ==
  /\ phase = "level" /\ available > 0 /\ pending # <<>>
  /\ Head(pending).account = incoming.account
  /\ blocked' = TRUE
  /\ phase' = "reserve"
  /\ UNCHANGED <<book, call, incoming, cursor, pending, available, plan, fills, result, before>>

LeaveLevel_EndsTheWalk ==
  /\ phase = "level"
  /\ available = 0 \/ pending = <<>>
  /\ phase' = "reserve"
  /\ pending' = <<>>
  /\ UNCHANGED <<book, call, incoming, cursor, available, plan, blocked, fills, result, before>>

\* The strategy returns; a level that gave nothing ends the walk.
LeaveLevel ==
  LET gave == \E i \in 1 .. Len(plan) : plan[i].price = cursor /\ plan[i].quantity > 0
  IN /\ phase = "level"
     /\ available = 0 \/ pending = <<>>
     /\ phase' = IF gave THEN "walk" ELSE "reserve"
     /\ pending' = <<>>
     /\ UNCHANGED <<book, call, incoming, cursor, available, plan, blocked, fills, result, before>>

Throw_OriginalLost ==
  /\ phase \in {"walk", "level", "reserve"}
  /\ Return(Outcome("Threw", <<>>, 0))
  /\ IF call.op = "modify" THEN Withdraw(incoming.side, incoming.id)
                           ELSE UNCHANGED <<levels, index, orders>>
  /\ UNCHANGED <<nextSequence, call, before>>

\* std::bad_alloc while planning or reserving: the prepared submit unwinds.
Throw ==
  /\ phase \in {"walk", "level", "reserve"}
  /\ Return(Outcome("Threw", <<>>, 0))
  /\ UNCHANGED <<book, call, before>>

WillRest_EvenIfBlocked == available > 0 /\ incoming.price # None

WillRest == available > 0 /\ ~blocked /\ incoming.price # None

\* The last allocation has succeeded.  A requeue withdraws the original, then
\* commitSubmit stamps the order.
BeginCommit ==
  /\ phase = "reserve"
  /\ phase' = "commit"
  /\ \/ call.op = "modify" /\ Withdraw(incoming.side, incoming.id)
     \/ call.op = "submit" /\ UNCHANGED <<levels, index, orders>>
  /\ nextSequence' = nextSequence + 1
  /\ incoming' = [incoming EXCEPT !.sequence = nextSequence]
  /\ UNCHANGED <<call, cursor, pending, available, plan, blocked, fills, result, before>>

\* One planned fill is applied to both orders and to the level.
CommitFill ==
  LET fill     == Head(plan)
      opposite == Opposite(incoming.side)
      resting  == OnPartialFill(orders[fill.id], fill.quantity)
      level    == applyFill(levels[opposite][fill.price], fill.quantity)
  IN /\ phase = "commit" /\ plan # <<>>
     /\ incoming' = OnPartialFill(incoming, fill.quantity)
     /\ fills' = Append(fills, [aggressorId |-> incoming.id, restingId |-> fill.id,
                                price |-> fill.price, quantity |-> fill.quantity,
                                aggressorAccount |-> incoming.account,
                                restingAccount |-> fill.account])
     /\ plan' = Tail(plan)
     /\ \/ /\ resting.remaining = 0
           /\ index' = unindex(opposite, fill.id)
           /\ levels' = [levels EXCEPT ![opposite][fill.price] = extract(level, resting)]
           /\ orders' = [orders EXCEPT ![fill.id] = None]
        \/ /\ NeedsReplenish(resting)
           /\ levels' = [levels EXCEPT ![opposite][fill.price] =
                           requeueReplenished(level, Replenish(resting))]
           /\ orders' = [orders EXCEPT ![fill.id] = Replenish(resting)]
           /\ UNCHANGED index
        \/ /\ resting.remaining # 0 /\ ~NeedsReplenish(resting)
           /\ levels' = [levels EXCEPT ![opposite][fill.price] = level]
           /\ orders' = [orders EXCEPT ![fill.id] = resting]
           /\ UNCHANGED index
     /\ UNCHANGED <<nextSequence, phase, call, cursor, pending, available, blocked, result, before>>

DropEmptyFront_OnlyTheBest(side) ==
  [p \in Prices |->
     IF p = bestPrice(side) /\ levels[side][p].queue = <<>> THEN None ELSE levels[side][p]]

\* dropEmptyLevelsFromFront
DropEmptyFront(side) ==
  [p \in Prices |->
     IF /\ levels[side][p] # None
        /\ \A q \in Present(side) : (q = p \/ Better(side, q, p)) => levels[side][q].queue = <<>>
     THEN None ELSE levels[side][p]]

\* installLevel keeps a level that is already there.
InstallLevel(side, price) ==
  IF levels[side][price] = None THEN EmptyLevel ELSE levels[side][price]

SubmitStatus ==
  CASE WillRest /\ fills = <<>>  -> "Resting"
    [] WillRest /\ fills # <<>>  -> "PartiallyFilledResting"
    [] ~WillRest /\ incoming.remaining = 0 -> "Filled"
    [] ~WillRest /\ incoming.remaining # 0 /\ blocked -> "SelfMatchBlocked"
    [] OTHER -> "CancelledRemainder"

\* The sweep is over: emptied levels go, the remainder rests or is dropped.
FinishCommit ==
  LET own == incoming.side
      price == incoming.price
      opposite == Opposite(own)
      swept == [levels EXCEPT ![opposite] = DropEmptyFront(opposite)]
  IN /\ phase = "commit" /\ plan = <<>>
     /\ \/ /\ WillRest
           /\ levels' = [swept EXCEPT ![own][price] = adopt(InstallLevel(own, price), incoming)]
           /\ index' = [index EXCEPT ![own][incoming.id] = price]
           /\ orders' = [orders EXCEPT ![incoming.id] = incoming]
        \/ ~WillRest /\ levels' = swept /\ UNCHANGED <<index, orders>>
     /\ Return(Outcome(IF call.op = "modify" THEN "Requeued" ELSE SubmitStatus, fills,
                       IF WillRest THEN incoming.remaining ELSE 0))
     /\ UNCHANGED <<nextSequence, call, before>>

-----------------------------------------------------------------------------
\* cancel and modify

Cancel(id) ==
  /\ phase = "ready"
  /\ call' = [op |-> "cancel", id |-> id]
  /\ before' = book
  /\ \/ SideOf(id) # None /\ Withdraw(SideOf(id), id) /\ Return(Outcome("Cancelled", <<>>, 0))
     \/ /\ SideOf(id) = None
        /\ Return(Outcome("NotFound", <<>>, 0))
        /\ UNCHANGED <<levels, index, orders>>
  /\ UNCHANGED nextSequence

Modify(id, newQty, newPrice) ==
  LET side == SideOf(id)
      resting == orders[id]
      target == IF newPrice = None THEN resting.price ELSE newPrice
      keepsPlace == target = resting.price /\ newQty <= resting.remaining
      reduced == ReduceTo(resting, newQty)
      replacement == CloneAmended(resting, newQty, target)
  IN /\ phase = "ready"
     /\ call' = [op |-> "modify", id |-> id, quantity |-> newQty, price |-> newPrice]
     /\ before' = book
     /\ \/ /\ newQty = 0
           /\ Return(Outcome("Rejected", <<>>, 0))
           /\ UNCHANGED <<levels, orders>>
        \/ /\ newQty # 0 /\ side = None
           /\ Return(Outcome("NotFound", <<>>, 0))
           /\ UNCHANGED <<levels, orders>>
        \/ /\ newQty # 0 /\ side # None /\ keepsPlace
           /\ levels' = [levels EXCEPT ![side][index[side][id]] = reduceQuantity(@, resting, reduced)]
           /\ orders' = [orders EXCEPT ![id] = reduced]
           /\ Return(Outcome("AmendedInPlace", <<>>, newQty))
        \/ /\ newQty # 0 /\ side # None /\ ~keepsPlace
           /\ nextSequence <= SequenceLimit
           /\ MayEnter(replacement)
           /\ BeginPlan(replacement)
           /\ UNCHANGED <<levels, orders>>
     /\ UNCHANGED <<index, nextSequence>>

Match == EnterLevel \/ StopWalking \/ PlanFill \/ BlockSelfMatch \/ LeaveLevel
Commit == BeginCommit \/ CommitFill \/ FinishCommit

Next ==
  \/ \E order \in Submittable : Submit(order)
  \/ \E id \in Ids : Cancel(id)
  \/ \E id \in Ids, newQty \in Sizes, newPrice \in Prices \cup {None} : Modify(id, newQty, newPrice)
  \/ Match \/ Throw \/ Commit
  \/ Consume

Spec == Init /\ [][Next]_vars

-----------------------------------------------------------------------------
Fill == [aggressorId : Ids, restingId : Ids, price : Prices, quantity : Quantities,
         aggressorAccount : Accounts, restingAccount : Accounts]

TypeOK ==
  /\ levels \in [Sides -> [Prices -> {None} \cup
        [queue : Seq(Ids), totalQty : Quantities, visibleQty : Quantities]]]
  /\ index \in [Sides -> [Ids -> Prices \cup {None}]]
  /\ orders \in [Ids -> Order \cup {None}]
  /\ nextSequence \in Nat
  /\ phase \in {"ready", "walk", "level", "reserve", "commit", "done"}
  /\ incoming \in Order \cup {None}
  /\ cursor \in Prices \cup {None}
  /\ pending \in Seq([id : Ids, account : Accounts, remaining : Quantities,
                      visible : Quantities, display : Quantities])
  /\ available \in Quantities
  /\ plan \in Seq([price : Prices, id : Ids, account : Accounts, quantity : Quantities])
  /\ blocked \in BOOLEAN
  /\ fills \in Seq(Fill)

\* The best bid is below the best ask in every state, those between two fills
\* of a sweep included: the check submit makes before it returns.
NeverCrossed == ~isCrossed

Queue(side, price) ==
  IF levels[side][price] = None THEN <<>> ELSE levels[side][price].queue

\* The index and the queues agree: an id is filed under a price exactly when it
\* stands once in that queue, on one side, with that price, and cancel and
\* modify find every resting order through it.
IndexAgreesWithQueues ==
  /\ \A s \in Sides, p \in Prices, id \in Ids :
       Cardinality({i \in DOMAIN Queue(s, p) : Queue(s, p)[i] = id})
         = IF index[s][id] = p THEN 1 ELSE 0
  /\ \A id \in Ids :
       /\ (orders[id] # None) <=> (SideOf(id) # None)
       /\ orders[id] # None =>
            /\ orders[id].id = id /\ orders[id].side = SideOf(id)
            /\ index[SideOf(id)][id] = orders[id].price
            /\ index[Opposite(SideOf(id))][id] = None

\* A level's cached totals are the sums over its queue, between fills too:
\* what depth, imbalance and the L2 feed read without walking the queue.
TotalsMatchTheQueue ==
  \A s \in Sides, p \in Prices : levels[s][p] # None =>
    LET ids == {Queue(s, p)[i] : i \in DOMAIN Queue(s, p)}
    IN /\ levels[s][p].totalQty
            = MapThenSumSet(LAMBDA id : orders[id].remaining, ids) % QuantityModulus
       /\ levels[s][p].visibleQty
            = MapThenSumSet(LAMBDA id : VisibleQty(orders[id]), ids) % QuantityModulus

\* No call leaves an empty level behind, so begin() is a price someone quotes.
NoEmptyLevel ==
  phase # "commit" =>
    \A s \in Sides, p \in Prices : levels[s][p] # None => levels[s][p].queue # <<>>

\* A resting order always shows some of what it has and never more: the
\* constructor, replenish, the clamp of reduceTo and every fill keep it so.
RestingOrderShowsQuantity ==
  \A id \in Ids : orders[id] # None =>
    /\ VisibleQty(orders[id]) \in 1 .. orders[id].remaining
    /\ VisibleQty(orders[id]) <= DisplaySize(orders[id])

\* The planner's qty > 0 precondition: whatever it has simulated so far, the
\* order at the head of the simulated queue has something to trade.
PlannerFindsQuantity ==
  phase = "level" /\ pending # <<>> => Head(pending).visible > 0

\* The plan is exact.  Each planned fill, when its turn comes, meets the order
\* at the head of the best non-empty level and takes no more than it shows:
\* price priority, then time, through tranches refreshed during the sweep.
FillsTakeTheHeadOfTheBook ==
  phase = "commit" /\ plan # <<>> =>
    LET fill == Head(plan)
        opposite == Opposite(incoming.side)
        quoted == {p \in Prices : Queue(opposite, p) # <<>>}
    IN /\ fill.price \in quoted /\ fill.price = First(opposite, quoted)
       /\ fill.id = Head(Queue(opposite, fill.price))
       /\ fill.quantity \in 1 .. VisibleQty(orders[fill.id])
       /\ fill.quantity <= incoming.remaining

\* The strong exception guarantee: a call that threw, from validation or from
\* any allocation on the way to the commit, left the book exactly as it was.
ThrowLeavesNoTrace ==
  phase = "done" /\ result.status = "Threw" => book = before

\* Time priority: nobody stands behind a later arrival, except an iceberg,
\* which goes to the back each time it refreshes its tranche.
OnlyIcebergsFallBack ==
  \A s \in Sides, p \in Prices : \A i, j \in DOMAIN Queue(s, p) :
    i < j => \/ orders[Queue(s, p)[i]].sequence < orders[Queue(s, p)[j]].sequence
             \/ orders[Queue(s, p)[j]].kind = "iceberg"

===============================================================================
