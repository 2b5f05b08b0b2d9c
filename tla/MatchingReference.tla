-------------------------- MODULE MatchingReference --------------------------
(***************************************************************************)
(* What one call on a book promises, one lot at a time.                    *)
(*                                                                         *)
(* A book is [queues, orders, nextSequence]: ids by side and price in time *)
(* order, the resting orders by id, and the next arrival number.  There is *)
(* no plan, no index, no cached total and no level to create or drop: an   *)
(* incoming order trades single lots with whoever is first until it may    *)
(* not, and rests or vanishes.                                             *)
(***************************************************************************)
EXTENDS Orders, Sequences

\* Who trades next with a side, or None.
Touch(b, side) ==
  LET quoted == {p \in Prices : b.queues[side][p] # <<>>}
  IN IF quoted = {} THEN None
     ELSE CHOOSE p \in quoted : \A q \in quoted : q = p \/ Better(side, p, q)

Settled(order) == order.remaining = 0 \/ NeedsReplenish(order)

\* The first order at a price is filled, spent, or keeps its place.
Settle(b, side, price) ==
  LET queue == b.queues[side][price]
      first == b.orders[Head(queue)]
  IN CASE first.remaining = 0 ->
            [b EXCEPT !.queues[side][price] = Tail(queue), !.orders[first.id] = None]
       [] NeedsReplenish(first) ->
            [b EXCEPT !.queues[side][price] = Append(Tail(queue), first.id),
                      !.orders[first.id] = Replenish(first)]
       [] OTHER -> b

\* A lot joins the last trade unless that trade was ended by a settlement.
Record(trades, order, resting, price, fresh) ==
  IF fresh
  THEN Append(trades, [aggressorId |-> order.id, restingId |-> resting.id,
                       price |-> price, quantity |-> 1,
                       aggressorAccount |-> order.account,
                       restingAccount |-> resting.account])
  ELSE [trades EXCEPT ![Len(trades)].quantity = @ + 1]

\* Trades lot by lot; yields the book, the order, the trades and whether the
\* order stopped at one of its own account's.
RECURSIVE Trade(_, _, _, _)
Trade(b, order, trades, fresh) ==
  LET side  == Opposite(order.side)
      price == Touch(b, side)
      over(stopped) == [book |-> b, order |-> order, trades |-> trades, blocked |-> stopped]
  IN IF order.remaining = 0 \/ price = None THEN over(FALSE)
     ELSE IF ~Crosses(order, price) THEN over(FALSE)
     ELSE LET resting == b.orders[Head(b.queues[side][price])]
              hit == [b EXCEPT !.orders[resting.id] = OnPartialFill(@, 1)]
          IN IF resting.account = order.account THEN over(TRUE)
             ELSE Trade(Settle(hit, side, price), OnPartialFill(order, 1),
                        Record(trades, order, resting, price, fresh), Settled(hit.orders[resting.id]))

Reply(b, status, trades, restingQty) ==
  [book |-> b, status |-> status, fills |-> trades, restingQty |-> restingQty]

\* An order enters: it trades, then rests if it has a price and may.
Enter(b, order) ==
  LET stamped == [order EXCEPT !.sequence = b.nextSequence]
      swept   == Trade([b EXCEPT !.nextSequence = @ + 1], stamped, <<>>, TRUE)
      left    == swept.order
      rests   == left.remaining > 0 /\ ~swept.blocked /\ left.price # None
      status  == CASE rests -> IF swept.trades = <<>> THEN "Resting" ELSE "PartiallyFilledResting"
                   [] left.remaining = 0 -> "Filled"
                   [] swept.blocked -> "SelfMatchBlocked"
                   [] OTHER -> "CancelledRemainder"
      rested  == [swept.book EXCEPT !.queues[left.side][left.price] = Append(@, left.id),
                                    !.orders[left.id] = left]
  IN Reply(IF rests THEN rested ELSE swept.book, status, swept.trades,
           IF rests THEN left.remaining ELSE 0)

Leave(b, id) ==
  LET order == b.orders[id]
  IN [b EXCEPT !.queues[order.side][order.price] = SelectSeq(@, LAMBDA x : x # id),
               !.orders[id] = None]

\* The reply to a call on book b.
Answer(b, call) ==
  CASE call.op = "submit" ->
         IF call.order.remaining = 0 \/ b.orders[call.order.id] # None
         THEN Reply(b, "Threw", <<>>, 0)
         ELSE Enter(b, call.order)
    [] call.op = "cancel" ->
         IF b.orders[call.id] = None THEN Reply(b, "NotFound", <<>>, 0)
         ELSE Reply(Leave(b, call.id), "Cancelled", <<>>, 0)
    [] call.op = "modify" ->
         IF call.quantity = 0 THEN Reply(b, "Rejected", <<>>, 0)
         ELSE IF b.orders[call.id] = None THEN Reply(b, "NotFound", <<>>, 0)
         ELSE LET order == b.orders[call.id]
                  price == IF call.price = None THEN order.price ELSE call.price
              IN IF price = order.price /\ call.quantity <= order.remaining
                 THEN Reply([b EXCEPT !.orders[call.id] = ReduceTo(@, call.quantity)],
                            "AmendedInPlace", <<>>, call.quantity)
                 ELSE [Enter(Leave(b, call.id), CloneAmended(order, call.quantity, price))
                         EXCEPT !.status = "Requeued"]

=============================================================================
