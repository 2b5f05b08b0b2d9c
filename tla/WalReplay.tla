------------------------------- MODULE WalReplay -------------------------------
(***************************************************************************)
(* store/wal_record and store/recovery over whole commands: the live book  *)
(* takes each command as the client sent it, a second book takes what the  *)
(* log gives back for it.                                                  *)
(*                                                                         *)
(* Book shows that one call answers as MatchingReference does, so a call   *)
(* is one step here and both books are in the reference's form.            *)
(***************************************************************************)
EXTENDS MatchingReference

CONSTANTS Sizes, DisplaySizes,  \* bound: quantities and display sizes asked for
          SequenceLimit,        \* bound: orders entered
          IcebergsHideSize      \* input assumption: a display size is below the total

VARIABLES live,      \* book_ of the running engine
          replayed,  \* the book recovery builds from the log
          answers    \* what the last command returned in each

vars == <<live, replayed, answers>>

EmptyBook ==
  [queues |-> [s \in Sides |-> [p \in Prices |-> <<>>]],
   orders |-> [id \in Ids |-> None], nextSequence |-> 1]

Init == live = EmptyBook /\ replayed = EmptyBook /\ answers = None

-----------------------------------------------------------------------------
\* The fields of an order in a record; the kind is inferred, not stored.
writeOrder(order) ==
  [kind |-> CASE order.price = None                        -> "market"
              [] order.price # None /\ DisplaySize(order) < order.remaining -> "iceberg"
              [] OTHER                                     -> "limit",
   id |-> order.id, account |-> order.account, side |-> order.side,
   price |-> IF order.price = None THEN 0 ELSE order.price,
   quantity |-> order.remaining, display |-> DisplaySize(order)]

readOrder(stored) ==
  CASE stored.kind = "limit" ->
         LimitOrder(stored.id, stored.side, stored.account, stored.quantity, stored.price)
    [] stored.kind = "market" ->
         MarketOrder(stored.id, stored.side, stored.account, stored.quantity)
    [] stored.kind = "iceberg" ->
         IcebergOrder(stored.id, stored.side, stored.account, stored.quantity, stored.price,
                      stored.display)

encodeRecord(command) ==
  CASE command.op = "submit" -> [type |-> "Submit", order |-> writeOrder(command.order)]
    [] command.op = "cancel" -> [type |-> "Cancel", id |-> command.id]
    [] command.op = "modify" ->
         [type |-> "Modify", id |-> command.id, quantity |-> command.quantity,
          hasPrice |-> command.price # None,
          price |-> IF command.price = None THEN 0 ELSE command.price]

decodeRecord_PriceAlways(record) ==
  CASE record.type = "Submit" -> [op |-> "submit", order |-> readOrder(record.order)]
    [] record.type = "Cancel" -> [op |-> "cancel", id |-> record.id]
    [] record.type = "Modify" -> [op |-> "modify", id |-> record.id,
                                  quantity |-> record.quantity, price |-> record.price]

decodeRecord(record) ==
  CASE record.type = "Submit" -> [op |-> "submit", order |-> readOrder(record.order)]
    [] record.type = "Cancel" -> [op |-> "cancel", id |-> record.id]
    [] record.type = "Modify" ->
         [op |-> "modify", id |-> record.id, quantity |-> record.quantity,
          price |-> IF record.hasPrice THEN record.price ELSE None]

-----------------------------------------------------------------------------
\* Input assumption, as in Book: no iceberg trades away its first tranche on
\* entry, so every resting order shows quantity.
Shows(b) ==
  \A id \in Ids : b.orders[id] # None => VisibleQty(b.orders[id]) \in 1 .. b.orders[id].remaining

\* The command is applied by the engine, and by the recovery of its record.
Apply(command) ==
  LET here  == Answer(live, command)
      there == Answer(replayed, decodeRecord(encodeRecord(command)))
  IN /\ Shows(here.book)
     /\ live' = here.book
     /\ replayed' = there.book
     /\ answers' = [live |-> here.fills, replayed |-> there.fills]

Icebergs ==
  {IcebergOrder(id, s, a, q, p, d) : id \in Ids, s \in Sides, a \in Accounts,
                                   q \in Sizes, p \in Prices, d \in DisplaySizes}

Submittable ==
  {LimitOrder(id, s, a, q, p) : id \in Ids, s \in Sides, a \in Accounts, q \in Sizes, p \in Prices}
  \cup {MarketOrder(id, s, a, q) : id \in Ids, s \in Sides, a \in Accounts, q \in Sizes}
  \cup {o \in Icebergs : IcebergsHideSize => o.display < o.remaining}

Submit == /\ live.nextSequence <= SequenceLimit
          /\ \E order \in Submittable : Apply([op |-> "submit", order |-> order])

Cancel == \E id \in Ids : Apply([op |-> "cancel", id |-> id])

Modify ==
  /\ live.nextSequence <= SequenceLimit
  /\ \E id \in Ids, newQty \in Sizes, newPrice \in Prices \cup {None} :
       Apply([op |-> "modify", id |-> id, quantity |-> newQty, price |-> newPrice])

Next == Submit \/ Cancel \/ Modify

Spec == Init /\ [][Next]_vars

-----------------------------------------------------------------------------
\* A recovered book is the book that was logged, whatever the history: the
\* same orders in the same places showing the same size, so that the next
\* command trades alike in both (core/engine.cpp: "identical to the one that
\* was logged rather than merely similar to it").
ReplayRebuildsTheBook ==
  /\ answers # None => answers.live = answers.replayed
  /\ live.queues = replayed.queues /\ live.nextSequence = replayed.nextSequence
  /\ \A id \in Ids : live.orders[id] # None =>
       /\ replayed.orders[id].remaining = live.orders[id].remaining
       /\ VisibleQty(replayed.orders[id]) = VisibleQty(live.orders[id])

===============================================================================
