-------------------------------- MODULE Orders --------------------------------
(***************************************************************************)
(* core/types.hpp and core/order.{hpp,cpp}: the order hierarchy as values. *)
(*                                                                         *)
(* A limit, a market and an iceberg order are records of one shape; kind   *)
(* takes the place of the vtable.  visible and display are data members of *)
(* IcebergOrder only; for the other kinds they stay 0 and VisibleQty and   *)
(* DisplaySize answer with the remaining quantity, as the base class does. *)
(***************************************************************************)
EXTENDS Integers

CONSTANTS Ids, Accounts, Prices,
          QuantityModulus,  \* Quantity is unsigned: 2^64 in the code
          None              \* nullptr, nullopt, end()

ASSUME PricesAssumption == Prices \subseteq Int
ASSUME ModulusAssumption == QuantityModulus \in Nat \ {0}
ASSUME NoneAssumption == None \notin Ids \cup Prices

Quantities == 0 .. (QuantityModulus - 1)

\* Unsigned arithmetic: an unguarded subtraction wraps instead of failing.
Plus(a, b)  == IF a + b < QuantityModulus THEN a + b ELSE a + b - QuantityModulus
Minus(a, b) == IF b <= a THEN a - b ELSE a - b + QuantityModulus

Least(a, b) == IF a <= b THEN a ELSE b

Sides == {"buy", "sell"}
Opposite(side) == IF side = "buy" THEN "sell" ELSE "buy"

\* BidOrdering and AskOrdering: p comes before q when walking from the touch.
Better(side, p, q) == IF side = "buy" THEN p > q ELSE p < q

Order ==
  [id : Ids, side : Sides, account : Accounts, kind : {"limit", "market", "iceberg"},
   price : Prices \cup {None}, remaining : Quantities, visible : Quantities,
   display : Quantities, sequence : Nat]

-----------------------------------------------------------------------------
\* Construction.  A sequence of 0 reads as "never queued".

LimitOrder(id, side, account, qty, price) ==
  [id |-> id, side |-> side, account |-> account, kind |-> "limit", price |-> price,
   remaining |-> qty, visible |-> 0, display |-> 0, sequence |-> 0]

MarketOrder(id, side, account, qty) ==
  [LimitOrder(id, side, account, qty, None) EXCEPT !.kind = "market"]

\* A display size of zero shows everything; none shows more than there is.
IcebergOrder(id, side, account, totalQty, price, displaySize) ==
  LET display == IF displaySize = 0 THEN totalQty ELSE Least(displaySize, totalQty)
  IN [LimitOrder(id, side, account, totalQty, price)
        EXCEPT !.kind = "iceberg", !.display = display, !.visible = display]

-----------------------------------------------------------------------------
\* Queries

Crosses_Strict(order, best) ==
  CASE order.kind = "market" -> TRUE
    [] order.side = "buy"    -> order.price > best
    [] OTHER                 -> order.price < best

Crosses(order, best) ==
  CASE order.kind = "market" -> TRUE
    [] order.side = "buy"    -> order.price >= best
    [] OTHER                 -> order.price <= best

VisibleQty(order)  == IF order.kind = "iceberg" THEN order.visible ELSE order.remaining
DisplaySize(order) == IF order.kind = "iceberg" THEN order.display ELSE order.remaining

NeedsReplenish(order) == order.remaining > 0 /\ VisibleQty(order) = 0

-----------------------------------------------------------------------------
\* Mutations, as the order that results.  The asserts on qty are compiled out.

OnPartialFill(order, qty) ==
  [order EXCEPT !.remaining = Minus(@, qty),
                !.visible = IF order.kind = "iceberg" THEN Minus(@, qty) ELSE @]

Replenish(order) ==
  IF order.kind = "iceberg"
  THEN [order EXCEPT !.visible = Least(order.display, order.remaining)]
  ELSE order

ReduceTo_KeepsTranche(order, newQty) == [order EXCEPT !.remaining = newQty]

\* The tranche is clamped, never re-cut: shown size only falls.
ReduceTo(order, newQty) ==
  [order EXCEPT !.remaining = newQty,
                !.visible = IF order.kind = "iceberg" THEN Least(@, newQty) ELSE @,
                !.display = IF order.kind = "iceberg" THEN Least(@, newQty) ELSE @]

\* A detached copy with new terms; only an iceberg's display size survives.
CloneAmended(order, newQty, newPrice) ==
  CASE order.kind = "iceberg" ->
         IcebergOrder(order.id, order.side, order.account, newQty, newPrice, order.display)
    [] order.kind = "market" -> MarketOrder(order.id, order.side, order.account, newQty)
    [] OTHER -> LimitOrder(order.id, order.side, order.account, newQty, newPrice)

===============================================================================
