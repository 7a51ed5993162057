------------------------------ MODULE OrderBook ------------------------------
(***************************************************************************)
(* The limit order book of crates/orderbook/src/book.rs.                   *)
(*                                                                         *)
(* levels and index are the two structures the code keeps in step: the     *)
(* price levels of each side with their cached totals, and the map from a  *)
(* resting id to its side and price.  One call of submit_order is several  *)
(* steps here - the checks, one step per iteration of the inner matching   *)
(* loop, the disposal of the remainder - so that the loop's invariants are *)
(* invariants of the specification; taker is the order being matched, and  *)
(* no other call starts while there is one (submit_order takes &mut self). *)
(*                                                                         *)
(* A u64 quantity is a number below QtyModulus, and adding and subtracting *)
(* wrap there.  The timestamp of an order is informational and left out.   *)
(***************************************************************************)
EXTENDS SequencesExt

CONSTANTS
  OrderIds,     \* the ids orders can carry
  MaxPrice,     \* the highest limit price, in ticks
  QtyModulus,   \* 2^64 in the program
  NoLimit,      \* the limit price of a market order
  NoTaker       \* no submission is in progress

ASSUME BookAssumption ==
  /\ MaxPrice \in Nat \ {0}
  /\ QtyModulus \in Nat \ {0, 1}
  /\ NoLimit \notin Int
  /\ NoTaker \notin [id : OrderIds, side : {"Buy", "Sell"},
                     limit_price : 0 .. MaxPrice \cup {NoLimit},
                     qty : 0 .. QtyModulus - 1, tif : {"GTC", "IOC", "FOK"}]

VARIABLES
  levels,       \* per side, a map from price to the orders resting there
  index,        \* resting id -> side and price
  taker,        \* the order submit_order is matching, with what it still wants
  fills,        \* the fills of that submission so far
  outcome,      \* what the last finished call returned
  arrived       \* ghost: resting ids in order of arrival

book == <<levels, index>>
vars == <<levels, index, taker, fills, outcome, arrived>>
-----------------------------------------------------------------------------
Sides == {"Buy", "Sell"}
TimeInForce == {"GTC", "IOC", "FOK"}
Qty == 0 .. QtyModulus - 1

Opposite(side) == IF side = "Buy" THEN "Sell" ELSE "Buy"

Order == [id : OrderIds, side : Sides, limit_price : 0 .. MaxPrice \cup {NoLimit},
          qty : Qty, tif : TimeInForce]

\* Map updates: an entry set, an entry removed.
With(f, k, v)  == [x \in DOMAIN f \cup {k} |-> IF x = k THEN v ELSE f[x]]
Without(f, k)  == [x \in DOMAIN f \ {k} |-> f[x]]
EmptyMap       == [x \in {} |-> x]

AddQty(a, b) == (a + b) % QtyModulus
SubQty(a, b) == (a - b) % QtyModulus
LesserQty(a, b) == IF a <= b THEN a ELSE b

\* The ids left in order of arrival when one of them rests no more.
Departed(id) == RemoveAt(arrived, CHOOSE i \in DOMAIN arrived : arrived[i] = id)

\* A mutation: the limit price is not looked at.
Mutant_AnyLimit(order, price) == TRUE

Accepts(order, price) ==
  order.limit_price # NoLimit =>
    IF order.side = "Buy" THEN price <= order.limit_price ELSE price >= order.limit_price

PricesOf(side) == DOMAIN levels[side]

\* The best price of a side with levels: the highest bid, the lowest ask.
BestPrice(side) == IF side = "Buy" THEN Max(PricesOf(side)) ELSE Min(PricesOf(side))

LevelQty(side, price) ==
  IF price \in PricesOf(side) THEN levels[side][price].total_qty ELSE 0

\* A level emptied of its orders leaves the map.
SetLevel(side, price, orders, total) ==
  [levels EXCEPT ![side] =
     IF orders = <<>> THEN Without(@, price)
     ELSE With(@, price, [orders |-> orders, total_qty |-> total])]
-----------------------------------------------------------------------------
NonPositivePrice(order) == order.limit_price = 0

\* The whole quantity may end up resting at the order's own level.
LevelQuantityOverflow(order) ==
  /\ order.limit_price # NoLimit
  /\ order.tif = "GTC"
  /\ LevelQty(order.side, order.limit_price) + order.qty \notin Qty

\* The first reason of validate, in the order of its checks, or "None".
Validate(order) ==
  IF order.qty = 0 THEN "ZeroQuantity"
  ELSE IF NonPositivePrice(order) THEN "NonPositivePrice"
  ELSE IF LevelQuantityOverflow(order) THEN "LevelQuantityOverflow"
  ELSE IF order.limit_price = NoLimit /\ order.tif = "GTC" THEN "MarketOrderCannotRest"
  ELSE IF order.id \in DOMAIN index THEN "DuplicateOrderId"
  ELSE "None"

\* A mutation: what all levels hold, acceptable or not.
Mutant_AnyPriceExecutable(order) ==
  LET other == levels[Opposite(order.side)]
  IN  LesserQty(order.qty, SumFunction([p \in DOMAIN other |-> other[p].total_qty]))

\* What the order could trade now, from the cached totals of the acceptable
\* levels, capped at its size.  (The code stops at the first level that covers
\* the order and saturates the sum: both are below the cap.)
ExecutableQty(order) ==
  LET other      == levels[Opposite(order.side)]
      acceptable == {p \in DOMAIN other : Accepts(order, p)}
  IN  LesserQty(order.qty, SumFunction([p \in acceptable |-> other[p].total_qty]))
-----------------------------------------------------------------------------
Init ==
  /\ levels = [side \in Sides |-> EmptyMap]
  /\ index = EmptyMap
  /\ taker = NoTaker
  /\ fills = <<>>
  /\ outcome = "None"
  /\ arrived = <<>>

\* submit_order returns an error and leaves the book unchanged.
Reject(order) ==
  /\ taker = NoTaker
  /\ Validate(order) # "None"
  /\ outcome' = Validate(order)
  /\ UNCHANGED <<levels, index, taker, fills, arrived>>

\* A fill-or-kill order that cannot trade in full: nothing trades.
Kill(order) ==
  /\ taker = NoTaker
  /\ Validate(order) = "None"
  /\ order.tif = "FOK" /\ ExecutableQty(order) < order.qty
  /\ outcome' = "Killed"
  /\ UNCHANGED <<levels, index, taker, fills, arrived>>

\* The order passes the checks and starts to match.
Accept(order) ==
  /\ taker = NoTaker
  /\ Validate(order) = "None"
  /\ ~(order.tif = "FOK" /\ ExecutableQty(order) < order.qty)
  /\ taker' = order
  /\ outcome' = "None"
  /\ UNCHANGED <<levels, index, fills, arrived>>

\* Another iteration of the loops of match_against_book.
CanMatch ==
  /\ taker.qty > 0
  /\ PricesOf(Opposite(taker.side)) # {}
  /\ Accepts(taker, BestPrice(Opposite(taker.side)))

\* A mutation: a partly filled order goes to the back of its queue.
Mutant_PartialToBack(orders, left) ==
  IF left = 0 THEN Tail(orders)
  ELSE Append(Tail(orders), [Head(orders) EXCEPT !.qty = left])

\* The orders of a level after its front traded; a partial fill keeps its place.
AfterTrade(orders, left) ==
  IF left = 0 THEN Tail(orders) ELSE [orders EXCEPT ![1].qty = left]

\* A mutation: the index keeps the maker that was popped.
Mutant_StaleIndex(maker, left) == index
IndexAfterTrade(maker, left) == IF left = 0 THEN Without(index, maker.id) ELSE index

\* One iteration of the inner loop: the taker trades with the front order of
\* the best opposite level; a filled maker and an emptied level are removed.
Match ==
  /\ taker # NoTaker /\ CanMatch
  /\ LET side  == Opposite(taker.side)
         price == BestPrice(side)
         level == levels[side][price]
         maker == Head(level.orders)
         qty   == LesserQty(taker.qty, maker.qty)
         left  == SubQty(maker.qty, qty)
     IN  /\ taker' = [taker EXCEPT !.qty = SubQty(@, qty)]
         /\ levels' = SetLevel(side, price, AfterTrade(level.orders, left),
                               SubQty(level.total_qty, qty))
         /\ index' = IndexAfterTrade(maker, left)
         /\ arrived' = IF left = 0 THEN Departed(maker.id) ELSE arrived
         /\ fills' = Append(fills, [maker |-> maker.id, price |-> price, qty |-> qty])
  /\ UNCHANGED outcome

\* submit_order returns: the taker and the fills are handed to the caller.
Return(result) ==
  /\ outcome' = result
  /\ taker' = NoTaker
  /\ fills' = <<>>

FinishFilled ==
  /\ taker # NoTaker
  /\ taker.qty = 0
  /\ Return("Filled")
  /\ UNCHANGED <<levels, index, arrived>>

\* rest: the remainder joins the back of the queue at its limit price.
Rest ==
  /\ taker # NoTaker
  /\ ~CanMatch /\ taker.qty > 0
  /\ taker.tif = "GTC"
  /\ LET side == taker.side
         price == taker.limit_price
         queue == IF price \in PricesOf(side) THEN levels[side][price].orders ELSE <<>>
     IN  /\ levels' = SetLevel(side, price, Append(queue, taker),
                               AddQty(LevelQty(side, price), taker.qty))
         /\ index' = With(index, taker.id, <<side, price>>)
  /\ arrived' = Append(arrived, taker.id)
  /\ Return("Resting")

CancelRemainder ==
  /\ taker # NoTaker
  /\ ~CanMatch /\ taker.qty > 0
  /\ taker.tif # "GTC"
  /\ Return("Cancelled")
  /\ UNCHANGED <<levels, index, arrived>>

\* cancel_order of a resting id: the index entry goes, then the order.
Cancel(id) ==
  /\ taker = NoTaker
  /\ id \in DOMAIN index
  /\ LET side  == index[id][1]
         price == index[id][2]
         level == levels[side][price]
         at    == CHOOSE i \in DOMAIN level.orders : level.orders[i].id = id
     IN  levels' = SetLevel(side, price, RemoveAt(level.orders, at),
                            SubQty(level.total_qty, level.orders[at].qty))
  /\ index' = Without(index, id)
  /\ arrived' = Departed(id)
  /\ outcome' = "CancelledResting"
  /\ UNCHANGED <<taker, fills>>

\* cancel_order of an id that does not rest returns None.
CancelUnknown(id) ==
  /\ taker = NoTaker
  /\ id \notin DOMAIN index
  /\ outcome' = "NotResting"
  /\ UNCHANGED <<levels, index, taker, fills, arrived>>

Next ==
  \/ \E order \in Order : Reject(order) \/ Kill(order) \/ Accept(order)
  \/ Match
  \/ FinishFilled
  \/ Rest
  \/ CancelRemainder
  \/ \E id \in OrderIds : Cancel(id) \/ CancelUnknown(id)

Spec == Init /\ [][Next]_vars
-----------------------------------------------------------------------------
\* The parts of check_invariants (book.rs:319-375), and what links them to the
\* submission in progress.

\* The structures have their types; prices and quantities are in range.
Level == [orders : Seq(Order), total_qty : Qty]
FillRecord == [maker : OrderIds, price : 1 .. MaxPrice, qty : Qty]

TypeOK ==
  /\ levels = [side \in Sides |-> [price \in PricesOf(side) |-> levels[side][price]]]
  /\ \A side \in Sides :
       /\ PricesOf(side) \subseteq 1 .. MaxPrice
       /\ \A price \in PricesOf(side) : levels[side][price] \in Level
  /\ index = [id \in DOMAIN index |-> index[id]]
  /\ DOMAIN index \subseteq OrderIds
  /\ \A id \in DOMAIN index : index[id] \in Sides \X (1 .. MaxPrice)
  /\ taker \in Order \cup {NoTaker}
  /\ fills \in Seq(FillRecord)
  /\ arrived \in Seq(OrderIds)

\* Every order in a level is a GTC order with quantity left, filed under its own
\* side and price, and the index knows it there; no id rests twice in a level.
OrdersIndexed ==
  \A side \in Sides : \A price \in PricesOf(side) :
    LET orders == levels[side][price].orders
    IN  /\ orders # <<>>
        /\ \A i \in DOMAIN orders :
             /\ orders[i].qty > 0 /\ orders[i].tif = "GTC"
             /\ orders[i].side = side /\ orders[i].limit_price = price
             /\ orders[i].id \in DOMAIN index
             /\ index[orders[i].id] = <<side, price>>
        /\ \A i, j \in DOMAIN orders : orders[i].id = orders[j].id => i = j

\* Every index entry leads to a resting order, so cancel_order never loses one.
IndexBacked ==
  \A id \in DOMAIN index :
    /\ index[id][2] \in PricesOf(index[id][1])
    /\ \E i \in DOMAIN levels[index[id][1]][index[id][2]].orders :
         levels[index[id][1]][index[id][2]].orders[i].id = id

\* book.rs:125-126, 151-152: the id index and the levels describe the same
\* resting orders, through fills, cancels and the reuse of an id.
IndexExact == OrdersIndexed /\ IndexBacked

\* The cached total of every level is the sum of its orders' quantities; so the
\* unchecked addition in rest (book.rs:493-495) never wraps.
TotalsExact ==
  \A side \in Sides : \A price \in PricesOf(side) :
    LET level == levels[side][price]
    IN  level.total_qty = SumFunction([i \in DOMAIN level.orders |-> level.orders[i].qty])

\* No bid is at or above an ask, at any moment and not only between calls.
Uncrossed ==
  \A bid \in PricesOf("Buy"), ask \in PricesOf("Sell") : bid < ask

\* book.rs:319-375: all that check_invariants checks, which the differential test calls
\* between operations, and the types; here also between the steps of one submission.
CheckInvariants == TypeOK /\ IndexExact /\ TotalsExact /\ Uncrossed

\* book.rs:172-177: a fill-or-kill order that starts to trade is traded in full;
\* what executable_qty promises, the matching loop delivers.
FillOrKill ==
  [][taker # NoTaker /\ taker' = NoTaker /\ taker.tif = "FOK" => outcome' = "Filled"]_vars

\* The flat list of resting orders, in order of arrival.
RestingOrder(id) ==
  LET orders == levels[index[id][1]][index[id][2]].orders
  IN  orders[CHOOSE i \in DOMAIN orders : orders[i].id = id]

ArrivalOrder == [i \in DOMAIN arrived |-> RestingOrder(arrived[i])]

Reference == INSTANCE ReferenceBook WITH resting <- ArrivalOrder

\* reference_model.rs:1-7: the book behaves exactly like the naive book: the same
\* outcomes, the same fills in the same order, the same resting orders and
\* quantities, after every step.
ImplementsReference == Reference!Spec
=============================================================================
