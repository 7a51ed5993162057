---------------------------- MODULE ReferenceBook ----------------------------
(***************************************************************************)
(* What a book promises: the naive book the differential test compares the *)
(* order book with, crates/orderbook/tests/reference_model.rs.  One flat   *)
(* list of resting orders in arrival order, no index, no cached totals;    *)
(* price-time priority is a choice over the whole list.                    *)
(***************************************************************************)
EXTENDS SequencesExt

CONSTANTS OrderIds, MaxPrice, QtyModulus, NoLimit, NoTaker

VARIABLES resting, taker, fills, outcome

vars == <<resting, taker, fills, outcome>>

Sides == {"Buy", "Sell"}
Qty == 0 .. QtyModulus - 1

Order == [id : OrderIds, side : Sides, limit_price : 0 .. MaxPrice \cup {NoLimit},
          qty : Qty, tif : {"GTC", "IOC", "FOK"}]

\* Positions of the resting orders a new order will trade with.
Candidates(order) ==
  {i \in DOMAIN resting :
     /\ resting[i].side # order.side
     /\ order.limit_price # NoLimit =>
          IF order.side = "Buy"
          THEN resting[i].limit_price <= order.limit_price
          ELSE resting[i].limit_price >= order.limit_price}

PriceRank(order, i) ==
  IF order.side = "Buy" THEN resting[i].limit_price ELSE -resting[i].limit_price

\* Best price for the incoming order first, then arrival order.
Precedes(order, i, j) ==
  \/ PriceRank(order, i) < PriceRank(order, j)
  \/ PriceRank(order, i) = PriceRank(order, j) /\ i <= j

TotalQty(positions) == SumFunction([i \in positions |-> resting[i].qty])

\* OrderBook::validate refuses a quantity that its level cannot hold.  The test leaves
\* that error out, as its small quantities never reach it; here they may.
SameLevel(order) ==
  {i \in DOMAIN resting : /\ resting[i].side = order.side
                          /\ resting[i].limit_price = order.limit_price}

Errors(order) ==
  CASE order.qty = 0 -> "ZeroQuantity"
    [] order.qty # 0 /\ order.limit_price = 0 -> "NonPositivePrice"
    [] /\ order.qty # 0 /\ order.limit_price \notin {0, NoLimit} /\ order.tif = "GTC"
       /\ TotalQty(SameLevel(order)) + order.qty >= QtyModulus -> "LevelQuantityOverflow"
    [] order.qty # 0 /\ order.limit_price = NoLimit /\ order.tif = "GTC"
       -> "MarketOrderCannotRest"
    [] OTHER -> IF \E i \in DOMAIN resting : resting[i].id = order.id
                THEN "DuplicateOrderId" ELSE "None"

Available(order) == TotalQty(Candidates(order))

Init ==
  /\ resting = <<>> /\ taker = NoTaker
  /\ fills = <<>>   /\ outcome = "None"

\* A submission that ends at once: an error, or a fill-or-kill without the
\* quantity it wants.  The book keeps what it has.
Refuse(order) ==
  /\ taker = NoTaker
  /\ outcome' = IF Errors(order) # "None" THEN Errors(order) ELSE "Killed"
  /\ Errors(order) = "None" => order.tif = "FOK" /\ Available(order) < order.qty
  /\ UNCHANGED <<resting, taker, fills>>

Start(order) ==
  /\ taker = NoTaker
  /\ Errors(order) = "None"
  /\ order.tif = "FOK" => Available(order) >= order.qty
  /\ taker' = order /\ outcome' = "None"
  /\ UNCHANGED <<resting, fills>>

\* The next candidate in priority order trades.
Trade ==
  /\ taker # NoTaker /\ taker.qty > 0
  /\ \E i \in Candidates(taker) :
       /\ \A j \in Candidates(taker) : Precedes(taker, i, j)
       /\ LET qty == IF taker.qty <= resting[i].qty THEN taker.qty ELSE resting[i].qty
          IN  /\ taker' = [taker EXCEPT !.qty = @ - qty]
              /\ resting' = IF qty = resting[i].qty THEN RemoveAt(resting, i)
                            ELSE [resting EXCEPT ![i].qty = @ - qty]
              /\ fills' = Append(fills, [maker |-> resting[i].id,
                                         price |-> resting[i].limit_price, qty |-> qty])
  /\ UNCHANGED outcome

Finish ==
  /\ taker # NoTaker
  /\ taker.qty = 0 \/ Candidates(taker) = {}
  /\ outcome' = IF taker.qty = 0 THEN "Filled"
                ELSE IF taker.tif = "GTC" THEN "Resting" ELSE "Cancelled"
  /\ resting' = IF outcome' = "Resting" THEN Append(resting, taker) ELSE resting
  /\ taker' = NoTaker /\ fills' = <<>>

Cancel(id) ==
  /\ taker = NoTaker
  /\ LET found == {i \in DOMAIN resting : resting[i].id = id}
     IN  \/ /\ found # {}
            /\ \E i \in found : resting' = RemoveAt(resting, i)
            /\ outcome' = "CancelledResting"
         \/ /\ found = {}
            /\ outcome' = "NotResting"
            /\ UNCHANGED resting
  /\ UNCHANGED <<taker, fills>>

Next ==
  \/ \E order \in Order : Refuse(order) \/ Start(order)
  \/ Trade
  \/ Finish
  \/ \E id \in OrderIds : Cancel(id)

Spec == Init /\ [][Next]_vars
=============================================================================
