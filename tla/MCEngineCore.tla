---------------------------- MODULE MCEngineCore ----------------------------
(***************************************************************************)
(* EngineCore with small constants.                                        *)
(***************************************************************************)
EXTENDS EngineCore

Slice(time, upto) == [time |-> time, upto |-> upto]

Order(symbol, side, limit, end, schedule) ==
  [symbol |-> symbol, side |-> side, limit_price |-> limit, end |-> end,
   quantity |-> schedule[Len(schedule)].upto, schedule |-> schedule]

\* Orders of one and of two slices, at market and with a limit, one whose first
\* slice is empty, and one for each reason to refuse an order outright.
MCOrderSpecs ==
  {Order("A", "Buy",  NoLimit, 2, <<Slice(0, 1), Slice(1, 3)>>),
   Order("A", "Sell", NoLimit, 1, <<Slice(0, 2)>>),
   Order("A", "Buy",  2, 2, <<Slice(0, 0), Slice(1, 2)>>),
   Order("A", "Buy",  NoLimit, 2, <<Slice(0, 0)>>),
   Order("A", "Sell", 0, 2, <<Slice(0, 1)>>),
   Order("Z", "Buy",  NoLimit, 2, <<Slice(0, 1)>>)}

MCMark == [s \in Symbols |-> 2]

ASSUME EngineBudget == Budget!BudgetAssumption
=============================================================================
