--------------------------- MODULE PositionLedger ---------------------------
(***************************************************************************)
(* One position under every sequence of fills: the Position of             *)
(* crates/engine/src/accounting.rs, driven through apply_fill.  The ghost  *)
(* netCash is what the accepted fills paid and received, kept apart from   *)
(* the average-cost arithmetic it is compared with.                        *)
(***************************************************************************)
EXTENDS Accounting

CONSTANT Prices       \* the prices a fill can have, in ticks

\* What the theorems and the runs assume of prices and widths.
LedgerAssumption ==
  /\ Prices \subseteq 1 .. HalfWord - 1
  /\ HalfValue = 2 * HalfWord * HalfWord

VARIABLES position, netCash

ledgerVars == <<position, netCash>>

LedgerInit ==
  /\ position = Flat
  /\ netCash = 0

\* A fill arrives; on AccountingOverflow it is not recorded anywhere.
Fill(side, price, qty) ==
  /\ position' = ApplyFill(position, Direction(side), price, qty)
  /\ netCash' = IF FillFits(position, Direction(side), price, qty)
                THEN netCash - Direction(side) * price * qty
                ELSE netCash

LedgerNext == \E side \in Sides, price \in Prices, qty \in U64 \ {0} : Fill(side, price, qty)

LedgerSpec == LedgerInit /\ [][LedgerNext]_ledgerVars
-----------------------------------------------------------------------------
\* The fields stay within their machine types and the ghost is an integer.
TypeOK == position \in Position /\ netCash \in Int

\* accounting.rs:17-20: realized P&L less the open cost is the net cash of all
\* fills so far, exactly, whatever the rounding of partial closes and whatever
\* fills were refused in between.
NetCashIdentity == position.realized_pnl - position.cost_basis = netCash

\* The open cost keeps the sign of the quantity, and the average price stays
\* between the lowest and the highest price any fill can have: rounding leaves
\* its residue with the open quantity but never pushes the average outside.
\* It is also why the unchecked subtraction at accounting.rs:78 cannot wrap.
CostWithin(lo, hi) ==
  LET size == Magnitude(position.quantity)
      cost == Signum(position.quantity) * position.cost_basis
  IN  /\ lo * size <= cost
      /\ cost <= hi * size
      /\ size = 0 => position.cost_basis = 0

AverageWithinPrices ==
  \A lo, hi \in Prices :
    (\A price \in Prices : lo <= price /\ price <= hi) => CostWithin(lo, hi)

\* accounting.rs:64-67: splitting the share into quotient and remainder gives
\* the truncated share itself, so apply_fill refuses a fill only when the exact
\* result leaves the machine types and never because of an intermediate product.
OverflowIsReal ==
  \A side \in Sides, price \in Prices, qty \in U64 :
    FillFits(position, Direction(side), price, qty)
      <=> Filled(position, Direction(side), price, qty) \in Position

SplitIsTruncation ==
  \A closing \in 1 .. Magnitude(position.quantity) - 1 :
    RemovedCost(position, closing)
      = TruncDiv(position.cost_basis * closing, Magnitude(position.quantity))
=============================================================================
