----------------------------- MODULE Accounting -----------------------------
(***************************************************************************)
(* Average-cost position arithmetic: crates/engine/src/accounting.rs.      *)
(*                                                                         *)
(* The machine integers keep their widths: an i64 is a member of I64, a    *)
(* u64 of U64, an i128 of I128.  In the program HalfWord is 2^63 and       *)
(* HalfValue 2^127, twice its square; a model scales both down.            *)
(***************************************************************************)
EXTENDS Integers

CONSTANTS HalfWord, HalfValue

ASSUME WidthAssumption == HalfWord \in Nat \ {0} /\ HalfValue \in Nat \ {0}

I64  == -HalfWord .. HalfWord - 1
U64  == 0 .. 2 * HalfWord - 1
I128 == -HalfValue .. HalfValue - 1

Sides == {"Buy", "Sell"}

Direction(side) == IF side = "Buy" THEN 1 ELSE -1

Magnitude(n) == IF n < 0 THEN -n ELSE n
Signum(n)    == IF n > 0 THEN 1 ELSE IF n < 0 THEN -1 ELSE 0
Smaller(a, b) == IF a <= b THEN a ELSE b

\* Rust's integer division rounds toward zero; b is positive here.
TruncDiv(a, b) == IF a >= 0 THEN a \div b ELSE -((-a) \div b)

Position == [quantity : I64, cost_basis : I128, realized_pnl : I128]

Flat == [quantity |-> 0, cost_basis |-> 0, realized_pnl |-> 0]
-----------------------------------------------------------------------------
\* How much of a fill closes open quantity of the other direction.
ClosingQty(pos, dir, qty) ==
  IF pos.quantity # 0 /\ Signum(pos.quantity) # dir
  THEN Smaller(qty, Magnitude(pos.quantity))
  ELSE 0

\* trunc(cost * closing / open), with the quotient and the remainder of
\* cost / open multiplied separately so that no product leaves an i128.
WholePart(cost, closing, open) == TruncDiv(cost, open) * closing
RemainderProduct(cost, closing, open) ==
  (cost - TruncDiv(cost, open) * open) * closing

SplitShare(cost, closing, open) ==
  WholePart(cost, closing, open)
    + TruncDiv(RemainderProduct(cost, closing, open), open)

\* A mutation: the remainder of the share is forgotten.
Mutant_DropRemainder(cost, closing, open) == WholePart(cost, closing, open)

ClosedShare(cost, closing, open) == SplitShare(cost, closing, open)

RemovedCost(pos, closing) ==
  IF closing = Magnitude(pos.quantity)
  THEN pos.cost_basis
  ELSE ClosedShare(pos.cost_basis, closing, Magnitude(pos.quantity))

ClosingValue(pos, closing, price) == Signum(pos.quantity) * closing * price

\* The first half of apply: open quantity is closed and its P&L realized.
AfterClose(pos, dir, price, closing) ==
  IF closing = 0 THEN pos
  ELSE [quantity     |-> pos.quantity + dir * closing,
        cost_basis   |-> pos.cost_basis - RemovedCost(pos, closing),
        realized_pnl |-> pos.realized_pnl
                           + (ClosingValue(pos, closing, price)
                                - RemovedCost(pos, closing))]

\* The second half: what is left of the fill opens quantity.
AfterOpen(pos, dir, price, opening) ==
  [quantity     |-> pos.quantity + dir * opening,
   cost_basis   |-> pos.cost_basis + dir * opening * price,
   realized_pnl |-> pos.realized_pnl]

\* The position a fill leads to, in unbounded integers.
Filled(pos, dir, price, qty) ==
  LET closing == ClosingQty(pos, dir, qty)
  IN  AfterOpen(AfterClose(pos, dir, price, closing), dir, price, qty - closing)
-----------------------------------------------------------------------------
\* The checked_* results of the closing half.  The subtraction of the removed
\* cost from the basis is the one operation the code leaves unchecked.
SplitShareChecks(cost, closing, open) ==
  /\ WholePart(cost, closing, open) \in I128
  /\ RemainderProduct(cost, closing, open) \in I128
  /\ SplitShare(cost, closing, open) \in I128

\* A mutation: the checked product that the split avoids.
Mutant_NaiveShareChecks(cost, closing, open) == cost * closing \in I128

ShareChecks(cost, closing, open) == SplitShareChecks(cost, closing, open)

CloseChecks(pos, price, closing) ==
  closing > 0 =>
    /\ closing # Magnitude(pos.quantity)
         => ShareChecks(pos.cost_basis, closing, Magnitude(pos.quantity))
    /\ ClosingValue(pos, closing, price) \in I128
    /\ ClosingValue(pos, closing, price) - RemovedCost(pos, closing) \in I128
    /\ AfterClose(pos, -Signum(pos.quantity), price, closing).realized_pnl \in I128

\* A mutation: the product is checked and the sum is not.
Mutant_UncheckedCost(pos, dir, price, opening) == dir * opening * price \in I128

OpenChecks(pos, dir, price, opening) ==
  opening > 0 =>
    /\ dir * opening * price \in I128
    /\ AfterOpen(pos, dir, price, opening).cost_basis \in I128

\* apply returns Some: every check passes and the new quantity is an i64.
FillFits(pos, dir, price, qty) ==
  LET closing == ClosingQty(pos, dir, qty)
  IN  /\ CloseChecks(pos, price, closing)
      /\ OpenChecks(AfterClose(pos, dir, price, closing), dir, price, qty - closing)
      /\ Filled(pos, dir, price, qty).quantity \in I64

\* A mutation: apply_fill works on the position itself instead of on a copy, so
\* the fields assigned before a failed check keep their new values.
Mutant_FillInPlace(pos, dir, price, qty) ==
  LET closing == ClosingQty(pos, dir, qty)
      closed  == AfterClose(pos, dir, price, closing)
  IN  IF FillFits(pos, dir, price, qty) THEN Filled(pos, dir, price, qty)
      ELSE IF CloseChecks(pos, price, closing)
      THEN [closed EXCEPT !.quantity = pos.quantity]
      ELSE pos

\* apply_fill: the copy replaces the position only if every step succeeded.
ApplyFill(pos, dir, price, qty) ==
  IF FillFits(pos, dir, price, qty) THEN Filled(pos, dir, price, qty) ELSE pos

UnrealizedPnl(pos, mark) == pos.quantity * mark - pos.cost_basis
=============================================================================
