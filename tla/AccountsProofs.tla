--------------------------- MODULE AccountsProofs ---------------------------
(***************************************************************************)
(* What MCArithmetic runs on small instances, for every value of the       *)
(* constants: the arithmetic of one fill (Accounting), the identities of a *)
(* position under any fills (PositionLedger), and the limits on what       *)
(* positions and working orders can become (RiskBudget).                   *)
(***************************************************************************)
EXTENDS PositionLedger, RiskBudget, SumTheorems

-----------------------------------------------------------------------------
(* One fill.  The share of a partial close leaves the average where it     *)
(* was, up to a rounding that stays inside any bounds of the prices; so a  *)
(* fill keeps a position within its machine types, its average within the  *)
(* prices and its books equal to its cash.                                 *)

\* Arithmetic of the share of a partial close.

LEMMA Division ==
  ASSUME NEW a \in Nat, NEW b \in Nat \ {0}
  PROVE  /\ a \div b \in Nat
         /\ (a \div b) * b <= a
         /\ a < (a \div b) * b + b
OBVIOUS

LEMMA MulMonotone ==
  ASSUME NEW x \in Int, NEW y \in Int, NEW n \in Nat, x <= y
  PROVE  x * n <= y * n
OBVIOUS

LEMMA MulReflects ==
  ASSUME NEW x \in Int, NEW y \in Int, NEW n \in Nat \ {0}, x * n < y * n
  PROVE  x < y
OBVIOUS

\* Of a cost of a * open + b, a share of closing out of open units takes
\* a * closing + d with d the truncated share of b: what stays with the open
\* units is between the bounds the whole cost was in.
LEMMA ShareKeepsBounds ==
  ASSUME NEW cost \in Nat, NEW open \in Nat, NEW closing \in Nat \ {0}, closing < open,
         NEW lo \in Nat, NEW hi \in Nat, lo * open <= cost, cost <= hi * open
  PROVE  /\ SplitShare(cost, closing, open) \in Nat
         /\ lo * (open - closing) <= cost - SplitShare(cost, closing, open)
         /\ cost - SplitShare(cost, closing, open) <= hi * (open - closing)
<1> DEFINE a == cost \div open
           b == cost - a * open
           d == (b * closing) \div open
           left == open - closing
<1>1. a \in Nat /\ b \in Nat /\ b < open /\ cost = a * open + b
  <2>1. a \in Nat /\ a * open <= cost /\ cost < a * open + open
    BY Division
  <2> HIDE DEF a
  <2> QED BY <2>1
<1> HIDE DEF a, b
<1>2. b * closing \in Nat
  BY <1>1
<1>3. d \in Nat /\ d * open <= b * closing /\ b * closing < d * open + open
  <2> DEFINE product == b * closing
  <2>1. product \in Nat /\ d = product \div open
    BY <1>2
  <2> HIDE DEF product, d
  <2>2. d \in Nat /\ d * open <= product /\ product < d * open + open
    BY <2>1, <1>1, Division
  <2> QED BY <2>2 DEF product
<1> HIDE DEF d
<1>4. SplitShare(cost, closing, open) = a * closing + d
  <2>1. TruncDiv(cost, open) = a
    BY DEF TruncDiv, a
  <2>2. WholePart(cost, closing, open) = a * closing
    BY <2>1 DEF WholePart
  <2>3. RemainderProduct(cost, closing, open) = b * closing
    BY <2>1 DEF RemainderProduct, b
  <2>4. TruncDiv(b * closing, open) = d
    BY <1>2 DEF TruncDiv, d
  <2> QED BY <2>2, <2>3, <2>4 DEF SplitShare
<1>5. d <= b
  <2>1. b * closing <= b * open
    BY <1>1
  <2>2. d * open < (b + 1) * open
    BY <2>1, <1>1, <1>3
  <2> QED BY <2>2, <1>1, <1>3, MulReflects
<1>6. cost - (a * closing + d) = a * left + (b - d)
  <2>1. a * open = a * closing + a * left
    BY <1>1
  <2> QED BY <2>1, <1>1, <1>3
<1>7. lo <= a
  <2>1. lo * open < (a + 1) * open
    BY <1>1
  <2> QED BY <2>1, <1>1, MulReflects
<1>8. lo * left <= a * left
  BY <1>7, <1>1, MulMonotone
<1>9. a * left + (b - d) <= hi * left
  <2>1. CASE b = 0
    <3>1. d = 0
      BY <1>5, <1>3, <2>1
    <3>2. a * open < (hi + 1) * open
      BY <2>1, <1>1
    <3>3. a <= hi
      BY <3>2, <1>1, MulReflects
    <3> QED BY <3>1, <3>3, <2>1, <1>1, MulMonotone
  <2>2. CASE b > 0
    <3>1. a * open < hi * open
      BY <2>2, <1>1
    <3>2. a + 1 <= hi
      BY <3>1, <1>1, MulReflects
    <3>3. (a + 1) * left <= hi * left
      BY <3>2, <1>1, MulMonotone
    <3>4. b - d <= left
      <4> SUFFICES ASSUME d <= b - left - 1 PROVE FALSE
        BY <1>1, <1>3
      <4>1. d * open <= (b - left - 1) * open
        BY <1>1, <1>3, MulMonotone
      <4>2. (b - left - 1) * open = b * open - left * open - open
        BY <1>1
      <4>3. b * open - b * closing = b * left
        BY <1>1
      <4>4. left * open < b * left
        BY <4>1, <4>2, <4>3, <1>1, <1>3
      <4>5. b * left <= open * left
        BY <1>1, MulMonotone
      <4> QED BY <4>4, <4>5, <1>1
    <3> QED BY <3>3, <3>4, <1>1, <1>3
  <2> QED BY <2>1, <2>2, <1>1
<1>10. a * closing + d \in Nat
  BY <1>1, <1>3
<1> QED
  BY <1>4, <1>5, <1>6, <1>8, <1>9, <1>10, <1>1, <1>3

\* Rounding toward zero treats long and short positions alike.
LEMMA ShareOfShort ==
  ASSUME NEW cost \in Nat, NEW open \in Nat \ {0}, NEW closing \in Nat
  PROVE  SplitShare(-cost, closing, open) = -SplitShare(cost, closing, open)
<1> DEFINE a == cost \div open
           b == cost - a * open
           d == (b * closing) \div open
<1>1. a \in Nat /\ b \in Nat
  <2>1. a \in Nat /\ a * open <= cost
    BY Division
  <2> HIDE DEF a
  <2> QED BY <2>1
<1>2. TruncDiv(cost, open) = a /\ TruncDiv(-cost, open) = -a
  BY DEF TruncDiv
<1> HIDE DEF a
<1>3. /\ WholePart(cost, closing, open) = a * closing
      /\ WholePart(-cost, closing, open) = -(a * closing)
  BY <1>1, <1>2 DEF WholePart
<1>4. RemainderProduct(cost, closing, open) = b * closing
  BY <1>2 DEF RemainderProduct
<1>5. RemainderProduct(-cost, closing, open) = -(b * closing)
  <2>1. -cost - (-a) * open = -b
    BY <1>1
  <2>2. (-b) * closing = -(b * closing)
    BY <1>1
  <2> QED BY <1>2, <2>1, <2>2 DEF RemainderProduct
<1>6. b * closing \in Nat
  BY <1>1
<1> HIDE DEF b
<1>7. TruncDiv(b * closing, open) = d /\ TruncDiv(-(b * closing), open) = -d
  <2> DEFINE product == b * closing
  <2>1. product \in Nat /\ product \div open \in Nat
    BY <1>6, Division
  <2>2. TruncDiv(product, open) = product \div open
    BY <2>1 DEF TruncDiv
  <2>3. TruncDiv(-product, open) = -(product \div open)
    <3> HIDE DEF product
    <3>1. product = 0 => product \div open = 0
      BY <2>1
    <3> QED BY <2>1, <3>1 DEF TruncDiv
  <2> QED BY <2>2, <2>3
<1>8. d \in Int /\ a * closing \in Int
  BY <1>6, <1>1, Division
<1> HIDE DEF d
<1> QED
  BY <1>3, <1>4, <1>5, <1>7, <1>8 DEF SplitShare


\* The quotient is the only one with its remainder in range.
LEMMA QuotientUnique ==
  ASSUME NEW a \in Nat, NEW b \in Nat \ {0}, NEW q \in Nat, q * b <= a, a < q * b + b
  PROVE  a \div b = q
<1> DEFINE p == a \div b
<1>1. p \in Nat /\ p * b <= a /\ a < p * b + b
  BY Division
<1> HIDE DEF p
<1>2. p * b < (q + 1) * b /\ q * b < (p + 1) * b
  BY <1>1
<1>3. p < q + 1 /\ q < p + 1
  BY <1>1, <1>2, MulReflects
<1> QED
  BY <1>1, <1>3 DEF p

LEMMA SplitShareOfLong ==
  ASSUME NEW cost \in Nat, NEW open \in Nat \ {0}, NEW closing \in Nat
  PROVE  SplitShare(cost, closing, open) = (cost * closing) \div open
<1> DEFINE a == cost \div open
           b == cost - a * open
           d == (b * closing) \div open
<1>1. a \in Nat /\ b \in Nat /\ cost = a * open + b
  <2>1. a \in Nat /\ a * open <= cost
    BY Division
  <2> HIDE DEF a
  <2> QED BY <2>1
<1>2. TruncDiv(cost, open) = a
  BY DEF TruncDiv
<1>3. WholePart(cost, closing, open) = a * closing
  BY <1>2 DEF WholePart
<1>4. RemainderProduct(cost, closing, open) = b * closing
  BY <1>2 DEF RemainderProduct
<1> HIDE DEF a, b
<1> DEFINE product == b * closing
<1>5. product \in Nat
  BY <1>1
<1> HIDE DEF product
<1>6. d \in Nat /\ d * open <= product /\ product < d * open + open
  BY <1>5, Division DEF product
<1>7. TruncDiv(product, open) = d
  BY <1>5 DEF TruncDiv, product
<1> HIDE DEF d
<1>8. cost * closing = a * closing * open + product
  BY <1>1 DEF product
<1>9. (a * closing + d) * open = a * closing * open + d * open
  BY <1>1, <1>6
<1>10. a * closing + d \in Nat /\ cost * closing \in Nat /\ a * closing * open \in Nat
  BY <1>1, <1>6
<1>11. (cost * closing) \div open = a * closing + d
  <2> DEFINE whole == cost * closing
             quotient == a * closing + d
  <2>1. quotient * open <= whole /\ whole < quotient * open + open
    BY <1>6, <1>8, <1>9, <1>10, <1>5
  <2> HIDE DEF whole, quotient
  <2> QED BY <2>1, <1>10, QuotientUnique DEF whole, quotient
<1> QED
  BY <1>3, <1>4, <1>7, <1>11 DEF SplitShare, product

-----------------------------------------------------------------------------
\* One fill, by how much open quantity it closes.

\* CostWithin, of any position.
Within(pos, lo, hi) ==
  LET size == Magnitude(pos.quantity)
      cost == Signum(pos.quantity) * pos.cost_basis
  IN  /\ lo * size <= cost
      /\ cost <= hi * size
      /\ size = 0 => pos.cost_basis = 0

LEMMA FilledOpens ==
  ASSUME NEW pos \in Position, NEW dir \in {1, -1}, NEW price \in Int, NEW qty \in Nat,
         pos.quantity = 0 \/ Signum(pos.quantity) = dir
  PROVE  Filled(pos, dir, price, qty) =
           [quantity     |-> pos.quantity + dir * qty,
            cost_basis   |-> pos.cost_basis + dir * qty * price,
            realized_pnl |-> pos.realized_pnl]
<1>1. ClosingQty(pos, dir, qty) = 0
  BY DEF ClosingQty
<1>2. qty - 0 = qty
  OBVIOUS
<1> QED
  BY <1>1, <1>2 DEF Filled, AfterClose, AfterOpen, Position

LEMMA FilledReduces ==
  ASSUME NEW pos \in Position, NEW dir \in {1, -1}, NEW price \in Int, NEW qty \in Nat \ {0},
         pos.quantity # 0, Signum(pos.quantity) # dir, qty < Magnitude(pos.quantity),
         RemovedCost(pos, qty) \in Int
  PROVE  /\ ClosingQty(pos, dir, qty) = qty
         /\ Filled(pos, dir, price, qty) =
              [quantity     |-> pos.quantity + dir * qty,
               cost_basis   |-> pos.cost_basis - RemovedCost(pos, qty),
               realized_pnl |-> pos.realized_pnl
                                  + (ClosingValue(pos, qty, price) - RemovedCost(pos, qty))]
<1>1. ClosingQty(pos, dir, qty) = qty
  <2>1. Magnitude(pos.quantity) \in Int
    BY DEF Magnitude, Position, I64
  <2> QED BY <2>1 DEF ClosingQty, Smaller
<1>2. qty - qty = 0 /\ dir * 0 = 0 /\ dir * 0 * price = 0
  OBVIOUS
<1>3. AfterClose(pos, dir, price, qty) =
        [quantity     |-> pos.quantity + dir * qty,
         cost_basis   |-> pos.cost_basis - RemovedCost(pos, qty),
         realized_pnl |-> pos.realized_pnl
                            + (ClosingValue(pos, qty, price) - RemovedCost(pos, qty))]
  BY DEF AfterClose
<1>4. pos.quantity + dir * qty \in Int /\ pos.cost_basis - RemovedCost(pos, qty) \in Int
  BY DEF Position, I64, I128
<1>5. Filled(pos, dir, price, qty) = AfterOpen(AfterClose(pos, dir, price, qty), dir, price, 0)
  BY <1>1, <1>2 DEF Filled
<1> HIDE DEF RemovedCost, ClosingValue
<1>6. AfterOpen(AfterClose(pos, dir, price, qty), dir, price, 0)
        = AfterClose(pos, dir, price, qty)
  BY <1>2, <1>3, <1>4 DEF AfterOpen
<1> QED
  BY <1>1, <1>3, <1>5, <1>6

LEMMA FilledCloses ==
  ASSUME NEW pos \in Position, NEW dir \in {1, -1}, NEW price \in Int, NEW qty \in Nat,
         pos.quantity # 0, Signum(pos.quantity) # dir, Magnitude(pos.quantity) <= qty
  PROVE  LET size == Magnitude(pos.quantity)
         IN  /\ ClosingQty(pos, dir, qty) = size
             /\ Filled(pos, dir, price, qty) =
                  [quantity     |-> dir * (qty - size),
                   cost_basis   |-> dir * (qty - size) * price,
                   realized_pnl |-> pos.realized_pnl
                                      + (ClosingValue(pos, size, price) - pos.cost_basis)]
<1> DEFINE size == Magnitude(pos.quantity)
<1>1. pos.quantity \in Int /\ pos.cost_basis \in Int
  BY DEF Position, I64, I128
<1>2. size \in Nat \ {0} /\ pos.quantity + dir * size = 0
  BY <1>1 DEF Magnitude, Signum
<1>3. ClosingQty(pos, dir, qty) = size
  BY <1>1, <1>2 DEF ClosingQty, Smaller
<1>4. RemovedCost(pos, size) = pos.cost_basis
  BY DEF RemovedCost
<1>5. AfterClose(pos, dir, price, size) =
        [quantity     |-> 0,
         cost_basis   |-> 0,
         realized_pnl |-> pos.realized_pnl
                            + (ClosingValue(pos, size, price) - pos.cost_basis)]
  BY <1>1, <1>2, <1>4 DEF AfterClose
<1>6. dir * (qty - size) \in Int /\ dir * (qty - size) * price \in Int
  BY <1>2
<1>7. Filled(pos, dir, price, qty)
        = AfterOpen(AfterClose(pos, dir, price, size), dir, price, qty - size)
  BY <1>3 DEF Filled
<1> HIDE DEF size
<1>8. AfterOpen(AfterClose(pos, dir, price, size), dir, price, qty - size) =
        [quantity     |-> dir * (qty - size),
         cost_basis   |-> dir * (qty - size) * price,
         realized_pnl |-> pos.realized_pnl
                            + (ClosingValue(pos, size, price) - pos.cost_basis)]
  BY <1>5, <1>6 DEF AfterOpen
<1> QED
  BY <1>3, <1>7, <1>8 DEF size

\* What a fill must leave behind: a position of the machine types, with its
\* average between the bounds and its books moved by the cash of the fill.
Kept(pos, dir, price, qty, lo, hi) ==
  LET new == Filled(pos, dir, price, qty)
  IN  /\ new \in Position
      /\ Within(new, lo, hi)
      /\ new.realized_pnl - new.cost_basis
           = pos.realized_pnl - pos.cost_basis - dir * price * qty

LEMMA OpeningKeeps ==
  ASSUME NEW pos \in Position, NEW dir \in {1, -1}, NEW price \in Nat, NEW qty \in Nat \ {0},
         FillFits(pos, dir, price, qty),
         NEW lo \in Nat, NEW hi \in Nat, lo <= price, price <= hi, Within(pos, lo, hi),
         pos.quantity = 0 \/ Signum(pos.quantity) = dir
  PROVE  Kept(pos, dir, price, qty, lo, hi)
<1> DEFINE new == Filled(pos, dir, price, qty)
           size == Magnitude(pos.quantity)
           cost == Signum(pos.quantity) * pos.cost_basis
<1>1. new = [quantity     |-> pos.quantity + dir * qty,
             cost_basis   |-> pos.cost_basis + dir * qty * price,
             realized_pnl |-> pos.realized_pnl]
  BY FilledOpens
<1>2. pos.quantity \in Int /\ pos.cost_basis \in Int /\ pos.realized_pnl \in I128
  BY DEF Position, I64, I128
<1>3. new \in Position
  <2>1. new.quantity \in I64
    BY DEF FillFits
  <2>2. ClosingQty(pos, dir, qty) = 0
    BY DEF ClosingQty
  <2>3. AfterOpen(pos, dir, price, qty).cost_basis \in I128
    BY <2>2 DEF FillFits, OpenChecks, AfterClose
  <2>4. new.cost_basis \in I128
    BY <1>1, <2>3 DEF AfterOpen
  <2> QED BY <1>1, <1>2, <2>1, <2>4 DEF Position
<1>4. dir * qty * price = dir * (qty * price) /\ qty * price \in Nat
  BY DEF Signum
<1>5. Magnitude(new.quantity) = size + qty /\ Signum(new.quantity) = dir
  <2>1. new.quantity = pos.quantity + dir * qty
    BY <1>1
  <2> HIDE DEF new
  <2>2. CASE dir = 1
    BY <2>1, <2>2, <1>2 DEF Magnitude, Signum
  <2>3. CASE dir = -1
    BY <2>1, <2>3, <1>2 DEF Magnitude, Signum
  <2> QED BY <2>2, <2>3
<1>6. dir * new.cost_basis = cost + qty * price
  <2>1. new.cost_basis = pos.cost_basis + dir * (qty * price)
    BY <1>1, <1>4
  <2>2. cost = dir * pos.cost_basis
    <3>1. CASE pos.quantity = 0
      BY <3>1, <1>2 DEF Within, Signum, Magnitude
    <3>2. CASE pos.quantity # 0
      BY <3>2
    <3> QED BY <3>1, <3>2
  <2>3. dir * (pos.cost_basis + dir * (qty * price)) = dir * pos.cost_basis + qty * price
    <3> DEFINE value == qty * price
    <3>1. value \in Nat
      BY <1>4
    <3> HIDE DEF value
    <3> QED BY <3>1, <1>2 DEF value
  <2> QED BY <2>1, <2>2, <2>3
<1>7. lo * qty <= qty * price /\ qty * price <= hi * qty
  BY MulMonotone
<1>8. lo * size <= cost /\ cost <= hi * size /\ size \in Nat /\ cost \in Int
  BY <1>2 DEF Within, Magnitude, Signum
<1>9. lo * (size + qty) = lo * size + lo * qty /\ hi * (size + qty) = hi * size + hi * qty
  BY <1>8
<1>10. Within(new, lo, hi)
  <2> HIDE DEF size, cost, new
  <2>1. lo * size \in Int /\ hi * size \in Int /\ lo * qty \in Int /\ hi * qty \in Int
    BY <1>8
  <2>2. lo * (size + qty) <= cost + qty * price /\ cost + qty * price <= hi * (size + qty)
    BY <2>1, <1>4, <1>7, <1>8, <1>9
  <2> QED BY <2>2, <1>5, <1>6, <1>8 DEF Within
<1>11. new.realized_pnl - new.cost_basis
         = pos.realized_pnl - pos.cost_basis - dir * price * qty
  BY <1>1, <1>2, <1>4 DEF I128
<1> QED
  BY <1>3, <1>10, <1>11 DEF Kept

LEMMA ReducingKeeps ==
  ASSUME NEW pos \in Position, NEW dir \in {1, -1}, NEW price \in Nat, NEW qty \in Nat \ {0},
         FillFits(pos, dir, price, qty),
         NEW lo \in Nat, NEW hi \in Nat, Within(pos, lo, hi),
         pos.quantity # 0, Signum(pos.quantity) # dir, qty < Magnitude(pos.quantity)
  PROVE  Kept(pos, dir, price, qty, lo, hi)
<1> DEFINE new == Filled(pos, dir, price, qty)
           size == Magnitude(pos.quantity)
           cost == (-dir) * pos.cost_basis
           share == SplitShare(cost, qty, size)
<1>1. pos.quantity \in Int /\ pos.cost_basis \in I128 /\ pos.realized_pnl \in Int
  BY DEF Position, I64, I128
<1>2. size \in Nat \ {0} /\ Signum(pos.quantity) = -dir /\ pos.quantity = (-dir) * size
  BY <1>1 DEF Magnitude, Signum
<1>3. lo * size <= cost /\ cost <= hi * size /\ cost \in Int /\ pos.cost_basis = (-dir) * cost
  BY <1>1, <1>2 DEF Within, I128
<1>4. cost \in Nat
  <2>1. lo * size \in Nat
    BY <1>2
  <2> QED BY <2>1, <1>3
<1>5. share \in Nat /\ lo * (size - qty) <= cost - share /\ cost - share <= hi * (size - qty)
  <2> HIDE DEF cost, size
  <2> QED BY <1>2, <1>3, <1>4, ShareKeepsBounds DEF size
<1>6. RemovedCost(pos, qty) = (-dir) * share
  <2>1. RemovedCost(pos, qty) = SplitShare(pos.cost_basis, qty, size)
    BY <1>2 DEF RemovedCost, ClosedShare
  <2>2. SplitShare(-cost, qty, size) = -share
    <3> HIDE DEF cost, size
    <3> QED BY <1>2, <1>4, ShareOfShort
  <2>3. dir = 1 => pos.cost_basis = -cost
    BY <1>1 DEF I128
  <2>4. dir = -1 => pos.cost_basis = cost
    BY <1>1 DEF I128
  <2> HIDE DEF cost, size
  <2> QED BY <2>1, <2>2, <2>3, <2>4, <1>5
<1>7. RemovedCost(pos, qty) \in Int
  BY <1>5, <1>6
<1> HIDE DEF cost, share
<1>8. /\ ClosingQty(pos, dir, qty) = qty
      /\ new = [quantity     |-> pos.quantity + dir * qty,
                cost_basis   |-> pos.cost_basis - RemovedCost(pos, qty),
                realized_pnl |-> pos.realized_pnl
                                   + (ClosingValue(pos, qty, price) - RemovedCost(pos, qty))]
  BY <1>7, FilledReduces
<1>9. new.cost_basis = (-dir) * (cost - share) /\ new.quantity = (-dir) * (size - qty)
  BY <1>8, <1>6, <1>5, <1>4, <1>3, <1>2
<1>10. size - qty \in Nat \ {0} /\ cost - share \in Nat
  <2>1. size - qty \in Nat \ {0} /\ lo * (size - qty) \in Nat
    BY <1>2
  <2> QED BY <2>1, <1>4, <1>5
<1>11. Magnitude(new.quantity) = size - qty /\ Signum(new.quantity) = -dir
  BY <1>9, <1>10 DEF Magnitude, Signum
<1>12. (-dir) * new.cost_basis = cost - share
  BY <1>9, <1>10
<1>13. Within(new, lo, hi)
  <2> HIDE DEF new, size
  <2> QED BY <1>5, <1>10, <1>11, <1>12 DEF Within
<1>14. new \in Position
  <2>1. new.quantity \in I64
    BY DEF FillFits
  <2>2. new.cost_basis \in I128
    BY <1>1, <1>3, <1>4, <1>5, <1>9, <1>10, WidthAssumption DEF I128
  <2>3. AfterClose(pos, -Signum(pos.quantity), price, qty).realized_pnl \in I128
    BY <1>8 DEF FillFits, CloseChecks
  <2>4. new.realized_pnl \in I128
    BY <2>3, <1>8 DEF AfterClose
  <2> QED BY <2>1, <2>2, <2>4, <1>8 DEF Position
<1>15. ClosingValue(pos, qty, price) = -(dir * price * qty)
  BY <1>2 DEF ClosingValue
<1>16. dir * price * qty \in Int
  OBVIOUS
<1>17. new.realized_pnl - new.cost_basis
         = pos.realized_pnl - pos.cost_basis - dir * price * qty
  BY <1>1, <1>7, <1>8, <1>15, <1>16 DEF I128
<1> QED
  BY <1>13, <1>14, <1>17 DEF Kept

LEMMA ClosingKeeps ==
  ASSUME NEW pos \in Position, NEW dir \in {1, -1}, NEW price \in Nat, NEW qty \in Nat \ {0},
         FillFits(pos, dir, price, qty),
         NEW lo \in Nat, NEW hi \in Nat, lo <= price, price <= hi,
         pos.quantity # 0, Signum(pos.quantity) # dir, Magnitude(pos.quantity) <= qty
  PROVE  Kept(pos, dir, price, qty, lo, hi)
<1> DEFINE new == Filled(pos, dir, price, qty)
           size == Magnitude(pos.quantity)
           left == qty - size
<1>1. pos.quantity \in Int /\ pos.cost_basis \in Int /\ pos.realized_pnl \in Int
  BY DEF Position, I64, I128
<1>2. size \in Nat \ {0} /\ Signum(pos.quantity) = -dir /\ left \in Nat /\ qty = size + left
  BY <1>1 DEF Magnitude, Signum
<1>3. /\ ClosingQty(pos, dir, qty) = size
      /\ new = [quantity     |-> dir * left,
                cost_basis   |-> dir * left * price,
                realized_pnl |-> pos.realized_pnl
                                   + (ClosingValue(pos, size, price) - pos.cost_basis)]
  BY FilledCloses
<1>4. new \in Position
  <2>1. new.quantity \in I64
    BY DEF FillFits
  <2>2. left > 0 => dir * left * price \in I128
    BY <1>3 DEF FillFits, OpenChecks
  <2>3. left = 0 => dir * left * price = 0
    OBVIOUS
  <2>4. 0 \in I128
    BY WidthAssumption DEF I128
  <2>5. new.cost_basis \in I128
    BY <2>2, <2>3, <2>4, <1>2, <1>3
  <2>6. AfterClose(pos, -Signum(pos.quantity), price, size).realized_pnl \in I128
    BY <1>2, <1>3 DEF FillFits, CloseChecks
  <2>7. RemovedCost(pos, size) = pos.cost_basis
    BY DEF RemovedCost
  <2>8. new.realized_pnl \in I128
    BY <2>6, <2>7, <1>2, <1>3 DEF AfterClose
  <2> QED BY <2>1, <2>5, <2>8, <1>3 DEF Position
<1>5. Magnitude(new.quantity) = left
  <2>1. new.quantity = dir * left
    BY <1>3
  <2> HIDE DEF new, left
  <2> QED BY <2>1, <1>2 DEF Magnitude
<1>6. Signum(new.quantity) * new.cost_basis = left * price
  <2>1. new.quantity = dir * left /\ new.cost_basis = dir * (left * price) /\ left * price \in Nat
    BY <1>2, <1>3
  <2>2. left = 0 => left * price = 0
    OBVIOUS
  <2> HIDE DEF new, left
  <2> DEFINE value == left * price
  <2>3. CASE left = 0
    BY <2>1, <2>2, <2>3 DEF Signum
  <2>4. CASE left > 0
    <3>1. Signum(new.quantity) = dir
      BY <2>1, <2>4, <1>2 DEF Signum
    <3>2. dir * (dir * value) = value
      <4>1. value \in Nat
        BY <2>1
      <4> HIDE DEF value
      <4> QED BY <4>1
    <3> QED BY <3>1, <3>2, <2>1
  <2> QED BY <2>3, <2>4, <1>2
<1>7. lo * left <= left * price /\ left * price <= hi * left /\ (left = 0 => new.cost_basis = 0)
  BY <1>2, <1>3, MulMonotone
<1>8. Within(new, lo, hi)
  <2> HIDE DEF new, left
  <2> QED BY <1>5, <1>6, <1>7 DEF Within
<1>9. ClosingValue(pos, size, price) = -(dir * (size * price))
  BY <1>2 DEF ClosingValue
<1>10. dir * price * qty = dir * (size * price) + dir * left * price
  BY <1>2
<1>11. dir * (size * price) \in Int /\ dir * left * price \in Int
  BY <1>2
<1>12. new.realized_pnl - new.cost_basis
         = pos.realized_pnl - pos.cost_basis - dir * price * qty
  BY <1>1, <1>3, <1>9, <1>10, <1>11
<1> QED
  BY <1>4, <1>8, <1>12 DEF Kept

\* The three cases are all there are.
LEMMA FillKeeps ==
  ASSUME NEW pos \in Position, NEW dir \in {1, -1}, NEW price \in Nat, NEW qty \in Nat \ {0},
         FillFits(pos, dir, price, qty),
         NEW lo \in Nat, NEW hi \in Nat, lo <= price, price <= hi, Within(pos, lo, hi)
  PROVE  Kept(pos, dir, price, qty, lo, hi)
<1>1. Magnitude(pos.quantity) \in Int
  BY DEF Magnitude, Position, I64
<1> QED
  BY <1>1, OpeningKeeps, ReducingKeeps, ClosingKeeps

\* Whatever the cost does, the quantity moves by the fill.
LEMMA FilledQuantity ==
  ASSUME NEW pos \in Position, NEW dir \in {1, -1}, NEW price \in Int, NEW qty \in Nat
  PROVE  Filled(pos, dir, price, qty).quantity = pos.quantity + dir * qty
<1> DEFINE closing == ClosingQty(pos, dir, qty)
<1>1. pos.quantity \in Int /\ closing \in Int
  BY DEF Position, I64, ClosingQty, Smaller, Magnitude
<1>2. AfterClose(pos, dir, price, closing).quantity = pos.quantity + dir * closing
  <2> HIDE DEF closing
  <2>1. CASE closing = 0
    BY <1>1, <2>1 DEF AfterClose
  <2>2. CASE closing # 0
    BY <2>2 DEF AfterClose
  <2> QED BY <2>1, <2>2
<1>3. Filled(pos, dir, price, qty).quantity
        = pos.quantity + dir * closing + dir * (qty - closing)
  BY <1>2 DEF Filled, AfterOpen
<1> HIDE DEF closing
<1> QED
  BY <1>1, <1>3

-----------------------------------------------------------------------------
(* Every sequence of fills.  LedgerInv is the inductive form of the        *)
(* identities of PositionLedger: the average must be known to be within    *)
(* bounds for the cost to keep the sign of the quantity, and the sign for  *)
(* the types to be kept.                                                   *)

\* lo and hi bound every price.
Bounds(lo, hi) == \A price \in Prices : lo <= price /\ price <= hi

LedgerInv ==
  /\ TypeOK
  /\ NetCashIdentity
  /\ \A lo, hi \in Nat : Bounds(lo, hi) => CostWithin(lo, hi)

LEMMA InitLedger == LedgerInit => LedgerInv
<1> SUFFICES ASSUME LedgerInit PROVE LedgerInv
  OBVIOUS
<1>1. position = Flat /\ netCash = 0
  BY DEF LedgerInit
<1>2. TypeOK
  BY <1>1, WidthAssumption DEF TypeOK, Flat, Position, I64, I128
<1>3. NetCashIdentity
  BY <1>1 DEF NetCashIdentity, Flat
<1>4. \A lo, hi \in Nat : CostWithin(lo, hi)
  BY <1>1 DEF CostWithin, Flat, Magnitude, Signum
<1> QED
  BY <1>2, <1>3, <1>4 DEF LedgerInv

LEMMA NextLedger ==
  ASSUME LedgerAssumption
  PROVE  LedgerInv /\ [LedgerNext]_ledgerVars => LedgerInv'
<1> SUFFICES ASSUME LedgerInv, [LedgerNext]_ledgerVars PROVE LedgerInv'
  OBVIOUS
<1>1. CASE UNCHANGED ledgerVars
  BY <1>1 DEF LedgerInv, TypeOK, NetCashIdentity, CostWithin, ledgerVars
<1>2. ASSUME NEW side \in Sides, NEW price \in Prices, NEW qty \in U64 \ {0},
             Fill(side, price, qty)
      PROVE  LedgerInv'
  <2> DEFINE dir == Direction(side)
  <2>1. dir \in {1, -1} /\ price \in Nat /\ qty \in Nat \ {0}
    BY WidthAssumption DEF LedgerAssumption, Direction, U64
  <2>2. CASE ~FillFits(position, dir, price, qty)
    <3>1. position' = position /\ netCash' = netCash
      BY <1>2, <2>2 DEF Fill, ApplyFill
    <3> QED BY <3>1 DEF LedgerInv, TypeOK, NetCashIdentity, CostWithin
  <2>3. CASE FillFits(position, dir, price, qty)
    <3> DEFINE new == Filled(position, dir, price, qty)
    <3>1. position' = new /\ netCash' = netCash - dir * price * qty
      BY <1>2, <2>3 DEF Fill, ApplyFill
    <3>2. position \in Position /\ netCash \in Int
      BY DEF LedgerInv, TypeOK
    <3>3. ASSUME NEW lo \in Nat, NEW hi \in Nat, Bounds(lo, hi)
          PROVE  Kept(position, dir, price, qty, lo, hi)
      <4>1. lo <= price /\ price <= hi
        BY <3>3 DEF Bounds
      <4>2. Within(position, lo, hi)
        BY <3>3 DEF LedgerInv, CostWithin, Within
      <4> HIDE DEF dir
      <4> QED BY <4>1, <4>2, <2>1, <2>3, <3>2, FillKeeps
    <3>4. Bounds(1, HalfWord)
      BY WidthAssumption DEF LedgerAssumption, Bounds
    <3>5. Kept(position, dir, price, qty, 1, HalfWord)
      BY <3>3, <3>4, WidthAssumption
    <3>6. TypeOK'
      <4>1. dir * price * qty \in Int
        BY <2>1
      <4> QED BY <3>1, <3>2, <3>5, <4>1 DEF TypeOK, Kept
    <3>7. NetCashIdentity'
      <4>1. position.realized_pnl - position.cost_basis = netCash
        BY DEF LedgerInv, NetCashIdentity
      <4> QED BY <4>1, <3>1, <3>5 DEF NetCashIdentity, Kept
    <3>8. ASSUME NEW lo \in Nat, NEW hi \in Nat, Bounds(lo, hi)
          PROVE  CostWithin(lo, hi)'
      <4>1. Within(new, lo, hi)
        BY <3>3, <3>8 DEF Kept
      <4> QED BY <4>1, <3>1 DEF CostWithin, Within
    <3> QED BY <3>6, <3>7, <3>8 DEF LedgerInv, Bounds
  <2> QED BY <2>2, <2>3
<1> QED
  BY <1>1, <1>2 DEF LedgerNext

\* accounting.rs: the inductive invariant holds after every sequence of fills, the refused
\* ones included.
THEOREM LedgerInvariant ==
  ASSUME LedgerAssumption
  PROVE  LedgerSpec => []LedgerInv
BY InitLedger, NextLedger, PTL DEF LedgerSpec

\* The fields of a position never leave their machine types, the cost basis
\* included, whose subtraction at accounting.rs:78 is not checked.
THEOREM PositionFits ==
  ASSUME LedgerAssumption
  PROVE  LedgerSpec => []TypeOK
<1>1. LedgerInv => TypeOK
  BY DEF LedgerInv
<1> QED BY <1>1, LedgerInvariant, PTL

\* accounting.rs:17-20, for every sequence of fills of any size.
THEOREM NetCashIsExact ==
  ASSUME LedgerAssumption
  PROVE  LedgerSpec => []NetCashIdentity
<1>1. LedgerInv => NetCashIdentity
  BY DEF LedgerInv
<1> QED BY <1>1, LedgerInvariant, PTL

\* The average price of an open position is between any bounds of the prices that
\* fills can have, however often it was reduced and its cost rounded.
THEOREM AverageIsWithinPrices ==
  ASSUME LedgerAssumption
  PROVE  LedgerSpec => []AverageWithinPrices
<1>1. LedgerInv => AverageWithinPrices
  BY WidthAssumption DEF LedgerAssumption, LedgerInv, AverageWithinPrices, Bounds
<1> QED BY <1>1, LedgerInvariant, PTL

\* accounting.rs:64-67: dividing first and multiplying the parts gives the same
\* cost as multiplying first would, for long and for short positions.
THEOREM SplitIsExact ==
  ASSUME LedgerAssumption
  PROVE  LedgerSpec => []SplitIsTruncation
<1>1. ASSUME TypeOK, NEW closing \in 1 .. Magnitude(position.quantity) - 1
      PROVE  RemovedCost(position, closing)
               = TruncDiv(position.cost_basis * closing, Magnitude(position.quantity))
  <2> DEFINE c == position.cost_basis
             open == Magnitude(position.quantity)
  <2>1. c \in Int /\ open \in Nat
    BY <1>1 DEF TypeOK, Position, I64, I128, Magnitude
  <2> HIDE DEF open, c
  <2>2. open \in Nat \ {0} /\ closing \in Nat \ {0} /\ closing < open
    BY <2>1 DEF open
  <2>3. RemovedCost(position, closing) = SplitShare(c, closing, open)
    BY <2>2 DEF RemovedCost, ClosedShare, open, c
  <2>4. CASE c >= 0
    <3>1. c * closing >= 0
      BY <2>1, <2>2, <2>4
    <3>2. SplitShare(c, closing, open) = (c * closing) \div open
      BY <2>1, <2>2, <2>4, SplitShareOfLong
    <3> QED BY <3>1, <3>2, <2>3 DEF TruncDiv, open, c
  <2>5. CASE c < 0
    <3> DEFINE cost == -c
    <3>1. cost \in Nat /\ c = -cost /\ cost > 0
      BY <2>1, <2>5
    <3> HIDE DEF cost
    <3>2. SplitShare(c, closing, open) = -((cost * closing) \div open)
      <4>1. SplitShare(-cost, closing, open) = -SplitShare(cost, closing, open)
        BY <3>1, <2>2, ShareOfShort
      <4>2. SplitShare(cost, closing, open) = (cost * closing) \div open
        BY <3>1, <2>2, SplitShareOfLong
      <4> QED BY <4>1, <4>2, <3>1
    <3>3. c * closing < 0 /\ -(c * closing) = cost * closing
      <4>1. cost * closing > 0 /\ (-cost) * closing = -(cost * closing)
        BY <3>1, <2>2
      <4> QED BY <4>1, <3>1
    <3>4. TruncDiv(c * closing, open) = -((cost * closing) \div open)
      BY <3>3, <3>1, <2>2 DEF TruncDiv
    <3> QED BY <3>2, <3>4, <2>3 DEF open, c
  <2> QED BY <2>1, <2>4, <2>5
<1>2. TypeOK => SplitIsTruncation
  BY <1>1 DEF SplitIsTruncation
<1> QED BY <1>2, PositionFits, PTL

-----------------------------------------------------------------------------
(* apply_fill refuses a fill only when its exact result does not fit.       *)

LEMMA ProductBound ==
  ASSUME NEW a \in Nat, NEW b \in Nat, NEW m \in Nat, NEW n \in Nat, a <= m, b <= n
  PROVE  a * b \in Nat /\ a * b <= m * n
<1>1. a * b <= m * b
  BY MulMonotone
<1>2. m * b <= m * n
  <2>1. b * m <= n * m
    BY MulMonotone
  <2> QED BY <2>1
<1> QED BY <1>1, <1>2

\* A quantity times a price of a fill fits an i128, with room for the cost
\* of a whole position on either side.
LEMMA ValueFits ==
  ASSUME LedgerAssumption,
         NEW dir \in {1, -1}, NEW qty \in U64, NEW price \in Prices
  PROVE  dir * qty * price \in I128
<1> DEFINE H == HalfWord
           square == H * H
<1>1. H \in Nat \ {0} /\ price \in Nat /\ price <= H - 1 /\ HalfValue = 2 * square
  BY WidthAssumption DEF LedgerAssumption
<1>2. qty \in Nat /\ qty <= 2 * H
  BY <1>1 DEF U64
<1>3. qty * price \in Nat /\ qty * price <= (2 * H) * (H - 1)
  BY <1>1, <1>2, ProductBound
<1>4. (2 * H) * (H - 1) = 2 * square - 2 * H /\ square \in Nat
  BY <1>1
<1>5. dir * qty * price = qty * price \/ dir * qty * price = -(qty * price)
  BY <1>1, <1>2
<1> HIDE DEF H, square
<1> QED BY <1>1, <1>3, <1>4, <1>5 DEF I128

\* The open cost of a position is smaller than half the range of an i128.
LEMMA CostFits ==
  ASSUME NEW pos \in Position, Within(pos, 1, HalfWord - 1)
  PROVE  LET size == Magnitude(pos.quantity)
             cost == Signum(pos.quantity) * pos.cost_basis
         IN  /\ size \in Nat /\ size <= HalfWord
             /\ cost \in Nat /\ cost <= HalfWord * HalfWord
<1> DEFINE H == HalfWord
           size == Magnitude(pos.quantity)
           cost == Signum(pos.quantity) * pos.cost_basis
<1>1. H \in Nat \ {0} /\ pos.quantity \in -H .. H - 1 /\ pos.cost_basis \in Int
  BY WidthAssumption DEF Position, I64, I128
<1>2. size \in Nat /\ size <= H
  BY <1>1 DEF Magnitude
<1>3. cost \in Int
  BY <1>1 DEF Signum
<1>4. 1 * size <= cost /\ cost <= (H - 1) * size
  BY DEF Within
<1> HIDE DEF H, size, cost
<1>5. (H - 1) * size <= H * H
  BY <1>1, <1>2, ProductBound
<1>6. H * H \in Int /\ (H - 1) * size \in Int
  BY <1>1, <1>2
<1>7. cost \in Nat /\ cost <= H * H
  BY <1>2, <1>3, <1>4, <1>5, <1>6
<1> QED BY <1>2, <1>7 DEF H, size, cost

\* The intermediate products of the split stay in an i128 too.
LEMMA SplitFits ==
  ASSUME LedgerAssumption,
         NEW cost \in Nat, NEW open \in Nat, NEW closing \in Nat \ {0}, closing < open,
         open <= HalfWord, cost <= HalfWord * HalfWord, NEW sign \in {1, -1}
  PROVE  /\ SplitShareChecks(sign * cost, closing, open)
         /\ SplitShare(cost, closing, open) \in Nat
         /\ SplitShare(cost, closing, open) <= cost
         /\ SplitShare(sign * cost, closing, open) = sign * SplitShare(cost, closing, open)
<1> DEFINE H == HalfWord
           square == H * H
           a == cost \div open
           b == cost - a * open
<1>1. H \in Nat \ {0} /\ HalfValue = 2 * square /\ square \in Nat /\ square > 0
  BY WidthAssumption DEF LedgerAssumption
<1>2. open \in Nat \ {0}
  OBVIOUS
<1>3. a \in Nat /\ b \in Nat /\ b < open /\ cost = a * open + b /\ a * open \in Nat
  <2>1. a \in Nat /\ a * open <= cost /\ cost < a * open + open
    BY <1>2, Division
  <2>2. a * open \in Nat
    BY <2>1
  <2> HIDE DEF a
  <2> QED BY <1>2, <2>1, <2>2
<1> HIDE DEF a, b, H, square
<1>4. a * closing \in Nat /\ a * closing <= a * open
  BY <1>2, <1>3, ProductBound
<1>5. b * closing \in Nat /\ b * closing <= square
  <2>1. b <= H /\ closing <= H
    BY <1>1, <1>2, <1>3 DEF H
  <2> QED BY <1>1, <1>3, <2>1, ProductBound DEF square
<1>6. SplitShare(cost, closing, open) \in Nat /\ SplitShare(cost, closing, open) <= cost
  <2>1. 0 * open <= cost /\ cost <= cost * open
    <3>1. cost * 1 <= cost * open
      BY <1>2, ProductBound
    <3> QED BY <3>1
  <2>2. /\ SplitShare(cost, closing, open) \in Nat
        /\ 0 * (open - closing) <= cost - SplitShare(cost, closing, open)
    BY <2>1, ShareKeepsBounds
  <2> QED BY <2>2
<1>7. SplitShare(sign * cost, closing, open) = sign * SplitShare(cost, closing, open)
  <2>1. SplitShare(-cost, closing, open) = -SplitShare(cost, closing, open)
    BY <1>2, ShareOfShort
  <2>2. sign * cost = IF sign = 1 THEN cost ELSE -cost
    OBVIOUS
  <2> QED BY <2>1, <2>2, <1>6
<1>8. TruncDiv(sign * cost, open) = sign * a
  <2>1. CASE sign = 1
    <3>1. sign * cost = cost /\ cost >= 0 /\ sign * a = a
      BY <1>3, <2>1
    <3> QED BY <3>1 DEF TruncDiv, a
  <2>2. CASE sign = -1 /\ cost > 0
    <3>1. sign * cost < 0 /\ -(sign * cost) = cost /\ sign * a = -a
      BY <1>3, <2>2
    <3> QED BY <3>1 DEF TruncDiv, a
  <2>3. CASE sign = -1 /\ cost = 0
    <3>1. a = 0
      BY <1>2, <2>3 DEF a
    <3>2. sign * cost = 0 /\ sign * a = 0
      BY <2>3, <3>1
    <3> QED BY <2>3, <3>1, <3>2 DEF TruncDiv, a
  <2> QED BY <2>1, <2>2, <2>3
<1>9. WholePart(sign * cost, closing, open) = sign * (a * closing)
  BY <1>2, <1>3, <1>8 DEF WholePart
<1>10. RemainderProduct(sign * cost, closing, open) = sign * (b * closing)
  <2>1. sign * cost - (sign * a) * open = sign * b
    BY <1>2, <1>3
  <2>2. (sign * b) * closing = sign * (b * closing)
    BY <1>3
  <2> QED BY <1>8, <2>1, <2>2 DEF RemainderProduct
<1>11. \A n \in Nat : n <= square => sign * n \in I128
  BY <1>1 DEF I128
<1>12. cost <= square
  BY DEF square, H
<1>13. a * closing <= square
  BY <1>1, <1>3, <1>4, <1>12
<1>14. SplitShare(cost, closing, open) <= square
  BY <1>1, <1>6, <1>12
<1> QED
  BY <1>4, <1>5, <1>6, <1>7, <1>9, <1>10, <1>11, <1>13, <1>14 DEF SplitShareChecks

\* Every check passes when the exact result is a position of the machine types.
LEMMA ResultFitsChecksPass ==
  ASSUME LedgerAssumption,
         NEW pos \in Position, Within(pos, 1, HalfWord - 1),
         NEW dir \in {1, -1}, NEW price \in Prices, NEW qty \in U64 \ {0},
         Filled(pos, dir, price, qty) \in Position
  PROVE  FillFits(pos, dir, price, qty)
<1> DEFINE H == HalfWord
           square == H * H
           new == Filled(pos, dir, price, qty)
           size == Magnitude(pos.quantity)
           cost == Signum(pos.quantity) * pos.cost_basis
<1>1. /\ H \in Nat \ {0} /\ square \in Nat /\ HalfValue = 2 * square
      /\ price \in Nat /\ price <= H /\ qty \in Nat \ {0}
  BY WidthAssumption DEF LedgerAssumption, U64
<1>2. pos.quantity \in Int /\ pos.cost_basis \in Int /\ pos.realized_pnl \in Int
  BY DEF Position, I64, I128
<1>3. size \in Nat /\ size <= H /\ cost \in Nat /\ cost <= square
  BY CostFits
<1>4. new.quantity \in I64 /\ new.cost_basis \in I128 /\ new.realized_pnl \in I128
  BY DEF Position
<1>5. ASSUME NEW n \in Nat, n <= size, NEW c \in Nat, c <= square, NEW sign \in {1, -1}
      PROVE  sign * n * price \in I128 /\ sign * n * price - sign * c \in I128
  <2>1. n * price \in Nat /\ n * price <= square
    <3>1. n <= H
      BY <1>1, <1>3, <1>5
    <3> QED BY <1>1, <3>1, ProductBound
  <2>2. \/ sign * n * price = n * price /\ sign * n * price - sign * c = n * price - c
        \/ sign * n * price = -(n * price) /\ sign * n * price - sign * c = c - n * price
    BY <1>1
  <2>3. square > 0
    BY <1>1
  <2> HIDE DEF square, H
  <2> QED BY <1>1, <1>5, <2>1, <2>2, <2>3 DEF I128
<1>6. CASE pos.quantity = 0 \/ Signum(pos.quantity) = dir
  <2>1. ClosingQty(pos, dir, qty) = 0 /\ qty - 0 = qty
    BY <1>1, <1>6 DEF ClosingQty
  <2>2. new.cost_basis = pos.cost_basis + dir * qty * price
    BY <1>1, <1>6, FilledOpens
  <2>3. CloseChecks(pos, price, 0)
    BY DEF CloseChecks
  <2>4. OpenChecks(AfterClose(pos, dir, price, 0), dir, price, qty)
    <3>1. dir * qty * price \in I128
      BY ValueFits
    <3>2. AfterClose(pos, dir, price, 0) = pos
      BY DEF AfterClose
    <3>3. AfterOpen(pos, dir, price, qty).cost_basis = new.cost_basis
      BY <2>2 DEF AfterOpen
    <3> QED BY <1>4, <3>1, <3>2, <3>3 DEF OpenChecks
  <2> QED BY <1>4, <2>1, <2>3, <2>4 DEF FillFits
<1>7. CASE pos.quantity # 0 /\ Signum(pos.quantity) # dir
  <2>1. Signum(pos.quantity) = -dir /\ -dir \in {1, -1} /\ size # 0
    BY <1>2, <1>7 DEF Signum, Magnitude
  <2>2. pos.cost_basis = (-dir) * cost
    BY <1>2, <2>1
  <2>3. CASE qty < size
    <3> DEFINE share == SplitShare(cost, qty, size)
    <3>1. /\ SplitShareChecks((-dir) * cost, qty, size)
          /\ share \in Nat /\ share <= cost
          /\ SplitShare((-dir) * cost, qty, size) = (-dir) * share
      <4> HIDE DEF size, cost
      <4> QED BY <1>1, <1>3, <2>1, <2>3, SplitFits
    <3>2. RemovedCost(pos, qty) = (-dir) * share
      BY <2>2, <2>3, <3>1, <1>3 DEF RemovedCost, ClosedShare
    <3> HIDE DEF share, cost
    <3>3. ClosingQty(pos, dir, qty) = qty
      BY <1>1, <1>3, <1>7, <2>3 DEF ClosingQty, Smaller
    <3>4. share <= square
      BY <1>1, <1>3, <3>1
    <3>5. ClosingValue(pos, qty, price) = (-dir) * qty * price
      BY <2>1 DEF ClosingValue
    <3>6. /\ ClosingValue(pos, qty, price) \in I128
          /\ ClosingValue(pos, qty, price) - RemovedCost(pos, qty) \in I128
      <4>1. qty \in Nat /\ qty <= size
        BY <1>1, <1>3, <2>3
      <4> HIDE DEF square, size
      <4>2. \A sign \in {1, -1} : /\ sign * qty * price \in I128
                                  /\ sign * qty * price - sign * share \in I128
        BY <1>5, <3>1, <3>4, <4>1
      <4> DEFINE sign == -dir
      <4>3. sign \in {1, -1}
        BY <2>1
      <4>4. ClosingValue(pos, qty, price) = sign * qty * price /\ RemovedCost(pos, qty) = sign * share
        BY <3>2, <3>5
      <4> HIDE DEF sign
      <4> QED BY <4>2, <4>3, <4>4
    <3>7. ShareChecks(pos.cost_basis, qty, size)
      BY <2>2, <3>1 DEF ShareChecks
    <3>8. RemovedCost(pos, qty) \in Int
      BY <3>1, <3>2, <2>1
    <3>9. AfterClose(pos, -Signum(pos.quantity), price, qty).realized_pnl = new.realized_pnl
      BY <1>1, <1>7, <2>3, <3>8, FilledReduces DEF AfterClose
    <3>10. CloseChecks(pos, price, qty)
      BY <1>4, <3>6, <3>7, <3>9 DEF CloseChecks
    <3>11. OpenChecks(AfterClose(pos, dir, price, qty), dir, price, qty - qty)
      BY <1>1 DEF OpenChecks
    <3> QED BY <1>4, <3>3, <3>10, <3>11 DEF FillFits
  <2>4. CASE size <= qty
    <3> HIDE DEF cost
    <3>1. /\ ClosingQty(pos, dir, qty) = size
          /\ new = [quantity     |-> dir * (qty - size),
                    cost_basis   |-> dir * (qty - size) * price,
                    realized_pnl |-> pos.realized_pnl
                                       + (ClosingValue(pos, size, price) - pos.cost_basis)]
      BY <1>1, <1>7, <2>4, FilledCloses
    <3>2. RemovedCost(pos, size) = pos.cost_basis
      BY DEF RemovedCost
    <3>3. ClosingValue(pos, size, price) = (-dir) * size * price
      BY <2>1 DEF ClosingValue
    <3>4. /\ ClosingValue(pos, size, price) \in I128
          /\ ClosingValue(pos, size, price) - RemovedCost(pos, size) \in I128
      BY <1>3, <1>5, <2>1, <2>2, <3>2, <3>3
    <3>5. AfterClose(pos, -Signum(pos.quantity), price, size).realized_pnl = new.realized_pnl
      BY <2>1, <3>1, <3>2 DEF AfterClose
    <3>6. CloseChecks(pos, price, size)
      BY <1>4, <3>4, <3>5 DEF CloseChecks
    <3>7. AfterClose(pos, dir, price, size).cost_basis = 0
      BY <1>2, <2>1, <3>2 DEF AfterClose
    <3>8. AfterOpen(AfterClose(pos, dir, price, size), dir, price, qty - size).cost_basis
            = new.cost_basis
      <4>1. dir * (qty - size) * price \in Int
        BY <1>1, <1>3
      <4> QED BY <3>1, <3>7, <4>1 DEF AfterOpen
    <3>9. OpenChecks(AfterClose(pos, dir, price, size), dir, price, qty - size)
      BY <1>4, <3>1, <3>8 DEF OpenChecks
    <3> HIDE DEF size
    <3> QED BY <1>4, <3>1, <3>6, <3>9 DEF FillFits
  <2> QED BY <1>1, <1>3, <2>3, <2>4
<1> QED BY <1>6, <1>7

\* accounting.rs:64-67: on every position a sequence of fills can lead to, a fill
\* is refused exactly when its result in unbounded integers leaves the machine
\* types; no intermediate product refuses a fill whose result fits.
THEOREM RefusalIsReal ==
  ASSUME LedgerAssumption
  PROVE  LedgerSpec => []OverflowIsReal
<1>1. LedgerInv => OverflowIsReal
  <2> SUFFICES ASSUME LedgerInv, NEW side \in Sides, NEW price \in Prices, NEW qty \in U64
               PROVE  FillFits(position, Direction(side), price, qty)
                        <=> Filled(position, Direction(side), price, qty) \in Position
    BY DEF OverflowIsReal
  <2> DEFINE dir == Direction(side)
  <2>1. dir \in {1, -1} /\ price \in Nat /\ 1 <= price /\ price <= HalfWord - 1
    BY WidthAssumption DEF LedgerAssumption, Direction
  <2>2. position \in Position
    BY DEF LedgerInv, TypeOK
  <2>3. Within(position, 1, HalfWord - 1)
    <3>1. Bounds(1, HalfWord - 1) /\ 1 \in Nat /\ HalfWord - 1 \in Nat
      BY WidthAssumption DEF LedgerAssumption, Bounds
    <3> QED BY <3>1 DEF LedgerInv, CostWithin, Within
  <2> HIDE DEF dir
  <2>4. CASE qty = 0
    <3>1. position.quantity \in I64 /\ Magnitude(position.quantity) \in Nat
      BY <2>2 DEF Position, I64, Magnitude
    <3>2. ClosingQty(position, dir, qty) = 0 /\ qty - 0 = 0
      BY <2>4, <3>1 DEF ClosingQty, Smaller
    <3>3. AfterClose(position, dir, price, 0) = position
      BY DEF AfterClose
    <3>4. Filled(position, dir, price, qty) = AfterOpen(position, dir, price, 0)
      BY <3>2, <3>3 DEF Filled
    <3>5. /\ position.quantity + dir * 0 = position.quantity
          /\ position.cost_basis + dir * 0 * price = position.cost_basis
      BY <2>1, <2>2 DEF Position, I64, I128
    <3>6. AfterOpen(position, dir, price, 0) \in Position
      BY <2>2, <3>5 DEF AfterOpen, Position
    <3>7. CloseChecks(position, price, 0) /\ OpenChecks(position, dir, price, 0)
      BY DEF CloseChecks, OpenChecks
    <3>8. AfterOpen(position, dir, price, 0).quantity \in I64
      BY <3>6 DEF Position
    <3>9. FillFits(position, dir, price, qty)
      BY <3>2, <3>3, <3>4, <3>7, <3>8 DEF FillFits
    <3> QED BY <3>4, <3>6, <3>9 DEF dir
  <2>5. CASE qty # 0
    <3>1. qty \in U64 \ {0} /\ qty \in Nat \ {0}
      BY <2>5 DEF U64
    <3>2. FillFits(position, dir, price, qty) => Filled(position, dir, price, qty) \in Position
      <4> SUFFICES ASSUME FillFits(position, dir, price, qty)
                   PROVE  Filled(position, dir, price, qty) \in Position
        OBVIOUS
      <4>1. HalfWord - 1 \in Nat
        BY WidthAssumption
      <4>2. Kept(position, dir, price, qty, 1, HalfWord - 1)
        BY <2>1, <2>2, <2>3, <3>1, <4>1, FillKeeps
      <4> QED BY <4>2 DEF Kept
    <3>3. Filled(position, dir, price, qty) \in Position => FillFits(position, dir, price, qty)
      BY <2>1, <2>2, <2>3, <3>1, ResultFitsChecksPass
    <3> QED BY <3>2, <3>3 DEF dir
  <2> QED BY <2>4, <2>5
<1> QED BY <1>1, LedgerInvariant, PTL

-----------------------------------------------------------------------------
(* The limits.  PositionWithinLimit is not inductive: a fill changes the   *)
(* position, and nothing in it bounds the fill.  Headroom bounds instead   *)
(* what the position could become if all the working orders of one side    *)
(* filled; fills and withdrawals only use it up, and the checks restore    *)
(* it.  GrossWithinLimit is inductive with the types: it is a sum over the *)
(* symbols in which a fill moves quantity from working to held, or takes   *)
(* it away where the fill reduces the position, a withdrawal lowers every  *)
(* term, and an admission adds to one term what the check has allowed.     *)

Headroom ==
  \A s \in Symbols :
    /\ holding[s] + workingBuy[s]  <= MaxPosition
    /\ holding[s] - workingSell[s] >= -MaxPosition

BudgetInv == BudgetTypes /\ Headroom

LEMMA InitBudget ==
  ASSUME BudgetAssumption
  PROVE  BudgetInit => BudgetInv
BY BudgetAssumption DEF BudgetAssumption, BudgetInit, BudgetInv, BudgetTypes, Headroom

\* Admission, fills and withdrawals of any symbol keep the headroom of all.
LEMMA NextBudget ==
  ASSUME BudgetAssumption
  PROVE  BudgetInv /\ [BudgetNext]_budgetVars => BudgetInv'
<1> SUFFICES ASSUME BudgetInv, [BudgetNext]_budgetVars
             PROVE  BudgetInv'
  OBVIOUS
<1> USE DEF BudgetAssumption, BudgetInv, BudgetTypes, Headroom
<1>1. ASSUME NEW s \in Symbols, NEW qty \in 1 .. 2 * MaxPosition, AdmitBuy(s, qty)
      PROVE  BudgetInv'
  BY <1>1 DEF AdmitBuy, PositionAllows, LongCase, Size
<1>2. ASSUME NEW s \in Symbols, NEW qty \in 1 .. 2 * MaxPosition, AdmitSell(s, qty)
      PROVE  BudgetInv'
  BY <1>2 DEF AdmitSell, PositionAllows, ShortCase, Size
<1>3. ASSUME NEW s \in Symbols, NEW qty \in 1 .. 2 * MaxPosition, Buy(s, qty)
      PROVE  BudgetInv'
  BY <1>3 DEF Buy, Fits
<1>4. ASSUME NEW s \in Symbols, NEW qty \in 1 .. 2 * MaxPosition, Sell(s, qty)
      PROVE  BudgetInv'
  BY <1>4 DEF Sell, Fits
<1>5. CASE Withdraw
  BY <1>5 DEF Withdraw
<1>6. CASE UNCHANGED budgetVars
  BY <1>6 DEF budgetVars
<1> QED
  BY <1>1, <1>2, <1>3, <1>4, <1>5, <1>6 DEF BudgetNext

\* The invariant of the budget, for every set of symbols and every limit.
THEOREM BudgetInvariant ==
  ASSUME BudgetAssumption
  PROVE  BudgetSpec => []BudgetInv
BY InitBudget, NextBudget, PTL DEF BudgetSpec

\* risk.rs:15-18: no sequence of admissions, fills in any order, cancels and
\* expiries takes the position of a symbol beyond the limit.
THEOREM PositionLimitHolds ==
  ASSUME BudgetAssumption
  PROVE  BudgetSpec => []PositionWithinLimit
<1>1. BudgetInv => PositionWithinLimit
  BY DEF BudgetAssumption, BudgetInv, BudgetTypes, Headroom, PositionWithinLimit, Size
<1> QED
  BY <1>1, BudgetInvariant, PTL

-----------------------------------------------------------------------------
(* The gross limit *)

\* The exposure of each symbol; Gross is its sum.
Exposure == [s \in Symbols |-> (Size(holding[s]) + workingBuy[s] + workingSell[s]) * Mark[s]]

LEMMA TimesMark ==
  ASSUME NEW m \in Nat, NEW a \in Int, NEW b \in Int, a <= b
  PROVE  a * m <= b * m
OBVIOUS

IsGross == /\ Gross = SumFunctionOnSet(Exposure, Symbols)
           /\ \A s \in Symbols : Exposure[s] \in Int
           /\ Gross \in Int

LEMMA GrossIsSum ==
  ASSUME BudgetAssumption
  PROVE  BudgetTypes => IsGross
<1> SUFFICES ASSUME BudgetTypes PROVE IsGross
  OBVIOUS
<1>1. Gross = SumFunctionOnSet(Exposure, Symbols)
  BY DEF Gross, Exposure, SumFunction
<1>2. ASSUME NEW s \in Symbols PROVE Exposure[s] \in Int
  BY DEF BudgetAssumption, BudgetTypes, Exposure, Size
<1>3. Gross \in Int
  BY <1>1, <1>2, SumType DEF BudgetAssumption
<1> QED BY <1>1, <1>2, <1>3 DEF IsGross

\* The same of the state after a step.
LEMMA GrossIsSumAfter ==
  ASSUME BudgetAssumption
  PROVE  BudgetTypes' => IsGross'
BY GrossIsSum, PTL

\* A step that raises no symbol's exposure does not raise gross exposure.
LEMMA NoRise ==
  ASSUME BudgetAssumption, BudgetTypes, BudgetTypes',
         \A s \in Symbols : Size(holding'[s]) + workingBuy'[s] + workingSell'[s]
                              <= Size(holding[s]) + workingBuy[s] + workingSell[s]
  PROVE  Gross' <= Gross
<1>1. ASSUME NEW s \in Symbols PROVE Exposure'[s] <= Exposure[s]
  <2> DEFINE a == Size(holding'[s]) + workingBuy'[s] + workingSell'[s]
             b == Size(holding[s]) + workingBuy[s] + workingSell[s]
  <2>1. a \in Int /\ b \in Int /\ a <= b
    BY DEF BudgetTypes, Size
  <2>2. Mark[s] \in Nat
    BY DEF BudgetAssumption
  <2>3. Exposure[s] = b * Mark[s] /\ Exposure'[s] = a * Mark[s]
    BY DEF Exposure
  <2> HIDE DEF a, b
  <2> QED BY <2>1, <2>2, <2>3, TimesMark
<1>2. /\ Gross = SumFunctionOnSet(Exposure, Symbols)
      /\ \A s \in Symbols : Exposure[s] \in Int
  BY GrossIsSum DEF IsGross
<1>3. /\ Gross' = SumFunctionOnSet(Exposure', Symbols)
      /\ \A s \in Symbols : Exposure'[s] \in Int
  BY GrossIsSumAfter DEF IsGross
<1>4. SumFunctionOnSet(Exposure', Symbols) <= SumFunctionOnSet(Exposure, Symbols)
  BY <1>1, <1>2, <1>3, SumMonotone DEF BudgetAssumption
<1> QED BY <1>2, <1>3, <1>4

\* An admission raises gross exposure by what it adds in its own symbol.
LEMMA AdmissionRise ==
  ASSUME BudgetAssumption, BudgetTypes, BudgetTypes',
         NEW s \in Symbols, NEW qty \in Nat, AdmitBuy(s, qty) \/ AdmitSell(s, qty)
  PROVE  Gross' = Gross + qty * Mark[s]
<1>1. /\ Gross = SumFunctionOnSet(Exposure, Symbols)
      /\ \A r \in Symbols : Exposure[r] \in Int
  BY GrossIsSum DEF IsGross
<1>2. /\ Gross' = SumFunctionOnSet(Exposure', Symbols)
      /\ \A r \in Symbols : Exposure'[r] \in Int
  BY GrossIsSumAfter DEF IsGross
<1>3. ASSUME NEW r \in Symbols \ {s} PROVE Exposure[r] = Exposure'[r]
  BY DEF AdmitBuy, AdmitSell, BudgetTypes, Exposure
<1>4. Exposure'[s] = Exposure[s] + qty * Mark[s]
  <2> DEFINE b == Size(holding[s]) + workingBuy[s] + workingSell[s]
  <2>1. b \in Int /\ Mark[s] \in Nat
    BY DEF BudgetAssumption, BudgetTypes, Size
  <2>2. Size(holding'[s]) + workingBuy'[s] + workingSell'[s] = b + qty
    BY DEF AdmitBuy, AdmitSell, BudgetTypes, Size
  <2>3. Exposure[s] = b * Mark[s] /\ Exposure'[s] = (b + qty) * Mark[s]
    BY <2>2 DEF Exposure
  <2> HIDE DEF b
  <2> QED BY <2>1, <2>3
<1>5. SumFunctionOnSet(Exposure', Symbols)
        = SumFunctionOnSet(Exposure, Symbols) - Exposure[s] + Exposure'[s]
  <2>1. \A r \in Symbols : Exposure[r] \in Int /\ Exposure'[r] \in Int
    BY <1>1, <1>2
  <2>2. \A r \in Symbols \ {s} : Exposure[r] = Exposure'[r]
    BY <1>3
  <2>3. IsFiniteSet(Symbols)
    BY DEF BudgetAssumption
  <2> QED BY <2>1, <2>2, <2>3, SumUpdate
<1>6. Exposure[s] \in Int /\ qty * Mark[s] \in Int /\ Gross \in Int
  BY <1>1, GrossIsSum DEF BudgetAssumption, IsGross
<1> QED BY <1>1, <1>2, <1>4, <1>5, <1>6

LEMMA NextGross ==
  ASSUME BudgetAssumption
  PROVE  BudgetInv /\ GrossWithinLimit /\ [BudgetNext]_budgetVars => GrossWithinLimit'
<1> SUFFICES ASSUME BudgetInv, GrossWithinLimit, [BudgetNext]_budgetVars
             PROVE  GrossWithinLimit'
  OBVIOUS
<1>1. BudgetTypes /\ BudgetTypes'
  BY NextBudget DEF BudgetInv
<1>2. Gross \in Int /\ Gross' \in Int
  BY <1>1, GrossIsSum, GrossIsSumAfter DEF IsGross
<1>3. ASSUME NEW s \in Symbols, NEW qty \in 1 .. 2 * MaxPosition,
             AdmitBuy(s, qty) \/ AdmitSell(s, qty)
      PROVE  GrossWithinLimit'
  <2>1. Gross + qty * Mark[s] <= MaxGross
    BY <1>3 DEF AdmitBuy, AdmitSell, GrossAllows
  <2>2. qty \in Nat
    BY DEF BudgetAssumption
  <2>3. Gross' = Gross + qty * Mark[s]
    BY <1>1, <1>3, <2>2, AdmissionRise
  <2> QED BY <2>1, <2>3 DEF GrossWithinLimit
<1>4. ASSUME NEW s \in Symbols, NEW qty \in 1 .. 2 * MaxPosition, Buy(s, qty) \/ Sell(s, qty)
      PROVE  GrossWithinLimit'
  <2>1. \A r \in Symbols : Size(holding'[r]) + workingBuy'[r] + workingSell'[r]
                              <= Size(holding[r]) + workingBuy[r] + workingSell[r]
    BY <1>1, <1>4 DEF BudgetAssumption, BudgetTypes, Buy, Sell, Fits, Size
  <2>2. Gross' <= Gross
    BY <1>1, <2>1, NoRise
  <2> QED BY <1>2, <2>2 DEF GrossWithinLimit, BudgetAssumption
<1>5. CASE Withdraw
  <2>1. \A r \in Symbols : Size(holding'[r]) + workingBuy'[r] + workingSell'[r]
                              <= Size(holding[r]) + workingBuy[r] + workingSell[r]
    BY <1>1, <1>5 DEF BudgetTypes, Withdraw, Size
  <2>2. Gross' <= Gross
    BY <1>1, <2>1, NoRise
  <2> QED BY <1>2, <2>2 DEF GrossWithinLimit, BudgetAssumption
<1>6. CASE UNCHANGED budgetVars
  BY <1>6 DEF budgetVars, GrossWithinLimit, Gross
<1> QED BY <1>3, <1>4, <1>5, <1>6 DEF BudgetNext

\* risk.rs:19-21: gross exposure over all symbols, working orders included, never
\* passes its limit, for every finite set of symbols, their prices and the limit.
THEOREM GrossLimitHolds ==
  ASSUME BudgetAssumption
  PROVE  BudgetSpec => []GrossWithinLimit
<1>1. BudgetInit => GrossWithinLimit
  <2> SUFFICES ASSUME BudgetInit PROVE GrossWithinLimit
    OBVIOUS
  <2>1. BudgetTypes
    BY InitBudget DEF BudgetInv
  <2>2. /\ Gross = SumFunctionOnSet(Exposure, Symbols)
        /\ \A s \in Symbols : Exposure[s] \in Int
    BY <2>1, GrossIsSum DEF IsGross
  <2>3. \A s \in Symbols : Exposure[s] = 0
    BY DEF BudgetAssumption, BudgetInit, Exposure, Size
  <2>4. SumFunctionOnSet(Exposure, Symbols) = 0
    BY <2>3, SumOfNaturals DEF BudgetAssumption
  <2> QED BY <2>2, <2>4 DEF BudgetAssumption, GrossWithinLimit
<1> QED
  BY <1>1, NextGross, BudgetInvariant, PTL DEF BudgetSpec
=============================================================================
