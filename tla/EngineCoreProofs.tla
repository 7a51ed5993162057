-------------------------- MODULE EngineCoreProofs --------------------------
(***************************************************************************)
(* What holds of EngineCore for every set of symbols, orders and limits:   *)
(* first of its orders, registry and stream, then of its quantities, the   *)
(* children of an order, the risk budget and the money in the books.       *)
(***************************************************************************)
EXTENDS EngineCore, SequenceTheorems, FiniteSetTheorems, SumTheorems

-----------------------------------------------------------------------------
(* The proofs of the accounts, for the engine's registry and positions.  A *)
(* ledger of one position is of no use here, only what is proved of a fill. *)

Proved == INSTANCE AccountsProofs WITH
  Prices      <- FillPrices,
  position    <- Flat,
  netCash     <- 0,
  holding     <- [s \in Symbols |-> positions[s].quantity],
  workingBuy  <- [s \in Symbols |-> WorkingQty(s, "Buy")],
  workingSell <- [s \in Symbols |-> WorkingQty(s, "Sell")]

\* CostWithin, of any position, and what a fill keeps, in the engine's operators.
Within(pos, lo, hi) ==
  LET size == Magnitude(pos.quantity)
      cost == Signum(pos.quantity) * pos.cost_basis
  IN  /\ lo * size <= cost
      /\ cost <= hi * size
      /\ size = 0 => pos.cost_basis = 0

Kept(pos, dir, price, qty, lo, hi) ==
  LET new == Filled(pos, dir, price, qty)
  IN  /\ new \in Position
      /\ Within(new, lo, hi)
      /\ new.realized_pnl - new.cost_basis
           = pos.realized_pnl - pos.cost_basis - dir * price * qty

\* The arithmetic of a fill is the same in both.
LEMMA SameFill ==
  /\ Proved!Position = Position /\ Proved!I64 = I64
  /\ \A n : Proved!Magnitude(n) = Magnitude(n) /\ Proved!Signum(n) = Signum(n)
  /\ \A pos, dir, price, qty :
       /\ Proved!Filled(pos, dir, price, qty) = Filled(pos, dir, price, qty)
       /\ Proved!FillFits(pos, dir, price, qty) = FillFits(pos, dir, price, qty)
<1>1. Proved!I64 = I64 /\ Proved!I128 = I128
  BY DEF Proved!I64, I64, Proved!I128, I128
<1>2. Proved!Position = Position
  BY <1>1 DEF Proved!Position, Position
<1>3. /\ \A n : Proved!Magnitude(n) = Magnitude(n) /\ Proved!Signum(n) = Signum(n)
      /\ \A a, b : Proved!Smaller(a, b) = Smaller(a, b) /\ Proved!TruncDiv(a, b) = TruncDiv(a, b)
  BY DEF Proved!Magnitude, Magnitude, Proved!Signum, Signum, Proved!Smaller, Smaller,
         Proved!TruncDiv, TruncDiv
<1>4. \A pos, dir, qty : Proved!ClosingQty(pos, dir, qty) = ClosingQty(pos, dir, qty)
  BY <1>3 DEF Proved!ClosingQty, ClosingQty
<1>5. \A cost, closing, open :
        /\ Proved!WholePart(cost, closing, open) = WholePart(cost, closing, open)
        /\ Proved!RemainderProduct(cost, closing, open) = RemainderProduct(cost, closing, open)
  BY <1>3 DEF Proved!WholePart, WholePart, Proved!RemainderProduct, RemainderProduct
<1>6. \A cost, closing, open : Proved!SplitShare(cost, closing, open) = SplitShare(cost, closing, open)
  BY <1>3, <1>5 DEF Proved!SplitShare, SplitShare
<1>7. \A pos, closing : Proved!RemovedCost(pos, closing) = RemovedCost(pos, closing)
  BY <1>3, <1>6 DEF Proved!RemovedCost, RemovedCost, Proved!ClosedShare, ClosedShare
<1>8. \A pos, closing, price : Proved!ClosingValue(pos, closing, price) = ClosingValue(pos, closing, price)
  BY <1>3 DEF Proved!ClosingValue, ClosingValue
<1>9. \A pos, dir, price, n :
        /\ Proved!AfterClose(pos, dir, price, n) = AfterClose(pos, dir, price, n)
        /\ Proved!AfterOpen(pos, dir, price, n) = AfterOpen(pos, dir, price, n)
  BY <1>7, <1>8 DEF Proved!AfterClose, AfterClose, Proved!AfterOpen, AfterOpen
<1>10. \A pos, dir, price, qty : Proved!Filled(pos, dir, price, qty) = Filled(pos, dir, price, qty)
  BY <1>4, <1>9 DEF Proved!Filled, Filled
<1>11. \A cost, closing, open :
         Proved!ShareChecks(cost, closing, open) = ShareChecks(cost, closing, open)
  BY <1>1, <1>5, <1>6 DEF Proved!ShareChecks, ShareChecks, Proved!SplitShareChecks, SplitShareChecks
<1>12. \A pos, price, closing :
         Proved!CloseChecks(pos, price, closing) = CloseChecks(pos, price, closing)
  BY <1>1, <1>3, <1>7, <1>8, <1>9, <1>11 DEF Proved!CloseChecks, CloseChecks
<1>13. \A pos, dir, price, opening :
         Proved!OpenChecks(pos, dir, price, opening) = OpenChecks(pos, dir, price, opening)
  BY <1>1, <1>9 DEF Proved!OpenChecks, OpenChecks
<1>14. \A pos, dir, price, qty : Proved!FillFits(pos, dir, price, qty) = FillFits(pos, dir, price, qty)
  BY <1>1, <1>4, <1>9, <1>10, <1>12, <1>13 DEF Proved!FillFits, FillFits
<1> QED BY <1>1, <1>2, <1>3, <1>10, <1>14

\* A fill keeps types, average and cash, and moves the quantity.
LEMMA FillKeeps ==
  ASSUME NEW pos \in Position, NEW dir \in {1, -1}, NEW price \in Nat, NEW qty \in Nat \ {0},
         FillFits(pos, dir, price, qty),
         NEW lo \in Nat, NEW hi \in Nat, lo <= price, price <= hi, Within(pos, lo, hi)
  PROVE  Kept(pos, dir, price, qty, lo, hi)
<1>1. pos \in Proved!Position /\ Proved!FillFits(pos, dir, price, qty)
  BY SameFill
<1>2. Proved!Within(pos, lo, hi)
  BY SameFill DEF Within, Proved!Within
<1>3. Proved!Kept(pos, dir, price, qty, lo, hi)
  BY <1>1, <1>2, WidthAssumption, Proved!FillKeeps
<1>4. Proved!Within(Filled(pos, dir, price, qty), lo, hi) => Within(Filled(pos, dir, price, qty), lo, hi)
  BY SameFill DEF Within, Proved!Within
<1> QED BY <1>3, <1>4, SameFill DEF Kept, Proved!Kept

LEMMA FilledQuantity ==
  ASSUME NEW pos \in Position, NEW dir \in {1, -1}, NEW price \in Int, NEW qty \in Nat
  PROVE  Filled(pos, dir, price, qty).quantity = pos.quantity + dir * qty
BY SameFill, WidthAssumption, Proved!FilledQuantity

-----------------------------------------------------------------------------
(* The invariant *)

\* A tick visits working orders it has not ended; outside it nothing is pending,
\* and a halted engine has nothing to visit.
TickInv ==
  /\ IsInjective(done)
  /\ todo \cap Range(done) = {}
  /\ pc = "child" => current \notin todo \cup Range(done)
  /\ pc = "idle" => todo = {} /\ done = <<>> /\ ~failure
  /\ pc # "child" => sending = 0
  /\ halted => working = {} /\ pc # "child"

\* Schedules are what submit put there, and a child that can fill exists.
OrdersInv ==
  /\ \A id \in DOMAIN parents :
       /\ IsSchedule(parents[id].schedule, parents[id].quantity, parents[id].end)
       /\ parents[id].next_slice \in 1 .. Len(parents[id].schedule) + 1
  /\ pc = "child" /\ sending > 0 => parents[current].children # <<>>
  /\ AmountsOrdered

\* The average price of every position is between 1 and the largest price.
PositionsInv == \A s \in Symbols : Within(positions[s], 1, HalfWord)

StreamInv ==
  /\ reported.symbol \in [Symbols -> Int] /\ DOMAIN reported.parent = DOMAIN parents
  /\ StreamAgrees

EngineInv ==
  TypeOK /\ Registry /\ TickInv /\ OrdersInv /\ PositionsInv /\ StreamInv

-----------------------------------------------------------------------------
\* The retention queue.

LEMMA RangeOfConcat ==
  ASSUME NEW a \in Seq(Nat), NEW b \in Seq(Nat)
  PROVE  /\ a \o b \in Seq(Nat)
         /\ Range(a \o b) = Range(a) \cup Range(b)
         /\ IsInjective(a) /\ IsInjective(b) /\ Range(a) \cap Range(b) = {}
              => IsInjective(a \o b)
<1>1. /\ a \o b \in Seq(Nat) /\ Len(a \o b) = Len(a) + Len(b)
      /\ \A i \in 1 .. Len(a) + Len(b) :
           (a \o b)[i] = IF i <= Len(a) THEN a[i] ELSE b[i - Len(a)]
  BY ConcatProperties
<1>2. Range(a \o b) = Range(a) \cup Range(b)
  BY RangeConcatenation
<1>3. ASSUME IsInjective(a), IsInjective(b), Range(a) \cap Range(b) = {},
             NEW i \in DOMAIN (a \o b), NEW j \in DOMAIN (a \o b), (a \o b)[i] = (a \o b)[j]
      PROVE  i = j
  <2>1. /\ DOMAIN a = 1 .. Len(a) /\ DOMAIN b = 1 .. Len(b)
        /\ Len(a) \in Nat /\ Len(b) \in Nat
    BY LenProperties
  <2>2. i \in 1 .. Len(a) + Len(b) /\ j \in 1 .. Len(a) + Len(b)
    BY <1>1, <1>3, LenProperties
  <2>3. CASE i <= Len(a) /\ j <= Len(a)
    BY <1>1, <1>3, <2>1, <2>2, <2>3 DEF IsInjective
  <2>4. CASE i > Len(a) /\ j > Len(a)
    <3>1. i - Len(a) \in DOMAIN b /\ j - Len(a) \in DOMAIN b
      BY <2>1, <2>2, <2>4
    <3>2. b[i - Len(a)] = b[j - Len(a)]
      BY <1>1, <1>3, <2>1, <2>2, <2>4
    <3> QED BY <3>1, <3>2, <1>3, <2>1, <2>2 DEF IsInjective
  <2>5. ASSUME NEW k \in 1 .. Len(a), NEW m \in 1 .. Len(a) + Len(b), m > Len(a),
               (a \o b)[k] = (a \o b)[m]
        PROVE  FALSE
    <3>1. a[k] = b[m - Len(a)] /\ m - Len(a) \in DOMAIN b /\ k \in DOMAIN a
      BY <1>1, <2>1, <2>5
    <3>2. a[k] \in Range(a) /\ b[m - Len(a)] \in Range(b)
      BY <3>1 DEF Range
    <3> QED BY <3>1, <3>2, <1>3
  <2>6. CASE i <= Len(a) /\ j > Len(a)
    <3>1. i \in 1 .. Len(a)
      BY <2>1, <2>2, <2>6
    <3> QED BY ONLY <3>1, <2>2, <2>5, <2>6, <1>3
  <2>7. CASE i > Len(a) /\ j <= Len(a)
    <3>1. j \in 1 .. Len(a)
      BY <2>1, <2>2, <2>7
    <3>2. (a \o b)[j] = (a \o b)[i]
      BY <1>3
    <3> QED BY ONLY <3>1, <3>2, <2>2, <2>5, <2>7
  <2>8. \/ i <= Len(a) /\ j <= Len(a)
        \/ i > Len(a) /\ j > Len(a)
        \/ i <= Len(a) /\ j > Len(a)
        \/ i > Len(a) /\ j <= Len(a)
    BY ONLY <2>1, <2>2
  <2> QED BY ONLY <2>3, <2>4, <2>6, <2>7, <2>8
<1> QED
  BY <1>1, <1>2, <1>3 DEF IsInjective

\* retire keeps the newest of the finished orders.
LEMMA RetireFacts ==
  ASSUME finished \in Seq(Nat), NEW ids \in Seq(Nat)
  PROVE  /\ RetireQueue(ids) \in Seq(Nat)
         /\ Len(RetireQueue(ids)) <= Retained
         /\ Range(RetireQueue(ids)) \subseteq Range(finished \o ids)
         /\ IsInjective(finished \o ids) => IsInjective(RetireQueue(ids))
<1> DEFINE all == finished \o ids
           first == WorseOf(0, Len(all) - Retained) + 1
           kept == SubSeq(all, first, Len(all))
<1>1. all \in Seq(Nat) /\ Len(all) \in Nat /\ DOMAIN all = 1 .. Len(all)
  BY RangeOfConcat, LenProperties
<1>2. Retained \in Nat
  BY EngineAssumption
<1>3. first \in Nat \ {0} /\ Len(all) - first + 1 <= Retained
  BY <1>1, <1>2 DEF WorseOf
<1>4. RetireQueue(ids) = kept
  BY DEF RetireQueue
<1> HIDE DEF all, first
<1>5. \A i \in first .. Len(all) : all[i] \in Nat
  BY <1>1, <1>3, ElementOfSeq
<1>6. /\ kept \in Seq(Nat)
      /\ Len(kept) = IF first <= Len(all) THEN Len(all) - first + 1 ELSE 0
      /\ \A i \in 1 .. Len(all) - first + 1 : kept[i] = all[first + i - 1]
  BY <1>1, <1>3, <1>5, SubSeqProperties
<1> HIDE DEF kept
<1>7. DOMAIN kept = 1 .. Len(kept) /\ Len(kept) \in Nat
  BY <1>6, LenProperties
<1>8. ASSUME NEW i \in DOMAIN kept
      PROVE  first + i - 1 \in DOMAIN all /\ kept[i] = all[first + i - 1]
  <2>1. first <= Len(all) /\ i \in 1 .. Len(all) - first + 1
    BY <1>1, <1>3, <1>6, <1>7
  <2>2. first + i - 1 \in 1 .. Len(all)
    BY <2>1, <1>1, <1>3
  <2>3. kept[i] = all[first + i - 1]
    BY <2>1, <1>6
  <2> QED BY <2>2, <2>3, <1>1
<1>9. Len(kept) <= Retained
  BY <1>2, <1>3, <1>6
<1>10. Range(kept) \subseteq Range(all)
  BY <1>8 DEF Range
<1>11. IsInjective(all) => IsInjective(kept)
  BY <1>3, <1>7, <1>8 DEF IsInjective
<1> QED
  BY <1>4, <1>6, <1>9, <1>10, <1>11 DEF all

\* After retire the registry holds the orders still working and the kept ones.
LEMMA EvictFacts ==
  ASSUME finished \in Seq(Nat), NEW ids \in Seq(Nat), NEW registry, NEW still,
         DOMAIN registry = still \cup Range(finished \o ids),
         still \cap Range(finished \o ids) = {}
  PROVE  /\ DOMAIN Evict(registry, ids) = still \cup Range(RetireQueue(ids))
         /\ \A id \in DOMAIN Evict(registry, ids) : Evict(registry, ids)[id] = registry[id]
         /\ DOMAIN Evict(registry, ids) \subseteq DOMAIN registry
         /\ still \cap Range(RetireQueue(ids)) = {}
<1>1. Range(RetireQueue(ids)) \subseteq Range(finished \o ids)
  BY RetireFacts
<1> QED
  BY <1>1 DEF Evict, Restrict

LEMMA AscendingFacts ==
  ASSUME NEW S \in SUBSET Nat, IsFiniteSet(S), NEW s \in Ascending(S)
  PROVE  s \in Seq(S) /\ IsInjective(s) /\ Range(s) = S
<1> DEFINE n == Cardinality(S)
<1>1. n \in Nat
  BY FS_CardinalityType
<1>2. s \in [1 .. n -> S] /\ \A i, j \in 1 .. n : i < j => s[i] < s[j]
  BY DEF Ascending
<1>3. s \in Seq(S)
  BY <1>1, <1>2, SeqDef
<1>4. IsInjective(s)
  <2> SUFFICES ASSUME NEW i \in 1 .. n, NEW j \in 1 .. n, s[i] = s[j]
               PROVE  i = j
    BY <1>2 DEF IsInjective
  <2>1. s[i] \in Nat /\ s[j] \in Nat
    BY <1>2
  <2>2. ~(i < j) /\ ~(j < i)
    BY <1>2, <2>1
  <2> QED BY <1>1, <2>2
<1>5. s \in Injection(1 .. n, S)
  BY <1>2, <1>4 DEF Injection
<1>6. Cardinality(1 .. n) = n
  BY <1>1, FS_Interval
<1>7. s \in Surjection(1 .. n, S)
  BY <1>5, <1>6, FS_Injection
<1>8. Range(s) = S
  BY <1>2, <1>7 DEF Surjection, Range
<1> QED
  BY <1>3, <1>4, <1>8

-----------------------------------------------------------------------------
\* What the steps do to one order.

\* A schedule releases more as time goes on, and all of the order in the end.
LEMMA ScheduleFacts ==
  ASSUME NEW parent \in Parent, IsSchedule(parent.schedule, parent.quantity, parent.end)
  PROVE  /\ \A n \in 0 .. Len(parent.schedule) :
              UpTo(parent.schedule, n) \in Nat /\ UpTo(parent.schedule, n) <= parent.quantity
         /\ \A m, n \in 0 .. Len(parent.schedule) :
              m <= n => UpTo(parent.schedule, m) <= UpTo(parent.schedule, n)
         /\ UpTo(parent.schedule, Len(parent.schedule)) = parent.quantity
<1> DEFINE s == parent.schedule
<1>1. s \in Seq([time : Nat, upto : Nat]) /\ parent.quantity \in Nat
  BY EngineAssumption, WidthAssumption DEF Parent
<1>2. s # <<>> /\ DOMAIN s = 1 .. Len(s) /\ Len(s) \in Nat \ {0}
  BY <1>1, LenProperties, EmptySeq DEF IsSchedule
<1>3. \A i \in 1 .. Len(s) : s[i].upto \in Nat
  <2> SUFFICES ASSUME NEW i \in 1 .. Len(s) PROVE s[i].upto \in Nat
    OBVIOUS
  <2>1. s[i] \in [time : Nat, upto : Nat]
    BY <1>1, ElementOfSeq
  <2> QED BY <2>1
<1>4. \A i, j \in 1 .. Len(s) : i <= j => s[i].upto <= s[j].upto
  BY <1>2 DEF IsSchedule
<1>5. s[Len(s)].upto = parent.quantity
  BY DEF IsSchedule
<1> HIDE DEF s
<1>6. \A n \in 0 .. Len(s) : UpTo(s, n) \in Nat /\ UpTo(s, n) <= parent.quantity
  BY <1>1, <1>2, <1>3, <1>4, <1>5 DEF UpTo
<1>7. \A m, n \in 0 .. Len(s) : m <= n => UpTo(s, m) <= UpTo(s, n)
  BY <1>1, <1>2, <1>3, <1>4 DEF UpTo
<1>8. UpTo(s, Len(s)) = parent.quantity
  BY <1>2, <1>5 DEF UpTo
<1> QED
  BY <1>6, <1>7, <1>8 DEF s

LEMMA ReleaseFacts ==
  ASSUME NEW parent \in Parent, IsSchedule(parent.schedule, parent.quantity, parent.end),
         parent.next_slice \in 1 .. Len(parent.schedule) + 1,
         parent.released = UpTo(parent.schedule, parent.next_slice - 1),
         NEW n \in parent.next_slice - 1 .. Len(parent.schedule)
  PROVE  /\ Release(parent, n) \in Parent
         /\ Release(parent, n) =
              [parent EXCEPT !.released = UpTo(parent.schedule, n), !.next_slice = n + 1]
         /\ parent.released <= UpTo(parent.schedule, n)
         /\ UpTo(parent.schedule, n) \in Nat /\ UpTo(parent.schedule, n) <= parent.quantity
<1> DEFINE s == parent.schedule
           was == UpTo(s, parent.next_slice - 1)
           is == UpTo(s, n)
<1>1. s \in Seq([time : Nat, upto : Nat]) /\ Len(s) \in Nat
  BY LenProperties DEF Parent
<1>2. parent.next_slice - 1 \in 0 .. Len(s) /\ n \in 0 .. Len(s) /\ n \in Nat
  BY <1>1
<1>3. was \in Nat /\ is \in Nat /\ was <= is /\ is <= parent.quantity
  BY <1>2, ScheduleFacts
<1>4. parent.released = was
  OBVIOUS
<1>5. Release(parent, n) = [parent EXCEPT !.released = was + is - was, !.next_slice = n + 1]
  BY <1>4 DEF Release
<1> HIDE DEF was, is
<1>6. was + is - was = is
  BY <1>3
<1>7. Release(parent, n) = [parent EXCEPT !.released = is, !.next_slice = n + 1]
  BY <1>5, <1>6
<1>8. n + 1 \in Nat \ {0}
  BY <1>2
<1>9. Release(parent, n) \in Parent
  BY <1>3, <1>7, <1>8 DEF Parent
<1> QED
  BY <1>3, <1>4, <1>7, <1>9 DEF is

LEMMA RecordChildFacts ==
  ASSUME NEW parent \in Parent, NEW qty \in Nat
  PROVE  /\ RecordChild(parent, qty) \in Parent
         /\ \E children : RecordChild(parent, qty) = [parent EXCEPT !.children = children]
         /\ qty > 0 => RecordChild(parent, qty).children # <<>>
<1> DEFINE children == IF qty = 0 THEN parent.children
                       ELSE Append(parent.children, [quantity |-> qty, filled |-> 0])
<1>1. parent.children \in Seq([quantity : Nat, filled : Nat])
  BY DEF Parent
<1>2. children \in Seq([quantity : Nat, filled : Nat]) /\ (qty > 0 => children # <<>>)
  <2> DEFINE child == [quantity |-> qty, filled |-> 0]
  <2>1. child \in [quantity : Nat, filled : Nat]
    OBVIOUS
  <2> HIDE DEF child
  <2>2. /\ Append(parent.children, child) \in Seq([quantity : Nat, filled : Nat])
        /\ Append(parent.children, child) # <<>>
    BY <1>1, <2>1, AppendProperties
  <2>3. CASE qty = 0
    BY <1>1, <2>3
  <2>4. CASE qty # 0
    <3>1. children = Append(parent.children, child)
      BY <2>4 DEF child
    <3> HIDE DEF children
    <3> QED BY <3>1, <2>2
  <2> QED BY <2>3, <2>4
<1>3. RecordChild(parent, qty) = [parent EXCEPT !.children = children]
  BY DEF RecordChild, Parent
<1> HIDE DEF children
<1> QED
  BY <1>2, <1>3 DEF Parent

LEMMA RecordFillFacts ==
  ASSUME NEW parent \in Parent, parent.children # <<>>, NEW qty \in Nat
  PROVE  /\ RecordFill(parent, qty) \in Parent
         /\ RecordFill(parent, qty).children # <<>>
         /\ \E children : RecordFill(parent, qty) =
                            [parent EXCEPT !.filled = parent.filled + qty, !.children = children]
<1> DEFINE last == Len(parent.children)
           child == [parent.children[last] EXCEPT !.filled = @ + qty]
           children == [parent.children EXCEPT ![last] = child]
<1>1. parent.children \in Seq([quantity : Nat, filled : Nat]) /\ parent.filled \in Nat
  BY DEF Parent
<1>2. last \in 1 .. Len(parent.children) /\ Len(parent.children) > 0
  BY <1>1, EmptySeq
<1>3. child \in [quantity : Nat, filled : Nat]
  <2>1. parent.children[last] \in [quantity : Nat, filled : Nat]
    BY <1>1, <1>2, ElementOfSeq
  <2> QED BY <2>1
<1>4. children \in Seq([quantity : Nat, filled : Nat]) /\ Len(children) = last
  <2> HIDE DEF child
  <2> QED BY <1>1, <1>2, <1>3, ExceptSeq
<1>5. RecordFill(parent, qty) =
        [parent EXCEPT !.filled = parent.filled + qty, !.children = children]
  BY DEF RecordFill
<1> HIDE DEF children
<1>6. children # <<>>
  BY <1>2, <1>4, EmptySeq
<1>7. RecordFill(parent, qty) \in Parent
  <2>1. parent.filled + qty \in Nat
    BY <1>1
  <2> QED BY <1>4, <1>5, <2>1 DEF Parent
<1>8. RecordFill(parent, qty).children = children
  BY <1>5 DEF Parent
<1> QED
  BY <1>5, <1>6, <1>7, <1>8

-----------------------------------------------------------------------------
\* The invariant, action by action.

LEMMA Constants ==
  /\ HalfWord \in Nat \ {0} /\ MaxTime \in Nat /\ MaxParents \in Nat
  /\ MaxOrderQty \in Nat \ {0} /\ 0 \in Times
  /\ 0 \in I64 /\ 0 \in I128
BY EngineAssumption, WidthAssumption DEF Times, I64, I128

LEMMA EmptyFacts ==
  /\ Range(<<>>) = {} /\ IsInjective(<<>>)
  /\ \A S : <<>> \in Seq(S) /\ Len(<<>>) = 0
<1>1. DOMAIN <<>> = {}
  OBVIOUS
<1> QED
  BY <1>1 DEF Range, IsInjective

LEMMA InitEngine == Init => EngineInv
<1> SUFFICES ASSUME Init PROVE EngineInv
  OBVIOUS
<1> USE Constants, EmptyFacts DEF Init
<1>1. TypeOK
  <2>1. Flat \in Position
    BY DEF Flat, Position
  <2>2. DOMAIN parents = {}
    OBVIOUS
  <2>3. next_parent_id \in 1 .. MaxParents + 1 /\ sending \in 0 .. MaxOrderQty
    OBVIOUS
  <2>4. finished \in Seq(Nat) /\ done \in Seq(working)
    OBVIOUS
  <2>5. positions \in [Symbols -> Position]
    BY <2>1
  <2> QED BY <2>2, <2>3, <2>4, <2>5 DEF TypeOK
<1>2. Registry
  BY EngineAssumption DEF Registry
<1>3. TickInv
  BY DEF TickInv
<1>4. OrdersInv
  BY DEF OrdersInv, AmountsOrdered
<1>5. PositionsInv
  BY DEF PositionsInv, Within, Flat, Magnitude, Signum
<1>6. StreamInv
  BY DEF StreamInv, StreamAgrees, Flat
<1> QED
  BY <1>1, <1>2, <1>3, <1>4, <1>5, <1>6 DEF EngineInv

\* What a submission that is accepted has passed.
LEMMA AcceptedFacts ==
  ASSUME NEW order \in OrderSpecs, NEW t, RejectReason(order, t) = "None"
  PROVE  /\ ~halted /\ order.symbol \in Symbols /\ order.side \in Sides
         /\ order.quantity \in 1 .. MaxOrderQty /\ order.end \in Nat
         /\ order.limit_price \in (1 .. HalfWord - 1) \cup {NoLimit}
         /\ order.schedule \in Seq([time : Nat, upto : Nat])
         /\ IsSchedule(order.schedule, order.quantity, order.end)
<1>1. /\ order.side \in Sides /\ order.quantity \in Nat /\ order.end \in Nat
      /\ order.limit_price \in I64 \cup {NoLimit}
      /\ order.schedule \in Seq([time : Nat, upto : Nat])
      /\ IsSchedule(order.schedule, order.quantity, order.end)
  BY EngineAssumption
<1>2. /\ ~HaltReasonSet /\ order.symbol \in Symbols /\ order.quantity # 0
      /\ ~(order.limit_price # NoLimit /\ order.limit_price <= 0)
      /\ ~(order.quantity > MaxOrderQty)
  BY DEF RejectReason
<1> QED
  BY <1>1, <1>2, Constants DEF HaltReasonSet, I64

LEMMA SubmitStep ==
  ASSUME EngineInv, NEW order \in OrderSpecs, NEW t \in Times, Submit(order, t)
  PROVE  EngineInv'
<1> DEFINE id == next_parent_id
           new == parents'[id]
<1>1. /\ order.symbol \in Symbols /\ order.side \in Sides /\ ~halted
      /\ order.quantity \in 1 .. MaxOrderQty /\ order.end \in Nat
      /\ order.limit_price \in (1 .. HalfWord - 1) \cup {NoLimit}
      /\ order.schedule \in Seq([time : Nat, upto : Nat])
      /\ IsSchedule(order.schedule, order.quantity, order.end)
  BY AcceptedFacts DEF Submit
<1>2. TypeOK /\ Registry /\ TickInv /\ OrdersInv /\ PositionsInv /\ StreamInv
  BY DEF EngineInv
<1>3. id \in 1 .. MaxParents /\ id \notin DOMAIN parents /\ id \in Nat
  BY <1>2, Constants DEF Submit, TypeOK
<1>4. /\ DOMAIN parents' = DOMAIN parents \cup {id}
      /\ \A other \in DOMAIN parents : parents'[other] = parents[other]
  BY <1>3 DEF Submit
<1>5. new = [symbol |-> order.symbol, side |-> order.side,
             quantity |-> order.quantity, limit_price |-> order.limit_price,
             end |-> order.end, schedule |-> order.schedule,
             state |-> "Working", next_slice |-> 1,
             released |-> 0, filled |-> 0, children |-> <<>>]
  BY DEF Submit
<1>6. new \in Parent
  BY <1>1, <1>5, EmptyFacts DEF Parent, States
<1>7. /\ working' = working \cup {id} /\ next_parent_id' = id + 1 /\ pc = "idle"
      /\ UNCHANGED <<finished, positions, halted, pc, now, todo, current, sending, done, failure>>
  BY DEF Submit, tick
<1>8. todo = {} /\ done = <<>> /\ sending = 0
  BY <1>2, <1>7 DEF TickInv
<1>9. TypeOK'
  <2>1. next_parent_id' \in 1 .. MaxParents + 1
    BY <1>3, <1>7, Constants
  <2>2. DOMAIN parents' \subseteq 1 .. next_parent_id' - 1
    BY <1>2, <1>3, <1>4, <1>7 DEF TypeOK
  <2>3. \A other \in DOMAIN parents' : parents'[other] \in Parent
    BY <1>2, <1>4, <1>6 DEF TypeOK
  <2> QED BY <2>1, <2>2, <2>3, <1>2, <1>4, <1>7, <1>8, EmptyFacts DEF TypeOK
<1>10. Registry'
  <2>1. id \notin Range(finished)
    BY <1>2, <1>3 DEF Registry
  <2>2. new.state = "Working"
    BY <1>5
  <2> QED BY <2>1, <2>2, <1>2, <1>3, <1>4, <1>7, <1>8, EmptyFacts DEF Registry
<1>11. TickInv'
  BY <1>1, <1>2, <1>7 DEF TickInv
<1>12. OrdersInv'
  <2>1. /\ IsSchedule(new.schedule, new.quantity, new.end)
        /\ new.next_slice \in 1 .. Len(new.schedule) + 1
        /\ new.filled <= new.released /\ new.released <= new.quantity
        /\ new.released = UpTo(new.schedule, new.next_slice - 1)
    BY <1>1, <1>5, LenProperties DEF UpTo
  <2> QED BY <2>1, <1>2, <1>4, <1>7 DEF OrdersInv, AmountsOrdered
<1>13. PositionsInv'
  BY <1>2, <1>7 DEF PositionsInv
<1>14. StreamInv'
  BY <1>2, <1>3, <1>4, <1>5, <1>7 DEF StreamInv, StreamAgrees, Submit
<1> QED
  BY <1>9, <1>10, <1>11, <1>12, <1>13, <1>14 DEF EngineInv

\* Cancel and both ends of a tick retire some working orders, after cancelling
\* those of them that are still in the Working state.
LEMMA RetireStep ==
  ASSUME EngineInv, NEW gone \in Seq(Nat), IsInjective(gone), Range(gone) \subseteq working,
         Range(done) \subseteq Range(gone),
         NEW registry, DOMAIN registry = DOMAIN parents,
         NEW cancelled, cancelled = Range(gone) \ Range(done),
         \A id \in DOMAIN parents :
           registry[id] = IF id \in cancelled THEN [parents[id] EXCEPT !.state = "Cancelled"]
                          ELSE parents[id],
         working' = working \ Range(gone),
         finished' = RetireQueue(gone),
         parents' = Evict(registry, gone),
         reported' = [reported EXCEPT !.parent = Restrict(@, DOMAIN parents')],
         halted' \in BOOLEAN, halted' => working' = {},
         pc' = "idle", now' \in Times, todo' = {}, done' = <<>>, sending' = 0, ~failure',
         failure' \in BOOLEAN, UNCHANGED <<positions, next_parent_id>>
  PROVE  EngineInv'
<1>1. TypeOK /\ Registry /\ TickInv /\ OrdersInv /\ PositionsInv /\ StreamInv
  BY DEF EngineInv
<1>2. finished \in Seq(Nat)
  BY <1>1 DEF TypeOK
<1>3. /\ finished \o gone \in Seq(Nat)
      /\ Range(finished \o gone) = Range(finished) \cup Range(gone)
      /\ IsInjective(finished \o gone)
  <2>1. Range(finished) \cap Range(gone) = {}
    BY <1>1 DEF Registry
  <2>2. IsInjective(finished)
    BY <1>1 DEF Registry
  <2> QED BY <2>1, <2>2, <1>2, RangeOfConcat
<1>4. /\ DOMAIN parents = working' \cup Range(finished \o gone)
      /\ working' \cap Range(finished \o gone) = {}
  BY <1>1, <1>3 DEF Registry
<1>5. /\ DOMAIN parents' = working' \cup Range(finished')
      /\ working' \cap Range(finished') = {}
      /\ DOMAIN parents' \subseteq DOMAIN parents
      /\ \A id \in DOMAIN parents' : parents'[id] = registry[id]
  <2> DEFINE still == working'
  <2>1. DOMAIN registry = still \cup Range(finished \o gone) /\ still \cap Range(finished \o gone) = {}
    BY <1>4
  <2> HIDE DEF still
  <2>2. /\ DOMAIN Evict(registry, gone) = still \cup Range(RetireQueue(gone))
        /\ \A id \in DOMAIN Evict(registry, gone) : Evict(registry, gone)[id] = registry[id]
        /\ DOMAIN Evict(registry, gone) \subseteq DOMAIN registry
        /\ still \cap Range(RetireQueue(gone)) = {}
    BY <2>1, <1>2, EvictFacts
  <2> QED BY <2>2 DEF still
<1>6. finished' \in Seq(Nat) /\ Len(finished') <= Retained /\ IsInjective(finished')
  BY <1>2, <1>3, RetireFacts
<1>7. \A id \in DOMAIN parents' :
        /\ parents'[id] \in Parent
        /\ parents'[id].state = "Working" <=> id \in working'
        /\ parents'[id].schedule = parents[id].schedule
        /\ parents'[id].quantity = parents[id].quantity
        /\ parents'[id].end = parents[id].end
        /\ parents'[id].next_slice = parents[id].next_slice
        /\ parents'[id].released = parents[id].released
        /\ parents'[id].filled = parents[id].filled
  <2> SUFFICES ASSUME NEW id \in DOMAIN parents'
               PROVE  /\ parents'[id] \in Parent
                      /\ parents'[id].state = "Working" <=> id \in working'
                      /\ parents'[id].schedule = parents[id].schedule
                      /\ parents'[id].quantity = parents[id].quantity
                      /\ parents'[id].end = parents[id].end
                      /\ parents'[id].next_slice = parents[id].next_slice
                      /\ parents'[id].released = parents[id].released
                      /\ parents'[id].filled = parents[id].filled
    OBVIOUS
  <2>1. /\ id \in DOMAIN parents /\ parents[id] \in Parent
        /\ parents[id].state = "Working" <=> id \in working \ Range(done)
    BY <1>1, <1>5 DEF TypeOK, Registry
  <2>2. CASE id \in cancelled
    <3>1. parents'[id] = [parents[id] EXCEPT !.state = "Cancelled"]
      BY <1>5, <2>1, <2>2
    <3> QED BY <3>1, <2>1, <2>2 DEF Parent, States
  <2>3. CASE id \notin cancelled
    <3>1. parents'[id] = parents[id]
      BY <1>5, <2>1, <2>3
    <3> QED BY <3>1, <2>1, <2>3
  <2> QED BY <2>2, <2>3
<1>8. TypeOK'
  <2>1. working' \subseteq DOMAIN parents' /\ DOMAIN parents' \subseteq 1 .. next_parent_id' - 1
    BY <1>1, <1>5 DEF TypeOK
  <2>2. sending' \in 0 .. MaxOrderQty
    BY Constants
  <2> QED BY <2>1, <2>2, <1>1, <1>6, <1>7, EmptyFacts DEF TypeOK
<1>9. Registry'
  BY <1>5, <1>6, <1>7, EmptyFacts DEF Registry
<1>10. TickInv'
  BY EmptyFacts DEF TickInv
<1>11. OrdersInv'
  BY <1>1, <1>5, <1>7 DEF OrdersInv, AmountsOrdered
<1>12. PositionsInv'
  BY <1>1 DEF PositionsInv
<1>13. StreamInv'
  <2>1. reported'.symbol = reported.symbol /\ reported'.parent = Restrict(reported.parent, DOMAIN parents')
    BY DEF StreamInv
  <2> QED BY <2>1, <1>1, <1>5, <1>7 DEF StreamInv, StreamAgrees, Restrict
<1> QED
  BY <1>8, <1>9, <1>10, <1>11, <1>12, <1>13 DEF EngineInv

LEMMA CancelStep ==
  ASSUME EngineInv, NEW id \in 1 .. MaxParents, Cancel(id)
  PROVE  EngineInv'
<1> DEFINE gone == <<id>>
           registry == CancelAll(parents, {id})
<1>1. TypeOK /\ Registry /\ TickInv
  BY DEF EngineInv
<1>2. pc = "idle" /\ id \in DOMAIN parents /\ parents[id].state = "Working"
  BY DEF Cancel, CanCancel
<1>3. todo = {} /\ done = <<>> /\ ~failure /\ sending = 0 /\ Range(done) = {}
  BY <1>1, <1>2, EmptyFacts DEF TickInv
<1>4. id \in working
  BY <1>1, <1>2, <1>3 DEF Registry
<1>5. gone \in Seq(Nat) /\ Range(gone) = {id} /\ IsInjective(gone)
  <2>1. id \in Nat /\ DOMAIN gone = {1} /\ gone[1] = id
    OBVIOUS
  <2> QED BY <2>1 DEF Range, IsInjective
<1>6. /\ DOMAIN registry = DOMAIN parents
      /\ \A other \in DOMAIN parents :
           registry[other] = IF other \in {id} THEN [parents[other] EXCEPT !.state = "Cancelled"]
                             ELSE parents[other]
  BY DEF CancelAll
<1>7. /\ working' = working \ {id} /\ finished' = RetireQueue(gone)
      /\ parents' = Evict(registry, gone)
      /\ reported' = [reported EXCEPT !.parent = Restrict(@, DOMAIN parents')]
      /\ UNCHANGED <<positions, next_parent_id, halted, pc, now, todo, current, sending, done, failure>>
  BY DEF Cancel, tick
<1>8. halted \in BOOLEAN /\ failure \in BOOLEAN /\ now \in Times /\ (halted => working = {})
  BY <1>1 DEF TypeOK, TickInv
<1> HIDE DEF gone, registry
<1> QED
  BY <1>2, <1>3, <1>4, <1>5, <1>6, <1>7, <1>8, RetireStep

LEMMA TickEndStep ==
  ASSUME EngineInv, TickEnd
  PROVE  EngineInv'
<1>1. TypeOK /\ TickInv /\ Registry
  BY DEF EngineInv
<1>2. done \in Seq(Nat) /\ IsInjective(done) /\ Range(done) \subseteq working
  <2>1. done \in Seq(working) /\ working \subseteq Nat
    BY <1>1 DEF TypeOK
  <2>2. done \in Seq(Nat)
    BY <2>1, SeqMonotonic
  <2> QED BY <2>1, <2>2, <1>1, RangeOfSeq DEF TickInv
<1>3. /\ working' = working \ Range(done) /\ finished' = RetireQueue(done)
      /\ parents' = Evict(parents, done)
      /\ reported' = [reported EXCEPT !.parent = Restrict(@, DOMAIN parents')]
      /\ pc' = "idle" /\ now' = 0 /\ todo' = {} /\ sending' = 0 /\ done' = <<>>
      /\ failure' = FALSE /\ UNCHANGED <<positions, next_parent_id, halted>>
  BY DEF TickEnd, TickReturns
<1>4. halted \in BOOLEAN /\ (halted => working = {}) /\ 0 \in Times
  BY <1>1, Constants DEF TypeOK, TickInv
<1>5. Range(done) \ Range(done) = {}
  OBVIOUS
<1>6. \A id \in DOMAIN parents :
        parents[id] = IF id \in {} THEN [parents[id] EXCEPT !.state = "Cancelled"]
                      ELSE parents[id]
  OBVIOUS
<1> QED
  BY <1>2, <1>3, <1>4, <1>5, <1>6, RetireStep

LEMMA TickEndHaltStep ==
  ASSUME EngineInv, TickEndHalt
  PROVE  EngineInv'
<1> DEFINE left == working \ Range(done)
           registry == CancelAll(parents, left)
<1>1. TypeOK /\ TickInv /\ Registry
  BY DEF EngineInv
<1>2. working \subseteq 1 .. next_parent_id - 1 /\ next_parent_id \in Nat
  BY <1>1, Constants DEF TypeOK
<1>3. done \in Seq(Nat) /\ IsInjective(done) /\ Range(done) \subseteq working
  <2>1. done \in Seq(working) /\ working \subseteq Nat
    BY <1>1, <1>2 DEF TypeOK
  <2>2. done \in Seq(Nat)
    BY <2>1, SeqMonotonic
  <2> QED BY <2>1, <2>2, <1>1, RangeOfSeq DEF TickInv
<1>4. left \in SUBSET Nat /\ IsFiniteSet(left)
  <2>1. IsFiniteSet(1 .. next_parent_id - 1)
    BY <1>2, FS_Interval
  <2>2. left \in SUBSET (1 .. next_parent_id - 1)
    BY <1>2
  <2> QED BY <2>1, <2>2, <1>2, FS_Subset
<1>5. PICK cancelled \in Ascending(left) :
        /\ finished' = RetireQueue(done \o cancelled)
        /\ parents' = Evict(registry, done \o cancelled)
  BY DEF TickEndHalt
<1>6. /\ working' = {} /\ halted'
      /\ reported' = [reported EXCEPT !.parent = Restrict(@, DOMAIN parents')]
      /\ pc' = "idle" /\ now' = 0 /\ todo' = {} /\ sending' = 0 /\ done' = <<>>
      /\ failure' = FALSE /\ UNCHANGED <<positions, next_parent_id>> /\ halted' = TRUE
  BY DEF TickEndHalt, TickReturns
<1> DEFINE gone == done \o cancelled
<1>7. /\ gone \in Seq(Nat) /\ IsInjective(gone) /\ Range(gone) = Range(done) \cup left
  <2>1. cancelled \in Seq(left) /\ IsInjective(cancelled) /\ Range(cancelled) = left
    BY <1>4, AscendingFacts
  <2>2. cancelled \in Seq(Nat)
    BY <2>1, <1>4, SeqMonotonic
  <2>3. Range(done) \cap Range(cancelled) = {}
    BY <2>1
  <2> QED BY <2>1, <2>2, <2>3, <1>3, RangeOfConcat
<1>8. /\ DOMAIN registry = DOMAIN parents
      /\ \A id \in DOMAIN parents :
           registry[id] = IF id \in left THEN [parents[id] EXCEPT !.state = "Cancelled"]
                          ELSE parents[id]
  BY DEF CancelAll
<1>9. left = Range(gone) \ Range(done) /\ working' = working \ Range(gone)
  BY <1>3, <1>6, <1>7
<1>10. Range(gone) \subseteq working /\ Range(done) \subseteq Range(gone) /\ 0 \in Times
  BY <1>3, <1>7, Constants
<1> HIDE DEF gone, registry, left
<1> QED
  BY <1>5, <1>6, <1>7, <1>8, <1>9, <1>10, RetireStep DEF gone

LEMMA TickBeginStep ==
  ASSUME EngineInv, NEW t \in Times, TickBegin(t)
  PROVE  EngineInv'
<1>1. TypeOK /\ Registry /\ TickInv /\ OrdersInv /\ PositionsInv /\ StreamInv
  BY DEF EngineInv
<1>2. /\ pc = "idle" /\ pc' = "orders" /\ now' \in Times /\ todo' = working
      /\ UNCHANGED <<parents, working, finished, positions, next_parent_id, halted,
                     current, sending, done, failure, reported>>
  BY DEF TickBegin, core
<1>3. done = <<>> /\ Range(done) = {} /\ sending = 0
  BY <1>1, <1>2, EmptyFacts DEF TickInv
<1>4. TypeOK'
  BY <1>1, <1>2 DEF TypeOK
<1>5. Registry'
  BY <1>1, <1>2 DEF Registry
<1>6. TickInv'
  BY <1>1, <1>2, <1>3 DEF TickInv
<1>7. OrdersInv'
  BY <1>1, <1>2 DEF OrdersInv, AmountsOrdered
<1>8. PositionsInv' /\ StreamInv'
  BY <1>1, <1>2 DEF PositionsInv, StreamInv, StreamAgrees
<1> QED
  BY <1>4, <1>5, <1>6, <1>7, <1>8 DEF EngineInv

\* The steps inside a tick change one working order, never what it was asked to do.
LEMMA UpdateFacts ==
  ASSUME EngineInv, NEW id \in DOMAIN parents, NEW new \in Parent,
         parents' = [parents EXCEPT ![id] = new],
         UNCHANGED <<working, next_parent_id>>,
         new.schedule = parents[id].schedule, new.quantity = parents[id].quantity,
         new.end = parents[id].end, new.next_slice \in 1 .. Len(new.schedule) + 1,
         new.filled <= new.released, new.released <= new.quantity,
         new.released = UpTo(new.schedule, new.next_slice - 1)
  PROVE  /\ DOMAIN parents' = DOMAIN parents /\ parents'[id] = new
         /\ \A other \in DOMAIN parents : other # id => parents'[other] = parents[other]
         /\ DOMAIN parents' \subseteq 1 .. next_parent_id' - 1
         /\ \A other \in DOMAIN parents' :
              /\ parents'[other] \in Parent
              /\ IsSchedule(parents'[other].schedule, parents'[other].quantity,
                            parents'[other].end)
              /\ parents'[other].next_slice \in 1 .. Len(parents'[other].schedule) + 1
              /\ parents'[other].filled <= parents'[other].released
              /\ parents'[other].released <= parents'[other].quantity
              /\ parents'[other].released =
                   UpTo(parents'[other].schedule, parents'[other].next_slice - 1)
<1>1. TypeOK /\ OrdersInv
  BY DEF EngineInv
<1> QED
  BY <1>1 DEF TypeOK, OrdersInv, AmountsOrdered

LEMMA ReleaseDueStep ==
  ASSUME EngineInv, ReleaseDue
  PROVE  EngineInv'
<1>1. TypeOK /\ Registry /\ TickInv /\ OrdersInv /\ PositionsInv /\ StreamInv
  BY DEF EngineInv
<1>a. PICK id \in todo :
        /\ \E n \in parents[id].next_slice - 1 .. Len(parents[id].schedule) :
             LET parent == parents[id]
                 qty    == IF n < parent.next_slice THEN 0 ELSE QtyToSend(Release(parent, n))
             IN  /\ parents' = [parents EXCEPT ![id] = RecordChild(Release(parent, n), qty)]
                 /\ sending' = qty
        /\ current' = id /\ todo' = todo \ {id}
  BY DEF ReleaseDue
<1>2. PICK n \in parents[id].next_slice - 1 .. Len(parents[id].schedule) :
        LET parent == parents[id]
            qty    == IF n < parent.next_slice THEN 0 ELSE QtyToSend(Release(parent, n))
        IN  /\ parents' = [parents EXCEPT ![id] = RecordChild(Release(parent, n), qty)]
            /\ sending' = qty
  BY <1>a
<1>3. /\ pc = "orders" /\ ~failure /\ pc' = "child"
      /\ UNCHANGED <<working, finished, positions, next_parent_id, halted,
                     now, done, failure, reported>>
  BY DEF ReleaseDue
<1> DEFINE parent == parents[id]
           released == Release(parent, n)
           qty == IF n < parent.next_slice THEN 0 ELSE QtyToSend(released)
           new == RecordChild(released, qty)
<1>4. /\ id \in working /\ id \in DOMAIN parents /\ parent \in Parent /\ id \notin Range(done)
      /\ IsSchedule(parent.schedule, parent.quantity, parent.end)
      /\ parent.next_slice \in 1 .. Len(parent.schedule) + 1
      /\ parent.filled <= parent.released /\ parent.filled \in Nat
      /\ parent.released = UpTo(parent.schedule, parent.next_slice - 1)
      /\ parent.quantity \in 1 .. MaxOrderQty
  <2>1. id \in working /\ id \in DOMAIN parents /\ id \notin Range(done)
    BY <1>1 DEF TypeOK, TickInv
  <2>2. parent \in Parent
    BY <2>1, <1>1 DEF TypeOK
  <2> QED BY <2>1, <2>2, <1>1 DEF OrdersInv, AmountsOrdered, Parent
<1> HIDE DEF parent
<1>5. n \in parent.next_slice - 1 .. Len(parent.schedule) /\ n \in Nat
  <2>1. n \in parent.next_slice - 1 .. Len(parent.schedule)
    BY DEF parent
  <2>2. parent.next_slice - 1 \in Nat
    BY <1>4 DEF Parent
  <2> QED BY <2>1, <2>2
<1>6. /\ released \in Parent
      /\ released = [parent EXCEPT !.released = UpTo(parent.schedule, n), !.next_slice = n + 1]
      /\ parent.released <= UpTo(parent.schedule, n)
      /\ UpTo(parent.schedule, n) \in Nat /\ UpTo(parent.schedule, n) <= parent.quantity
  BY <1>4, <1>5, ReleaseFacts
<1>7. /\ released.schedule = parent.schedule /\ released.quantity = parent.quantity
      /\ released.end = parent.end /\ released.next_slice = n + 1
      /\ released.released = UpTo(parent.schedule, n) /\ released.filled = parent.filled
      /\ released.state = parent.state
  BY <1>4, <1>6 DEF Parent
<1>8. qty \in 0 .. MaxOrderQty /\ qty <= released.released - released.filled
  <2>1. released.released - released.filled \in 0 .. MaxOrderQty
    <3>1. parent.released \in Nat /\ parent.quantity <= MaxOrderQty /\ MaxOrderQty \in Nat
      BY <1>4, Constants DEF Parent
    <3> QED BY <3>1, <1>4, <1>6, <1>7
  <2>2. QtyToSend(released) = released.released - released.filled
    BY DEF QtyToSend
  <2> HIDE DEF released
  <2>3. qty = 0 \/ qty = released.released - released.filled
    BY <2>2
  <2> HIDE DEF qty
  <2> QED BY <2>1, <2>3, Constants
<1> HIDE DEF released, qty
<1>b. qty \in Nat
  BY <1>8, Constants
<1>9. /\ new \in Parent /\ (qty > 0 => new.children # <<>>)
      /\ \E children : new = [released EXCEPT !.children = children]
  BY <1>6, <1>b, RecordChildFacts
<1>10. /\ new.schedule = parent.schedule /\ new.quantity = parent.quantity
       /\ new.end = parent.end /\ new.next_slice = n + 1 /\ new.state = parent.state
       /\ new.released = UpTo(parent.schedule, n) /\ new.filled = parent.filled
  BY <1>6, <1>7, <1>9 DEF Parent
<1>11. /\ new.next_slice \in 1 .. Len(new.schedule) + 1
       /\ new.filled <= new.released /\ new.released <= new.quantity
       /\ new.released = UpTo(new.schedule, new.next_slice - 1)
  <2>1. Len(parent.schedule) \in Nat
    BY <1>4, LenProperties DEF Parent
  <2>2. n + 1 \in 1 .. Len(parent.schedule) + 1 /\ n + 1 - 1 = n
    BY <2>1, <1>5
  <2>3. parent.filled <= UpTo(parent.schedule, n)
    <3>1. parent.released \in Nat
      BY <1>4 DEF Parent
    <3> QED BY <3>1, <1>4, <1>6
  <2> HIDE DEF new
  <2> QED BY <2>2, <2>3, <1>6, <1>10
<1> HIDE DEF new
<1>12. parents' = [parents EXCEPT ![id] = new] /\ sending' = qty /\ current' = id
       /\ todo' = todo \ {id}
  BY <1>a, <1>2 DEF new, qty, released, parent
<1>13. /\ DOMAIN parents' = DOMAIN parents /\ parents'[id] = new
       /\ \A other \in DOMAIN parents : other # id => parents'[other] = parents[other]
       /\ DOMAIN parents' \subseteq 1 .. next_parent_id' - 1
       /\ \A other \in DOMAIN parents' :
            /\ parents'[other] \in Parent
            /\ IsSchedule(parents'[other].schedule, parents'[other].quantity,
                          parents'[other].end)
            /\ parents'[other].next_slice \in 1 .. Len(parents'[other].schedule) + 1
            /\ parents'[other].filled <= parents'[other].released
            /\ parents'[other].released <= parents'[other].quantity
            /\ parents'[other].released =
                 UpTo(parents'[other].schedule, parents'[other].next_slice - 1)
  BY <1>3, <1>4, <1>9, <1>10, <1>11, <1>12, UpdateFacts DEF parent
<1>14. TypeOK'
  BY <1>1, <1>3, <1>4, <1>8, <1>12, <1>13 DEF TypeOK
<1>15. Registry'
  BY <1>1, <1>3, <1>4, <1>10, <1>12, <1>13 DEF Registry, parent
<1>16. TickInv'
  BY <1>1, <1>3, <1>4, <1>12 DEF TickInv
<1>17. OrdersInv'
  <2>1. sending' <= new.released - new.filled
    BY <1>7, <1>8, <1>10, <1>12
  <2> QED BY <2>1, <1>9, <1>12, <1>13 DEF OrdersInv, AmountsOrdered
<1>18. PositionsInv'
  BY <1>1, <1>3 DEF PositionsInv
<1>19. StreamInv'
  BY <1>1, <1>3, <1>4, <1>10, <1>13 DEF StreamInv, StreamAgrees, parent
<1> QED
  BY <1>14, <1>15, <1>16, <1>17, <1>18, <1>19 DEF EngineInv

LEMMA FillStep ==
  ASSUME EngineInv, NEW price \in FillPrices, NEW qty \in 1 .. MaxOrderQty, Fill(price, qty)
  PROVE  EngineInv'
<1> DEFINE parent == parents[current]
           symbol == parent.symbol
           dir == Direction(parent.side)
           new == RecordFill(parent, qty)
           pos == positions[symbol]
<1>1. TypeOK /\ Registry /\ TickInv /\ OrdersInv /\ PositionsInv /\ StreamInv
  BY DEF EngineInv
<1>2. /\ pc = "child" /\ qty <= sending /\ FillFits(pos, dir, price, qty)
      /\ positions' = [positions EXCEPT ![symbol] = ApplyFill(@, dir, price, qty)]
      /\ reported' = [parent |-> [reported.parent EXCEPT ![current] = @ + qty],
                      symbol |-> [reported.symbol EXCEPT ![symbol] = @ + dir * qty],
                      cash   |-> reported.cash - dir * qty * price]
      /\ parents' = [parents EXCEPT ![current] = new]
      /\ sending' = sending - qty
      /\ UNCHANGED <<working, finished, next_parent_id, halted,
                     pc, now, todo, current, done, failure>>
  BY DEF Fill
<1>3. /\ current \in working /\ current \in DOMAIN parents /\ parent \in Parent
      /\ parent.next_slice \in 1 .. Len(parent.schedule) + 1
      /\ parent.filled <= parent.released /\ parent.released <= parent.quantity
      /\ parent.released = UpTo(parent.schedule, parent.next_slice - 1)
      /\ sending <= parent.released - parent.filled
      /\ sending \in 0 .. MaxOrderQty
  BY <1>1, <1>2 DEF TypeOK, OrdersInv, AmountsOrdered
<1>4. qty \in Nat \ {0} /\ MaxOrderQty \in Nat /\ sending \in Nat /\ sending > 0
  BY <1>2, <1>3, Constants
<1>5. parent.children # <<>>
  BY <1>1, <1>2, <1>4 DEF OrdersInv
<1>6. symbol \in Symbols /\ dir \in {1, -1} /\ price \in Nat \ {0} /\ price <= HalfWord
  <2>1. parent \in Parent
    BY <1>3
  <2> HIDE DEF parent
  <2>2. symbol \in Symbols
    BY ONLY <2>1 DEF Parent
  <2>3. dir \in {1, -1}
    BY ONLY DEF Direction
  <2>4. price \in Nat \ {0} /\ price <= HalfWord
    BY ONLY price \in FillPrices, EngineAssumption, Constants
  <2> QED BY ONLY <2>2, <2>3, <2>4
<1> HIDE DEF parent, symbol, dir
<1>7. /\ new \in Parent /\ new.children # <<>>
      /\ \E children : new = [parent EXCEPT !.filled = parent.filled + qty, !.children = children]
  <2>1. parent \in Parent /\ parent.children # <<>> /\ qty \in Nat
    BY ONLY <1>3, <1>4, <1>5
  <2> QED BY ONLY <2>1, RecordFillFacts
<1>8. /\ new.schedule = parent.schedule /\ new.quantity = parent.quantity
      /\ new.end = parent.end /\ new.next_slice = parent.next_slice
      /\ new.state = parent.state /\ new.released = parent.released
      /\ new.filled = parent.filled + qty
  BY <1>3, <1>7 DEF Parent
<1>9. parent.filled \in Nat /\ parent.released \in Nat
  BY <1>3 DEF Parent
<1>10. new.filled <= new.released /\ sending' <= new.released - new.filled
  BY <1>2, <1>3, <1>4, <1>8, <1>9
<1> HIDE DEF new
<1>11. /\ DOMAIN parents' = DOMAIN parents /\ parents'[current] = new
       /\ \A other \in DOMAIN parents : other # current => parents'[other] = parents[other]
       /\ DOMAIN parents' \subseteq 1 .. next_parent_id' - 1
       /\ \A other \in DOMAIN parents' :
            /\ parents'[other] \in Parent
            /\ IsSchedule(parents'[other].schedule, parents'[other].quantity,
                          parents'[other].end)
            /\ parents'[other].next_slice \in 1 .. Len(parents'[other].schedule) + 1
            /\ parents'[other].filled <= parents'[other].released
            /\ parents'[other].released <= parents'[other].quantity
            /\ parents'[other].released =
                 UpTo(parents'[other].schedule, parents'[other].next_slice - 1)
  BY <1>2, <1>3, <1>7, <1>8, <1>10, UpdateFacts DEF parent
<1>12. pos \in Position /\ Within(pos, 1, HalfWord)
  BY <1>1, <1>6 DEF TypeOK, PositionsInv
<1> HIDE DEF pos
<1>13. /\ Filled(pos, dir, price, qty) \in Position
       /\ Within(Filled(pos, dir, price, qty), 1, HalfWord)
       /\ Filled(pos, dir, price, qty).quantity = pos.quantity + dir * qty
  <2>1. Kept(pos, dir, price, qty, 1, HalfWord)
    <3>1. price \in Nat /\ 1 \in Nat /\ HalfWord \in Nat /\ 1 <= price
      BY <1>6, Constants
    <3>2. FillFits(pos, dir, price, qty)
      BY <1>2
    <3> QED BY <3>1, <3>2, <1>4, <1>6, <1>12, FillKeeps
  <2>2. Filled(pos, dir, price, qty).quantity = pos.quantity + dir * qty
    BY <1>4, <1>6, <1>12, FilledQuantity
  <2> QED BY <2>1, <2>2 DEF Kept
<1>14. positions' = [positions EXCEPT ![symbol] = Filled(pos, dir, price, qty)]
  BY <1>2 DEF ApplyFill, pos
<1>15. TypeOK'
  <2>1. positions' \in [Symbols -> Position]
    BY <1>1, <1>13, <1>14 DEF TypeOK
  <2>2. sending' \in 0 .. MaxOrderQty
    BY <1>2, <1>3, <1>4
  <2> QED BY <2>1, <2>2, <1>1, <1>2, <1>11 DEF TypeOK
<1>16. Registry'
  BY <1>1, <1>2, <1>3, <1>8, <1>11 DEF Registry, parent
<1>17. TickInv'
  BY <1>1, <1>2 DEF TickInv
<1>18. OrdersInv'
  BY <1>2, <1>7, <1>10, <1>11 DEF OrdersInv, AmountsOrdered
<1>19. PositionsInv'
  BY <1>1, <1>6, <1>13, <1>14 DEF PositionsInv, TypeOK
<1>20. StreamInv'
  <2>1. /\ reported.symbol \in [Symbols -> Int] /\ DOMAIN reported.parent = DOMAIN parents
        /\ \A s \in Symbols : reported.symbol[s] = positions[s].quantity
        /\ \A id \in DOMAIN parents : reported.parent[id] = parents[id].filled
    BY <1>1 DEF StreamInv, StreamAgrees
  <2>2. /\ reported'.symbol = [reported.symbol EXCEPT ![symbol] = @ + dir * qty]
        /\ reported'.parent = [reported.parent EXCEPT ![current] = @ + qty]
    BY <1>2
  <2>3. dir * qty \in Int
    BY <1>4, <1>6
  <2>4. reported'.symbol \in [Symbols -> Int] /\ DOMAIN reported'.parent = DOMAIN parents'
    <3>1. reported'.symbol \in [Symbols -> Int]
      BY <2>1, <2>2, <2>3, <1>6
    <3>2. DOMAIN reported'.parent = DOMAIN reported.parent
      BY <2>2
    <3> QED BY <3>1, <3>2, <2>1, <1>11
  <2>5. \A s \in Symbols : reported'.symbol[s] = positions'[s].quantity
    BY <2>1, <2>2, <1>1, <1>6, <1>13, <1>14 DEF TypeOK, pos
  <2>6. \A id \in DOMAIN parents' : reported'.parent[id] = parents'[id].filled
    BY <2>1, <2>2, <1>3, <1>8, <1>11 DEF parent
  <2> QED BY <2>4, <2>5, <2>6 DEF StreamInv, StreamAgrees
<1> QED
  BY <1>15, <1>16, <1>17, <1>18, <1>19, <1>20 DEF EngineInv

LEMMA FillOverflowsStep ==
  ASSUME EngineInv, NEW price \in FillPrices, NEW qty \in 1 .. MaxOrderQty,
         FillOverflows(price, qty)
  PROVE  EngineInv'
<1>1. TypeOK /\ Registry /\ TickInv /\ OrdersInv /\ PositionsInv /\ StreamInv
  BY DEF EngineInv
<1>2. /\ pc = "child" /\ failure' = TRUE /\ sending' = 0
      /\ parents' = [parents EXCEPT ![current] = parents[current]]
      /\ UNCHANGED <<working, finished, positions, next_parent_id, halted,
                     pc, now, todo, current, done, reported>>
  BY DEF FillOverflows, LostFill
<1>3. DOMAIN parents' = DOMAIN parents /\ \A id \in DOMAIN parents : parents'[id] = parents[id]
  BY <1>2
<1>4. TypeOK'
  BY <1>1, <1>2, <1>3, Constants DEF TypeOK
<1>5. Registry'
  BY <1>1, <1>2, <1>3 DEF Registry
<1>6. TickInv'
  BY <1>1, <1>2 DEF TickInv
<1>7. OrdersInv'
  <2>1. \A id \in DOMAIN parents : parents[id].filled \in Nat /\ parents[id].released \in Nat
    BY <1>1 DEF TypeOK, Parent
  <2> QED BY <2>1, <1>1, <1>2, <1>3 DEF OrdersInv, AmountsOrdered
<1>8. PositionsInv' /\ StreamInv'
  BY <1>1, <1>2, <1>3 DEF PositionsInv, StreamInv, StreamAgrees
<1> QED
  BY <1>4, <1>5, <1>6, <1>7, <1>8 DEF EngineInv

LEMMA SettleStep ==
  ASSUME EngineInv, Settle
  PROVE  EngineInv'
<1> DEFINE parent == parents[current]
           state == SettledState(parent)
           new == [parent EXCEPT !.state = state]
<1>1. TypeOK /\ Registry /\ TickInv /\ OrdersInv /\ PositionsInv /\ StreamInv
  BY DEF EngineInv
<1>2. /\ pc = "child" /\ pc' = "orders" /\ sending' = 0
      /\ parents' = [parents EXCEPT ![current] = new]
      /\ done' = IF state = "Working" THEN done ELSE Append(done, current)
      /\ UNCHANGED <<working, finished, positions, next_parent_id, halted,
                     now, todo, current, failure, reported>>
  BY DEF Settle
<1>3. /\ current \in working /\ current \in DOMAIN parents /\ parent \in Parent
      /\ current \notin todo /\ current \notin Range(done)
      /\ parent.next_slice \in 1 .. Len(parent.schedule) + 1
      /\ parent.filled <= parent.released /\ parent.released <= parent.quantity
      /\ parent.released = UpTo(parent.schedule, parent.next_slice - 1)
  BY <1>1, <1>2 DEF TypeOK, TickInv, OrdersInv, AmountsOrdered
<1>4. state \in {"Working", "Filled", "Expired"}
  BY DEF SettledState
<1> HIDE DEF parent, state
<1>5. /\ new \in Parent /\ new.state = state
      /\ new.schedule = parent.schedule /\ new.quantity = parent.quantity
      /\ new.end = parent.end /\ new.next_slice = parent.next_slice
      /\ new.released = parent.released /\ new.filled = parent.filled
  BY <1>3, <1>4 DEF Parent, States
<1> HIDE DEF new
<1>6. /\ DOMAIN parents' = DOMAIN parents /\ parents'[current] = new
      /\ \A other \in DOMAIN parents : other # current => parents'[other] = parents[other]
      /\ DOMAIN parents' \subseteq 1 .. next_parent_id' - 1
      /\ \A other \in DOMAIN parents' :
           /\ parents'[other] \in Parent
           /\ IsSchedule(parents'[other].schedule, parents'[other].quantity,
                         parents'[other].end)
           /\ parents'[other].next_slice \in 1 .. Len(parents'[other].schedule) + 1
           /\ parents'[other].filled <= parents'[other].released
           /\ parents'[other].released <= parents'[other].quantity
           /\ parents'[other].released =
                UpTo(parents'[other].schedule, parents'[other].next_slice - 1)
  BY <1>2, <1>3, <1>5, UpdateFacts DEF parent
<1>7. /\ done' \in Seq(working) /\ IsInjective(done')
      /\ Range(done') = IF state = "Working" THEN Range(done) ELSE Range(done) \cup {current}
  <2>1. done \in Seq(working) /\ IsInjective(done) /\ working \subseteq Nat
    BY <1>1, Constants DEF TypeOK, TickInv
  <2>2. CASE state = "Working"
    BY <2>1, <2>2, <1>2
  <2>3. CASE state # "Working"
    <3>1. done' = done \o <<current>>
      BY <2>1, <2>3, <1>2, <1>3, AppendIsConcat
    <3>2. done' \in Seq(working)
      BY <2>1, <2>3, <1>2, <1>3, AppendProperties
    <3>3. done \in Seq(Nat) /\ current \in Nat
      BY <2>1, <1>3, SeqMonotonic
    <3>4. <<current>> \in Seq(Nat) /\ Range(<<current>>) = {current} /\ IsInjective(<<current>>)
      <4>1. DOMAIN <<current>> = {1} /\ <<current>>[1] = current
        OBVIOUS
      <4> QED BY <4>1, <3>3 DEF Range, IsInjective
    <3>5. Range(done) \cap Range(<<current>>) = {}
      BY <1>3, <3>4
    <3> QED BY <2>1, <2>3, <3>1, <3>2, <3>3, <3>4, <3>5, RangeOfConcat
  <2> QED BY <2>2, <2>3
<1>8. TypeOK'
  BY <1>1, <1>2, <1>6, <1>7, Constants DEF TypeOK
<1>9. Registry'
  BY <1>1, <1>2, <1>3, <1>5, <1>6, <1>7 DEF Registry
<1>10. TickInv'
  BY <1>1, <1>2, <1>3, <1>7 DEF TickInv
<1>11. OrdersInv'
  BY <1>1, <1>2, <1>6 DEF OrdersInv, AmountsOrdered
<1>12. PositionsInv'
  BY <1>1, <1>2 DEF PositionsInv
<1>13. StreamInv'
  BY <1>1, <1>2, <1>3, <1>5, <1>6 DEF StreamInv, StreamAgrees, parent
<1> QED
  BY <1>8, <1>9, <1>10, <1>11, <1>12, <1>13 DEF EngineInv

LEMMA StutterStep ==
  ASSUME EngineInv, UNCHANGED vars
  PROVE  EngineInv'
<1>1. UNCHANGED <<parents, working, finished, positions, next_parent_id, halted,
                  pc, now, todo, current, sending, done, failure, reported>>
  BY DEF vars, core, tick
<1> QED
  BY <1>1 DEF EngineInv, TypeOK, Registry, TickInv, OrdersInv, AmountsOrdered,
              PositionsInv, StreamInv, StreamAgrees

LEMMA NextEngine == EngineInv /\ [Next]_vars => EngineInv'
BY SubmitStep, CancelStep, TickBeginStep, ReleaseDueStep, FillStep, FillOverflowsStep,
   SettleStep, TickEndStep, TickEndHaltStep, StutterStep DEF Next

\* executor.rs, state.rs: the inductive invariant holds through every interleaving of
\* submissions, cancels and the steps of ticks: what the theorems below are read off.
THEOREM EngineInvariant == Spec => []EngineInv
BY InitEngine, NextEngine, PTL DEF Spec

-----------------------------------------------------------------------------
\* For every set of symbols, prices, limits and orders, and machine integers of any
\* width: no position, order or tick variable leaves its type.
THEOREM EngineTypes == Spec => []TypeOK
<1>1. EngineInv => TypeOK
  BY DEF EngineInv
<1> QED BY <1>1, EngineInvariant, PTL

\* executor.rs:409-416: the registry is the working orders and the retained ones, and
\* eviction never touches an order that still works.
THEOREM RegistryIsExact == Spec => []Registry
<1>1. EngineInv => Registry
  BY DEF EngineInv
<1> QED BY <1>1, EngineInvariant, PTL

\* The unchecked u64 subtractions of state.rs:77-99 never wrap.
THEOREM AmountsStayOrdered == Spec => []AmountsOrdered
<1>1. EngineInv => AmountsOrdered
  BY DEF EngineInv, OrdersInv
<1> QED BY <1>1, EngineInvariant, PTL

\* executor.rs:235-236: orders, fill stream and positions agree, accounting failures
\* included.
THEOREM StreamAlwaysAgrees == Spec => []StreamAgrees
<1>1. EngineInv => StreamAgrees
  BY DEF EngineInv, StreamInv
<1> QED BY <1>1, EngineInvariant, PTL

-----------------------------------------------------------------------------
\* What a step may not do.

\* The orders that end are left alone.
Untouched ==
  \A id \in DOMAIN parents \cap DOMAIN parents' :
    parents[id].state # "Working" => parents'[id] = parents[id]

LEMMA EvictLeaves ==
  ASSUME NEW registry, NEW ids
  PROVE  /\ DOMAIN Evict(registry, ids) \subseteq DOMAIN registry
         /\ \A id \in DOMAIN Evict(registry, ids) : Evict(registry, ids)[id] = registry[id]
BY DEF Evict, Restrict

LEMMA CancelAllLeaves ==
  ASSUME NEW registry, NEW ids
  PROVE  /\ DOMAIN CancelAll(registry, ids) = DOMAIN registry
         /\ \A id \in DOMAIN registry \ ids : CancelAll(registry, ids)[id] = registry[id]
BY DEF CancelAll

LEMMA FinalStep == EngineInv /\ [Next]_vars => Untouched
<1> SUFFICES ASSUME EngineInv, [Next]_vars, UNCHANGED parents \/ Next
             PROVE  Untouched
  BY DEF vars, core
<1>1. TypeOK /\ Registry /\ TickInv
  BY DEF EngineInv
<1>2. next_parent_id \notin DOMAIN parents
  BY <1>1 DEF TypeOK
<1>3. CASE UNCHANGED parents
  BY <1>3 DEF Untouched
<1>4. ASSUME NEW order \in OrderSpecs, NEW t \in Times, Submit(order, t)
      PROVE  Untouched
  BY <1>2, <1>4 DEF Submit, Untouched
<1>5. ASSUME NEW id \in 1 .. MaxParents, Cancel(id)
      PROVE  Untouched
  <2>1. parents' = Evict(CancelAll(parents, {id}), <<id>>) /\ parents[id].state = "Working"
    BY <1>5 DEF Cancel, CanCancel
  <2> QED BY <2>1, EvictLeaves, CancelAllLeaves DEF Untouched
<1>6. ASSUME NEW t \in Times, TickBegin(t)
      PROVE  Untouched
  BY <1>3, <1>6 DEF TickBegin, core
<1>7. CASE ReleaseDue
  <2>1. PICK id \in todo : /\ DOMAIN parents' = DOMAIN parents
                           /\ \A other \in DOMAIN parents \ {id} :
                                parents'[other] = parents[other]
    BY <1>7 DEF ReleaseDue
  <2>2. parents[id].state = "Working"
    BY <1>1 DEF TypeOK, Registry, TickInv
  <2> QED BY <2>1, <2>2 DEF Untouched
<1>8. ASSUME pc = "child", DOMAIN parents' = DOMAIN parents,
             \A other \in DOMAIN parents \ {current} : parents'[other] = parents[other]
      PROVE  Untouched
  <2>1. parents[current].state = "Working"
    BY <1>1, <1>8 DEF TypeOK, Registry, TickInv
  <2> QED BY <2>1, <1>8 DEF Untouched
<1>9. ASSUME NEW price \in FillPrices, NEW qty \in 1 .. MaxOrderQty, Fill(price, qty)
      PROVE  Untouched
  BY <1>8, <1>9 DEF Fill
<1>10. ASSUME NEW price \in FillPrices, NEW qty \in 1 .. MaxOrderQty, FillOverflows(price, qty)
      PROVE  Untouched
  BY <1>8, <1>10 DEF FillOverflows
<1>11. CASE Settle
  BY <1>8, <1>11 DEF Settle
<1>12. CASE TickEnd
  <2>1. parents' = Evict(parents, done)
    BY <1>12 DEF TickEnd
  <2> QED BY <2>1, EvictLeaves DEF Untouched
<1>13. CASE TickEndHalt
  <2>1. PICK ids : parents' = Evict(CancelAll(parents, working \ Range(done)), ids)
    BY <1>13 DEF TickEndHalt
  <2>2. \A id \in working \ Range(done) : parents[id].state = "Working"
    BY <1>1 DEF TypeOK, Registry
  <2> QED BY <2>1, <2>2, EvictLeaves, CancelAllLeaves DEF Untouched
<1> QED
  BY <1>3, <1>4, <1>5, <1>6, <1>7, <1>9, <1>10, <1>11, <1>12, <1>13 DEF Next

\* state.rs:124-148: no step, and no halt, touches an order that ended.
THEOREM TerminalStaysFinal == Spec => TerminalIsFinal
<1>1. EngineInv /\ [Next]_vars => [Untouched]_vars
  BY FinalStep
<1> QED BY <1>1, EngineInvariant, PTL DEF Spec, TerminalIsFinal, Untouched

HaltKept ==
  halted => halted' /\ UNCHANGED positions /\ DOMAIN parents' \subseteq DOMAIN parents

LEMMA HaltStep == EngineInv /\ [Next]_vars => HaltKept
<1> SUFFICES ASSUME EngineInv, [Next]_vars, halted, Next \/ UNCHANGED vars
             PROVE  halted' /\ UNCHANGED positions /\ DOMAIN parents' \subseteq DOMAIN parents
  BY DEF HaltKept
<1>1. working = {} /\ todo = {} /\ pc # "child"
  BY DEF EngineInv, TypeOK, TickInv
<1>2. CASE UNCHANGED vars
  BY <1>2 DEF vars, core
<1>3. ASSUME NEW order \in OrderSpecs, NEW t \in Times, Submit(order, t)
      PROVE  FALSE
  BY <1>3 DEF Submit, RejectReason, HaltReasonSet
<1>4. ASSUME NEW id \in 1 .. MaxParents, Cancel(id)
      PROVE  halted' /\ UNCHANGED positions /\ DOMAIN parents' \subseteq DOMAIN parents
  BY <1>4, EvictLeaves, CancelAllLeaves DEF Cancel
<1>5. ASSUME NEW t \in Times, TickBegin(t)
      PROVE  halted' /\ UNCHANGED positions /\ DOMAIN parents' \subseteq DOMAIN parents
  BY <1>5 DEF TickBegin, core
<1>6. CASE ReleaseDue
  BY <1>1, <1>6 DEF ReleaseDue
<1>7. ASSUME NEW price \in FillPrices, NEW qty \in 1 .. MaxOrderQty,
             Fill(price, qty) \/ FillOverflows(price, qty)
      PROVE  FALSE
  BY <1>1, <1>7 DEF Fill, FillOverflows
<1>8. CASE Settle
  BY <1>1, <1>8 DEF Settle
<1>9. CASE TickEnd
  BY <1>9, EvictLeaves DEF TickEnd
<1>10. CASE TickEndHalt
  <2>1. PICK ids : parents' = Evict(CancelAll(parents, working \ Range(done)), ids)
    BY <1>10 DEF TickEndHalt
  <2>2. halted' /\ UNCHANGED positions
    BY <1>10 DEF TickEndHalt
  <2> QED BY <2>1, <2>2, EvictLeaves, CancelAllLeaves
<1> QED
  BY <1>2, <1>3, <1>4, <1>5, <1>6, <1>7, <1>8, <1>9, <1>10 DEF Next

\* executor.rs:281-282: once an accounting failure or the loss limit has halted the
\* engine, nothing trades and no order is accepted again.
THEOREM HaltStaysFinal == Spec => HaltIsFinal
<1>1. EngineInv /\ [Next]_vars => [HaltKept]_vars
  BY HaltStep
<1> QED BY <1>1, EngineInvariant, PTL DEF Spec, HaltIsFinal, HaltKept

-----------------------------------------------------------------------------

\* The fills of an order's children, and what its last child has left.
Shares(parent) == [i \in DOMAIN parent.children |-> parent.children[i].filled]

LastLeft(parent) ==
  LET last == parent.children[Len(parent.children)]
  IN  last.quantity - last.filled

\* Whatever is released and not filled is with the last child.
ChildrenOf(parent) ==
  /\ parent.filled = SumFunction(Shares(parent))
  /\ \A i \in DOMAIN parent.children :
       parent.children[i].filled <= parent.children[i].quantity
  /\ IF parent.children = <<>> THEN parent.released = 0
     ELSE LastLeft(parent) = parent.released - parent.filled
  /\ parent.state = "Expired" => parent.released = parent.quantity

\* No slice that is due waits while the order's child is at the venue.
NothingDue(parent) ==
  parent.next_slice <= Len(parent.schedule) => parent.schedule[parent.next_slice].time > now

ChildrenInv ==
  /\ \A id \in DOMAIN parents : ChildrenOf(parents[id])
  /\ pc = "child" => NothingDue(parents[current])

-----------------------------------------------------------------------------
\* One order.

LEMMA ChildTypes ==
  ASSUME NEW parent \in Parent
  PROVE  /\ DOMAIN parent.children = 1 .. Len(parent.children)
         /\ Len(parent.children) \in Nat
         /\ parent.children # <<>> <=> Len(parent.children) > 0
         /\ \A i \in 1 .. Len(parent.children) :
              /\ parent.children[i] \in [quantity : Nat, filled : Nat]
              /\ Shares(parent)[i] = parent.children[i].filled
              /\ Shares(parent)[i] \in Nat
         /\ SumFunction(Shares(parent)) =
              SumFunctionOnSet(Shares(parent), 1 .. Len(parent.children))
         /\ parent.filled \in Nat /\ parent.released \in Nat
<1>1. parent.children \in Seq([quantity : Nat, filled : Nat])
  BY DEF Parent
<1>2. DOMAIN parent.children = 1 .. Len(parent.children) /\ Len(parent.children) \in Nat
  BY <1>1, LenProperties
<1>3. parent.children # <<>> <=> Len(parent.children) > 0
  BY <1>1, <1>2, EmptySeq
<1>4. \A i \in 1 .. Len(parent.children) : parent.children[i] \in [quantity : Nat, filled : Nat]
  BY <1>1, ElementOfSeq
<1>5. DOMAIN Shares(parent) = 1 .. Len(parent.children)
  BY <1>2 DEF Shares
<1>6. SumFunction(Shares(parent)) = SumFunctionOnSet(Shares(parent), 1 .. Len(parent.children))
  BY <1>5 DEF SumFunction
<1> QED
  BY <1>2, <1>3, <1>4, <1>6 DEF Shares, Parent

\* Only the children, the amounts and the state matter.
LEMMA ChildrenKept ==
  ASSUME NEW parent \in Parent, NEW new, ChildrenOf(parent),
         new.children = parent.children, new.filled = parent.filled,
         new.released = parent.released, new.quantity = parent.quantity,
         new.state = parent.state \/ (new.state = "Expired" => new.released = new.quantity)
  PROVE  ChildrenOf(new)
BY DEF ChildrenOf, Shares, LastLeft

\* A new child takes over what its predecessor left.
LEMMA ChildrenAppended ==
  ASSUME NEW parent \in Parent, NEW new \in Parent, NEW qty \in Nat \ {0},
         ChildrenOf(parent), parent.state # "Expired",
         new.children = Append(parent.children, [quantity |-> qty, filled |-> 0]),
         new.filled = parent.filled, new.state = parent.state,
         qty = new.released - new.filled
  PROVE  ChildrenOf(new)
<1> DEFINE n == Len(parent.children)
           child == [quantity |-> qty, filled |-> 0]
<1>1. /\ n \in Nat /\ DOMAIN parent.children = 1 .. n
      /\ \A i \in 1 .. n : Shares(parent)[i] = parent.children[i].filled
  BY ChildTypes
<1>2. /\ Len(new.children) = n + 1 /\ new.children[n + 1] = child
      /\ \A i \in 1 .. n : new.children[i] = parent.children[i]
  <2>1. parent.children \in Seq([quantity : Nat, filled : Nat])
        /\ child \in [quantity : Nat, filled : Nat]
    BY DEF Parent
  <2> HIDE DEF child
  <2> QED BY <2>1, AppendProperties DEF child
<1> HIDE DEF n
<1>3. /\ DOMAIN new.children = 1 .. n + 1
      /\ \A i \in 1 .. n + 1 :
           Shares(new)[i] \in Int /\ Shares(new)[i] = new.children[i].filled
      /\ Shares(new)[n + 1] = 0
      /\ SumFunction(Shares(new)) = SumFunctionOnSet(Shares(new), 1 .. n + 1)
  <2>1. /\ DOMAIN new.children = 1 .. n + 1
        /\ \A i \in 1 .. n + 1 : Shares(new)[i] = new.children[i].filled /\ Shares(new)[i] \in Nat
        /\ SumFunction(Shares(new)) = SumFunctionOnSet(Shares(new), 1 .. n + 1)
    BY <1>2, ChildTypes
  <2>2. n + 1 \in 1 .. n + 1
    BY <1>1
  <2> QED BY <2>1, <2>2, <1>2
<1>4. SumFunctionOnSet(Shares(new), 1 .. n + 1)
        = SumFunctionOnSet(Shares(new), 1 .. n) + Shares(new)[n + 1]
  BY <1>1, <1>3, SumLast
<1>5. SumFunctionOnSet(Shares(new), 1 .. n) = SumFunctionOnSet(Shares(parent), 1 .. n)
  <2>1. \A i \in 1 .. n : Shares(new)[i] \in Int /\ Shares(new)[i] = Shares(parent)[i]
    <3> SUFFICES ASSUME NEW i \in 1 .. n
                 PROVE  Shares(new)[i] \in Int /\ Shares(new)[i] = Shares(parent)[i]
      OBVIOUS
    <3>1. i \in 1 .. n + 1
      BY <1>1
    <3> QED BY ONLY <3>1, <1>1, <1>2, <1>3, i \in 1 .. n
  <2>2. IsFiniteSet(1 .. n)
    BY <1>1, FS_Interval
  <2> QED BY ONLY <2>1, <2>2, SumCongruence
<1>6. parent.filled = SumFunctionOnSet(Shares(parent), 1 .. n) /\ parent.filled \in Nat
  BY ChildTypes DEF ChildrenOf, n
<1>7. new.filled = SumFunction(Shares(new))
  BY <1>3, <1>4, <1>5, <1>6
<1>8. \A i \in DOMAIN new.children : new.children[i].filled <= new.children[i].quantity
  <2>1. \A i \in 1 .. n : parent.children[i].filled <= parent.children[i].quantity
    BY <1>1 DEF ChildrenOf
  <2>2. child.quantity = qty /\ child.filled = 0
    OBVIOUS
  <2> HIDE DEF child
  <2>3. 0 <= qty
    OBVIOUS
  <2> QED BY ONLY <2>1, <2>2, <2>3, <1>1, <1>2, <1>3
<1>9. new.children # <<>> /\ LastLeft(new) = new.released - new.filled
  <2>1. new.children # <<>>
    <3>1. new.children # <<>> <=> Len(new.children) > 0
      BY ChildTypes
    <3> QED BY ONLY <3>1, <1>1, <1>2
  <2>2. child.quantity = qty /\ child.filled = 0
    OBVIOUS
  <2> HIDE DEF child
  <2>3. LastLeft(new) = qty - 0
    BY <1>2, <2>2 DEF LastLeft
  <2> QED BY <2>1, <2>3
<1> QED
  BY <1>7, <1>8, <1>9 DEF ChildrenOf

\* A fill goes to the last child, which has room for it.
LEMMA ChildrenFilled ==
  ASSUME NEW parent \in Parent, parent.children # <<>>, ChildrenOf(parent),
         NEW qty \in Nat, qty <= parent.released - parent.filled
  PROVE  ChildrenOf(RecordFill(parent, qty))
<1> DEFINE n == Len(parent.children)
           new == RecordFill(parent, qty)
           child == [parent.children[n] EXCEPT !.filled = @ + qty]
<1>1. /\ n \in Nat /\ n > 0 /\ DOMAIN parent.children = 1 .. n /\ n \in 1 .. n
      /\ parent.children[n] \in [quantity : Nat, filled : Nat]
      /\ parent.filled \in Nat /\ parent.released \in Nat
      /\ parent.filled = SumFunctionOnSet(Shares(parent), 1 .. n)
      /\ \A i \in 1 .. n : Shares(parent)[i] \in Nat /\ Shares(parent)[i] = parent.children[i].filled
  BY ChildTypes DEF ChildrenOf
<1>2. /\ child.quantity = parent.children[n].quantity
      /\ child.filled = parent.children[n].filled + qty
      /\ child.quantity - child.filled = parent.released - parent.filled - qty
  <2>1. parent.children[n].quantity - parent.children[n].filled = parent.released - parent.filled
    BY DEF ChildrenOf, LastLeft
  <2> QED BY <1>1, <2>1
<1>3. /\ new = [parent EXCEPT !.filled = parent.filled + qty,
                              !.children = [parent.children EXCEPT ![n] = child]]
  BY DEF RecordFill
<1>4. /\ new.filled = parent.filled + qty /\ new.released = parent.released
      /\ new.quantity = parent.quantity /\ new.state = parent.state
      /\ new.children = [parent.children EXCEPT ![n] = child] /\ new \in Parent
  BY <1>3, RecordFillFacts DEF Parent
<1> HIDE DEF new, child
<1>5. Len(new.children) = n
  BY <1>1, <1>4, ExceptSeq DEF Parent
<1> HIDE DEF n
<1>6. /\ DOMAIN new.children = 1 .. n /\ new.children[n] = child
      /\ \A i \in 1 .. n : i # n => new.children[i] = parent.children[i]
      /\ SumFunction(Shares(new)) = SumFunctionOnSet(Shares(new), 1 .. n)
      /\ \A i \in 1 .. n : Shares(new)[i] \in Nat /\ Shares(new)[i] = new.children[i].filled
  BY <1>1, <1>4, <1>5, ChildTypes
<1>7. SumFunctionOnSet(Shares(new), 1 .. n)
        = SumFunctionOnSet(Shares(parent), 1 .. n) - Shares(parent)[n] + Shares(new)[n]
  <2>1. IsFiniteSet(1 .. n)
    BY <1>1, FS_Interval
  <2>2. \A i \in (1 .. n) \ {n} : Shares(parent)[i] = Shares(new)[i]
    BY <1>1, <1>6
  <2>3. n \in 1 .. n /\ \A i \in 1 .. n : Shares(parent)[i] \in Int /\ Shares(new)[i] \in Int
    BY <1>1, <1>6
  <2> DEFINE f == Shares(parent)
             g == Shares(new)
             S == 1 .. n
  <2>4. /\ IsFiniteSet(S) /\ n \in S
        /\ \A i \in S : f[i] \in Int /\ g[i] \in Int
        /\ \A i \in S \ {n} : f[i] = g[i]
    BY <2>1, <2>2, <2>3
  <2> HIDE DEF f, g, S
  <2>5. SumFunctionOnSet(g, S) = SumFunctionOnSet(f, S) - f[n] + g[n]
    BY ONLY <2>4, SumUpdate
  <2> QED BY <2>5 DEF f, g, S
<1>8. new.filled = SumFunction(Shares(new))
  <2>1. Shares(new)[n] = Shares(parent)[n] + qty /\ Shares(parent)[n] \in Nat
    BY <1>1, <1>2, <1>6
  <2> QED BY <2>1, <1>1, <1>4, <1>6, <1>7
<1>9. \A i \in DOMAIN new.children : new.children[i].filled <= new.children[i].quantity
  <2>1. child.filled <= child.quantity
    BY <1>1, <1>2
  <2> QED BY <2>1, <1>1, <1>6 DEF ChildrenOf
<1>10. new.children # <<>> /\ LastLeft(new) = new.released - new.filled
  <2>1. new.children # <<>>
    BY <1>1, <1>4, <1>5, ChildTypes
  <2> QED BY <2>1, <1>1, <1>2, <1>4, <1>5, <1>6 DEF LastLeft
<1>11. new.state = "Expired" => new.released = new.quantity
  BY <1>4 DEF ChildrenOf
<1> QED
  BY <1>8, <1>9, <1>10, <1>11 DEF ChildrenOf, new

-----------------------------------------------------------------------------
\* The steps.

\* What a release does to the order: the due slices, and the new child if anything
\* is left to send.
LEMMA ReleaseShape ==
  ASSUME EngineInv, ReleaseDue
  PROVE  \E id \in todo, new \in Parent, qty \in Nat :
           /\ id \in working /\ current' = id /\ pc' = "child" /\ now' = now
           /\ parents' = [parents EXCEPT ![id] = new]
           /\ new.symbol = parents[id].symbol /\ new.side = parents[id].side
           /\ new.quantity = parents[id].quantity /\ new.filled = parents[id].filled
           /\ new.state = parents[id].state /\ new.end = parents[id].end
           /\ new.schedule = parents[id].schedule
           /\ NothingDue(new)
           /\ IF qty = 0 THEN /\ new.children = parents[id].children
                              /\ \/ new.released = parents[id].released
                                 \/ new.released = new.filled
              ELSE /\ new.children = Append(parents[id].children, [quantity |-> qty, filled |-> 0])
                   /\ qty = new.released - new.filled
           /\ parents[id].filled <= parents[id].released
           /\ parents[id].released <= new.released
<1>1. TypeOK /\ Registry /\ TickInv /\ OrdersInv
  BY DEF EngineInv
<1>a. PICK id \in todo :
        /\ \E n \in parents[id].next_slice - 1 .. Len(parents[id].schedule) :
             LET parent == parents[id]
                 qty    == IF n < parent.next_slice THEN 0 ELSE QtyToSend(Release(parent, n))
             IN  /\ DueUpTo(parent, n)
                 /\ parents' = [parents EXCEPT ![id] = RecordChild(Release(parent, n), qty)]
        /\ current' = id
  BY DEF ReleaseDue
<1>2. PICK n \in parents[id].next_slice - 1 .. Len(parents[id].schedule) :
        LET parent == parents[id]
            qty    == IF n < parent.next_slice THEN 0 ELSE QtyToSend(Release(parent, n))
        IN  /\ DueUpTo(parent, n)
            /\ parents' = [parents EXCEPT ![id] = RecordChild(Release(parent, n), qty)]
  BY <1>a
<1> DEFINE parent == parents[id]
           released == Release(parent, n)
           qty == IF n < parent.next_slice THEN 0 ELSE QtyToSend(released)
           new == RecordChild(released, qty)
<1>3. /\ id \in working /\ id \in DOMAIN parents /\ parent \in Parent
      /\ IsSchedule(parent.schedule, parent.quantity, parent.end)
      /\ parent.next_slice \in 1 .. Len(parent.schedule) + 1
      /\ parent.filled <= parent.released
      /\ parent.released = UpTo(parent.schedule, parent.next_slice - 1)
      /\ DueUpTo(parent, n) /\ parents' = [parents EXCEPT ![id] = new]
      /\ n \in parent.next_slice - 1 .. Len(parent.schedule)
      /\ pc' = "child" /\ now' = now
  BY <1>1, <1>2 DEF TypeOK, OrdersInv, AmountsOrdered, ReleaseDue
<1> HIDE DEF parent
<1>4. /\ released \in Parent
      /\ released = [parent EXCEPT !.released = UpTo(parent.schedule, n), !.next_slice = n + 1]
      /\ parent.released <= UpTo(parent.schedule, n)
      /\ UpTo(parent.schedule, n) \in Nat
  BY <1>3, ReleaseFacts
<1>5. /\ released.schedule = parent.schedule /\ released.quantity = parent.quantity
      /\ released.end = parent.end /\ released.next_slice = n + 1
      /\ released.released = UpTo(parent.schedule, n) /\ released.filled = parent.filled
      /\ released.state = parent.state /\ released.children = parent.children
      /\ released.symbol = parent.symbol /\ released.side = parent.side
  BY <1>3, <1>4 DEF Parent
<1>6. /\ parent.filled \in Nat /\ parent.released \in Nat /\ Len(parent.schedule) \in Nat
      /\ parent.next_slice \in Nat /\ n \in Nat
  <2>1. /\ parent.filled \in Nat /\ parent.released \in Nat /\ parent.next_slice \in Nat \ {0}
        /\ Len(parent.schedule) \in Nat
    BY <1>3, LenProperties DEF Parent
  <2> QED BY <2>1, <1>3
<1>7. QtyToSend(released) = released.released - released.filled
  BY DEF QtyToSend
<1> HIDE DEF released
<1>8. \/ qty = 0 /\ (released.released = parent.released \/ released.released = released.filled)
      \/ qty # 0 /\ qty = released.released - released.filled
  <2>1. CASE n < parent.next_slice
    <3>1. n = parent.next_slice - 1
      BY <2>1, <1>3, <1>6
    <3> QED BY <2>1, <3>1, <1>3, <1>5
  <2>2. CASE ~(n < parent.next_slice)
    <3>1. qty = released.released - released.filled
      BY <2>2, <1>7
    <3> HIDE DEF qty
    <3> QED BY <3>1, <1>4, <1>5, <1>6
  <2> QED BY <2>1, <2>2
<1> HIDE DEF qty
<1>9. qty \in Nat
  BY <1>3, <1>4, <1>5, <1>6, <1>8
<1>10. new \in Parent /\ \E children : new = [released EXCEPT !.children = children]
  BY <1>4, <1>9, RecordChildFacts
<1>11. /\ new.schedule = parent.schedule /\ new.quantity = parent.quantity
       /\ new.end = parent.end /\ new.next_slice = n + 1 /\ new.state = parent.state
       /\ new.released = released.released /\ new.filled = released.filled
       /\ new.symbol = parent.symbol /\ new.side = parent.side
  BY <1>4, <1>5, <1>10 DEF Parent
<1>12. new.children = IF qty = 0 THEN parent.children
                      ELSE Append(parent.children, [quantity |-> qty, filled |-> 0])
  BY <1>4, <1>5 DEF RecordChild, Parent
<1> HIDE DEF new
<1>13. NothingDue(new)
  <2>1. n < Len(parent.schedule) => parent.schedule[n + 1].time > now
    BY <1>3 DEF DueUpTo
  <2> QED BY <2>1, <1>6, <1>11 DEF NothingDue
<1> QED
  <2>1. /\ id \in todo /\ new \in Parent /\ qty \in Nat /\ id \in working /\ current' = id
        /\ pc' = "child" /\ now' = now /\ parents' = [parents EXCEPT ![id] = new]
    BY <1>a, <1>3, <1>9, <1>10
  <2>2. /\ new.released = released.released /\ new.filled = parent.filled
        /\ parent.released <= new.released
    BY <1>4, <1>5, <1>11
  <2>3. IF qty = 0 THEN /\ new.children = parent.children
                        /\ \/ new.released = parent.released
                           \/ new.released = new.filled
        ELSE /\ new.children = Append(parent.children, [quantity |-> qty, filled |-> 0])
             /\ qty = new.released - new.filled
    BY <1>8, <1>11, <1>12
  <2>4. /\ new.symbol = parent.symbol /\ new.side = parent.side
        /\ new.quantity = parent.quantity /\ new.state = parent.state /\ new.end = parent.end
        /\ new.schedule = parent.schedule /\ NothingDue(new)
        /\ parent.filled <= parent.released
    BY <1>3, <1>11, <1>13
  <2> USE DEF parent
  <2> USE <2>1
  <2> WITNESS id \in todo, new \in Parent, qty \in Nat
  <2>5. /\ new.symbol = parents[id].symbol /\ new.side = parents[id].side
        /\ new.quantity = parents[id].quantity /\ new.filled = parents[id].filled
        /\ new.state = parents[id].state /\ new.end = parents[id].end
        /\ new.schedule = parents[id].schedule
    BY ONLY <2>2, <2>4
  <2>6. IF qty = 0 THEN /\ new.children = parents[id].children
                        /\ \/ new.released = parents[id].released
                           \/ new.released = new.filled
        ELSE /\ new.children = Append(parents[id].children, [quantity |-> qty, filled |-> 0])
             /\ qty = new.released - new.filled
    BY ONLY <2>3
  <2>7. parents[id].filled <= parents[id].released /\ parents[id].released <= new.released
    BY ONLY <2>2, <2>4
  <2>8. NothingDue(new)
    BY <2>4
  <2>9. id \in working /\ current' = id /\ pc' = "child" /\ now' = now
    BY ONLY <2>1
  <2>10. parents' = [parents EXCEPT ![id] = new]
    BY ONLY <2>1
  <2> QED BY ONLY <2>5, <2>6, <2>7, <2>8, <2>9, <2>10

LEMMA ReleaseKeepsChildren ==
  ASSUME EngineInv, ChildrenInv, ReleaseDue
  PROVE  ChildrenInv'
<1>1. PICK id \in todo, new \in Parent, qty \in Nat :
        /\ id \in working /\ current' = id /\ pc' = "child" /\ now' = now
        /\ parents' = [parents EXCEPT ![id] = new]
        /\ new.quantity = parents[id].quantity /\ new.filled = parents[id].filled
        /\ new.state = parents[id].state
        /\ NothingDue(new)
        /\ IF qty = 0 THEN /\ new.children = parents[id].children
                           /\ \/ new.released = parents[id].released
                              \/ new.released = new.filled
           ELSE /\ new.children = Append(parents[id].children, [quantity |-> qty, filled |-> 0])
                /\ qty = new.released - new.filled
        /\ parents[id].filled <= parents[id].released
        /\ parents[id].released <= new.released
  BY ReleaseShape
<1>2. /\ id \in DOMAIN parents /\ parents[id] \in Parent /\ parents[id].state = "Working"
      /\ ChildrenOf(parents[id])
  BY <1>1 DEF EngineInv, TypeOK, Registry, TickInv, ChildrenInv
<1>3. ChildrenOf(new)
  <2>1. CASE qty = 0
    <3>1. new.released = parents[id].released
      <4>1. parents[id].filled \in Nat /\ parents[id].released \in Nat /\ new.released \in Nat
        BY <1>2 DEF Parent
      <4> QED BY <2>1, <4>1, <1>1
    <3> QED BY <2>1, <3>1, <1>1, <1>2, ChildrenKept
  <2>2. CASE qty # 0
    <3> DEFINE parent == parents[id]
    <3>1. /\ parent \in Parent /\ qty \in Nat \ {0} /\ ChildrenOf(parent)
          /\ parent.state # "Expired"
          /\ new.children = Append(parent.children, [quantity |-> qty, filled |-> 0])
          /\ new.filled = parent.filled /\ new.state = parent.state
          /\ qty = new.released - new.filled
      BY <1>1, <1>2, <2>2
    <3> HIDE DEF parent
    <3> QED BY <3>1, ChildrenAppended
  <2> QED BY <2>1, <2>2
<1>4. \A other \in DOMAIN parents' : ChildrenOf(parents'[other])
  BY <1>1, <1>2, <1>3 DEF ChildrenInv
<1>5. NothingDue(parents[current])'
  BY <1>1, <1>2 DEF NothingDue
<1> QED
  BY <1>4, <1>5 DEF ChildrenInv

LEMMA FillKeepsChildren ==
  ASSUME EngineInv, ChildrenInv,
         NEW price \in FillPrices, NEW qty \in 1 .. MaxOrderQty, Fill(price, qty)
  PROVE  ChildrenInv'
<1> DEFINE parent == parents[current]
           new == RecordFill(parent, qty)
<1>1. /\ pc = "child" /\ pc' = "child" /\ qty <= sending
      /\ parents' = [parents EXCEPT ![current] = new] /\ UNCHANGED <<current, now>>
  BY DEF Fill
<1>2. /\ current \in DOMAIN parents /\ parent \in Parent /\ ChildrenOf(parent)
      /\ sending \in 0 .. MaxOrderQty /\ sending <= parent.released - parent.filled
      /\ NothingDue(parent)
  BY <1>1 DEF EngineInv, TypeOK, OrdersInv, AmountsOrdered, ChildrenInv
<1>3. qty \in Nat /\ sending > 0 /\ qty <= parent.released - parent.filled
  <2>1. parent.released \in Nat /\ parent.filled \in Nat /\ sending \in Nat /\ qty \in Nat /\ qty > 0
    BY <1>2, Constants DEF Parent
  <2> HIDE DEF parent
  <2> QED BY <2>1, <1>1, <1>2
<1>4. parent.children # <<>>
  BY <1>1, <1>3 DEF EngineInv, OrdersInv
<1>5. /\ new.schedule = parent.schedule /\ new.next_slice = parent.next_slice
      /\ ChildrenOf(new)
  <2> HIDE DEF parent
  <2>1. ChildrenOf(new)
    BY <1>2, <1>3, <1>4, ChildrenFilled
  <2>2. \E children : new = [parent EXCEPT !.filled = parent.filled + qty, !.children = children]
    BY <1>2, <1>3, <1>4, RecordFillFacts
  <2> QED BY <2>1, <2>2, <1>2 DEF Parent
<1> HIDE DEF new
<1>6. \A other \in DOMAIN parents' : ChildrenOf(parents'[other])
  BY <1>1, <1>2, <1>5 DEF ChildrenInv
<1>7. NothingDue(parents[current])'
  BY <1>1, <1>2, <1>5 DEF NothingDue
<1> QED
  BY <1>6, <1>7 DEF ChildrenInv

\* An order whose window is over has released everything.
LEMMA SettleKeepsChildren ==
  ASSUME EngineInv, ChildrenInv, Settle
  PROVE  ChildrenInv'
<1> DEFINE parent == parents[current]
           state == SettledState(parent)
           new == [parent EXCEPT !.state = state]
<1>1. /\ pc = "child" /\ pc' = "orders" /\ parents' = [parents EXCEPT ![current] = new]
  BY DEF Settle
<1>2. /\ current \in DOMAIN parents /\ parent \in Parent /\ ChildrenOf(parent)
      /\ IsSchedule(parent.schedule, parent.quantity, parent.end)
      /\ parent.next_slice \in 1 .. Len(parent.schedule) + 1
      /\ parent.released = UpTo(parent.schedule, parent.next_slice - 1)
      /\ NothingDue(parent) /\ now \in Times
  BY <1>1 DEF EngineInv, TypeOK, OrdersInv, AmountsOrdered, ChildrenInv
<1> HIDE DEF parent
<1>3. state = "Expired" => parent.released = parent.quantity
  <2> SUFFICES ASSUME state = "Expired" PROVE parent.released = parent.quantity
    OBVIOUS
  <2>1. now >= parent.end
    BY DEF SettledState
  <2>2. Len(parent.schedule) \in Nat /\ DOMAIN parent.schedule = 1 .. Len(parent.schedule)
        /\ parent.end \in Nat /\ now \in Nat /\ parent.next_slice \in Nat
        /\ \A i \in 1 .. Len(parent.schedule) : parent.schedule[i].time \in Nat
    <3>1. parent.schedule \in Seq([time : Nat, upto : Nat]) /\ parent.end \in Nat
      BY <1>2 DEF Parent
    <3>2. now \in Nat
      BY <1>2, Constants DEF Times
    <3>3. Len(parent.schedule) \in Nat /\ DOMAIN parent.schedule = 1 .. Len(parent.schedule)
      BY <3>1, LenProperties
    <3>4. ASSUME NEW i \in 1 .. Len(parent.schedule)
          PROVE  parent.schedule[i].time \in Nat
      <4>1. parent.schedule[i] \in [time : Nat, upto : Nat]
        BY <3>1, ElementOfSeq
      <4> QED BY <4>1
    <3> QED BY <3>1, <3>2, <3>3, <3>4, <1>2
  <2>3. parent.next_slice = Len(parent.schedule) + 1
    <3> SUFFICES ASSUME parent.next_slice \in 1 .. Len(parent.schedule) PROVE FALSE
      BY <1>2, <2>2
    <3>1. parent.schedule[parent.next_slice].time < parent.end
      BY <1>2, <2>2 DEF IsSchedule
    <3>2. parent.schedule[parent.next_slice].time > now
      BY <1>2, <2>2 DEF NothingDue
    <3> QED BY <2>1, <2>2, <3>1, <3>2
  <2>4. parent.next_slice - 1 = Len(parent.schedule)
    BY <2>2, <2>3
  <2> QED BY <2>4, <1>2, ScheduleFacts
<1> HIDE DEF state
<1>4. /\ new.children = parent.children /\ new.filled = parent.filled
      /\ new.released = parent.released /\ new.quantity = parent.quantity
      /\ new.state = state
  BY <1>2 DEF Parent
<1> HIDE DEF new
<1>5. ChildrenOf(new)
  BY <1>2, <1>3, <1>4, ChildrenKept
<1>6. \A other \in DOMAIN parents' : ChildrenOf(parents'[other])
  BY <1>1, <1>2, <1>5 DEF ChildrenInv
<1> QED
  BY <1>1, <1>6 DEF ChildrenInv

\* Retired orders keep what they have, cancelled or not.
LEMMA RetireKeepsChildren ==
  ASSUME EngineInv, ChildrenInv, NEW ids, NEW gone,
         parents' = Evict(CancelAll(parents, gone), ids), pc' = "idle"
  PROVE  ChildrenInv'
<1> SUFFICES ASSUME NEW id \in DOMAIN parents' PROVE ChildrenOf(parents'[id])
  BY DEF ChildrenInv
<1> DEFINE registry == CancelAll(parents, gone)
           new == parents'[id]
<1>1. id \in DOMAIN registry /\ new = registry[id]
  BY EvictLeaves
<1>2. id \in DOMAIN parents /\ parents[id] \in Parent /\ ChildrenOf(parents[id])
  BY <1>1, CancelAllLeaves DEF ChildrenInv, EngineInv, TypeOK
<1>3. new = parents[id] \/ new = [parents[id] EXCEPT !.state = "Cancelled"]
  BY <1>1, <1>2 DEF CancelAll
<1> HIDE DEF new
<1>4. CASE new = [parents[id] EXCEPT !.state = "Cancelled"]
  <2>1. /\ new.children = parents[id].children /\ new.filled = parents[id].filled
        /\ new.released = parents[id].released /\ new.quantity = parents[id].quantity
        /\ new.state # "Expired"
    BY <1>2, <1>4 DEF Parent
  <2> QED BY <1>2, <2>1, ChildrenKept DEF new
<1> QED
  BY <1>2, <1>3, <1>4 DEF new

LEMMA InitChildren == Init => ChildrenInv
BY DEF Init, ChildrenInv

LEMMA NextChildren == EngineInv /\ ChildrenInv /\ [Next]_vars => ChildrenInv'
<1> SUFFICES ASSUME EngineInv, ChildrenInv, Next \/ UNCHANGED vars
             PROVE  ChildrenInv'
  OBVIOUS
<1>1. ASSUME UNCHANGED <<parents, pc, now, current>>
      PROVE  ChildrenInv'
  BY <1>1 DEF ChildrenInv, NothingDue
<1>2. ASSUME NEW order \in OrderSpecs, NEW t \in Times, Submit(order, t)
      PROVE  ChildrenInv'
  <2> DEFINE new == parents'[next_parent_id]
  <2>1. next_parent_id \notin DOMAIN parents
    BY DEF EngineInv, TypeOK
  <2>2. /\ DOMAIN parents' = DOMAIN parents \cup {next_parent_id}
        /\ \A other \in DOMAIN parents : parents'[other] = parents[other]
        /\ new.children = <<>> /\ new.filled = 0 /\ new.released = 0 /\ new.state = "Working"
        /\ pc = "idle" /\ pc' = pc
    BY <1>2, <2>1 DEF Submit, tick
  <2> HIDE DEF new
  <2>3. SumFunction(Shares(new)) = 0 /\ DOMAIN new.children = {}
    <3>1. DOMAIN new.children = {}
      BY <2>2
    <3>2. DOMAIN Shares(new) = {}
      BY <3>1 DEF Shares
    <3> QED BY <3>1, <3>2, SumEmpty DEF SumFunction
  <2>4. ChildrenOf(new)
    BY <2>2, <2>3 DEF ChildrenOf
  <2> QED BY <2>2, <2>4 DEF ChildrenInv, new
<1>3. ASSUME NEW id \in 1 .. MaxParents, Cancel(id)
      PROVE  ChildrenInv'
  BY <1>3, RetireKeepsChildren DEF Cancel, tick
<1>4. ASSUME NEW t \in Times, TickBegin(t)
      PROVE  ChildrenInv'
  BY <1>4 DEF TickBegin, core, ChildrenInv
<1>5. ASSUME NEW price \in FillPrices, NEW qty \in 1 .. MaxOrderQty, FillOverflows(price, qty)
      PROVE  ChildrenInv'
  <2>1. /\ parents' = [parents EXCEPT ![current] = parents[current]]
        /\ UNCHANGED <<pc, now, current>>
    BY <1>5 DEF FillOverflows, LostFill
  <2>2. DOMAIN parents' = DOMAIN parents /\ \A id \in DOMAIN parents : parents'[id] = parents[id]
    BY <2>1
  <2>3. pc = "child" => current \in DOMAIN parents
    BY DEF EngineInv, TypeOK
  <2> QED BY <2>1, <2>2, <2>3 DEF ChildrenInv, NothingDue
<1>6. CASE TickEnd
  <2>1. parents' = Evict(parents, done) /\ pc' = "idle"
    BY <1>6 DEF TickEnd, TickReturns
  <2>2. DOMAIN parents' \subseteq DOMAIN parents
        /\ \A id \in DOMAIN parents' : parents'[id] = parents[id]
    BY <2>1, EvictLeaves
  <2> QED BY <2>1, <2>2 DEF ChildrenInv
<1>7. CASE TickEndHalt
  <2>1. /\ \E ids : parents' = Evict(CancelAll(parents, working \ Range(done)), ids)
        /\ pc' = "idle"
    BY <1>7 DEF TickEndHalt, TickReturns
  <2> QED BY <2>1, RetireKeepsChildren
<1>8. CASE UNCHANGED vars
  BY <1>1, <1>8 DEF vars, core, tick
<1> QED
  BY <1>2, <1>3, <1>4, <1>5, <1>6, <1>7, <1>8,
     ReleaseKeepsChildren, FillKeepsChildren, SettleKeepsChildren DEF Next

\* state.rs:95-121: the child orders of a parent account for what it released and filled,
\* and in an order whose window is over nothing is left that was not offered.
THEOREM ChildrenInvariant == Spec => []ChildrenInv
BY InitChildren, NextChildren, EngineInvariant, PTL DEF Spec

\* state.rs:112-121: for every set of orders and limits, the children of an order
\* account for its fills, although only the last child is ever updated.
THEOREM ChildrenAccountForFills == Spec => []ChildrenAccount
<1>1. ChildrenInv => ChildrenAccount
  BY DEF ChildrenInv, ChildrenOf, Shares, ChildrenAccount
<1> QED BY <1>1, ChildrenInvariant, PTL

\* executor.rs:215-218: an order never expires with a slice unreleased, and its last
\* child offered everything that was left, whenever the ticks come.
THEOREM ExpiryOffersAll == Spec => []ExpiredOfferedAll
<1>1. EngineInv /\ ChildrenInv => ExpiredOfferedAll
  <2> SUFFICES ASSUME EngineInv, ChildrenInv, NEW id \in DOMAIN parents,
                      parents[id].state = "Expired"
               PROVE  /\ parents[id].released = parents[id].quantity
                      /\ parents[id].children # <<>>
                      /\ LastLeft(parents[id]) = Unfilled(parents[id])
    BY DEF ExpiredOfferedAll, LastLeft
  <2>1. parents[id] \in Parent /\ ChildrenOf(parents[id])
    BY DEF EngineInv, TypeOK, ChildrenInv
  <2>2. parents[id].quantity > 0
    BY <2>1, Constants DEF Parent
  <2> QED BY <2>1, <2>2 DEF ChildrenOf, Unfilled
<1> QED BY <1>1, EngineInvariant, ChildrenInvariant, PTL

-----------------------------------------------------------------------------
(* The risk budget *)

\* What the orders of one side of a symbol have left, order by order, and in all.
Ids == 1 .. MaxParents

Demand(s, side) ==
  [id \in Ids |->
     IF id \in working /\ parents[id].symbol = s /\ parents[id].side = side
     THEN Unfilled(parents[id]) ELSE 0]

Total(s, side) == SumFunctionOnSet(Demand(s, side), Ids)

\* If all working orders of one side filled, the limit would hold.  The limit itself
\* is not inductive: nothing in a fill bounds the position.
RoomInv ==
  \A s \in Symbols :
    /\ positions[s].quantity + Total(s, "Buy")  <= MaxPosition
    /\ positions[s].quantity - Total(s, "Sell") >= -MaxPosition

TotalsCount ==
  \A s \in Symbols : \A side \in Sides :
    /\ Total(s, side) \in Nat
    /\ WorkingQty(s, side) = SaturateU64(Total(s, side))

DemandsTyped ==
  /\ IsFiniteSet(Ids) /\ working \subseteq Ids
  /\ \A id \in DOMAIN parents : parents[id] \in Parent /\ Unfilled(parents[id]) \in Nat
  /\ \A s \in Symbols, side \in Sides : \A id \in Ids : Demand(s, side)[id] \in Nat

LEMMA DemandTypes == EngineInv => DemandsTyped
<1> SUFFICES ASSUME EngineInv PROVE DemandsTyped
  OBVIOUS
<1>1. IsFiniteSet(Ids)
  BY Constants, FS_Interval DEF Ids
<1>2. DOMAIN parents \subseteq Ids /\ working \subseteq DOMAIN parents
  <2>1. /\ DOMAIN parents \subseteq 1 .. next_parent_id - 1 /\ working \subseteq DOMAIN parents
        /\ next_parent_id \in 1 .. MaxParents + 1
    BY DEF EngineInv, TypeOK
  <2> QED BY <2>1, Constants DEF Ids
<1>3. ASSUME NEW id \in DOMAIN parents
      PROVE  parents[id] \in Parent /\ Unfilled(parents[id]) \in Nat
  <2>1. /\ parents[id] \in Parent
        /\ parents[id].filled <= parents[id].released /\ parents[id].released <= parents[id].quantity
    BY DEF EngineInv, TypeOK, OrdersInv, AmountsOrdered
  <2>2. /\ parents[id].filled \in Nat /\ parents[id].released \in Nat /\ parents[id].quantity \in Nat
    BY <2>1, Constants DEF Parent
  <2> QED BY <2>1, <2>2 DEF Unfilled
<1>4. ASSUME NEW s \in Symbols, NEW side \in Sides, NEW id \in Ids
      PROVE  Demand(s, side)[id] \in Nat
  BY <1>2, <1>3 DEF Demand
<1> QED
  BY <1>1, <1>2, <1>3, <1>4 DEF DemandsTyped

LEMMA TotalsAreWorking == EngineInv => TotalsCount
<1> SUFFICES ASSUME EngineInv, NEW s \in Symbols, NEW side \in Sides
             PROVE  /\ Total(s, side) \in Nat
                    /\ WorkingQty(s, side) = SaturateU64(Total(s, side))
  BY DEF TotalsCount
<1> DEFINE ids == {id \in working : parents[id].symbol = s /\ parents[id].side = side}
           left == [id \in ids |-> Unfilled(parents[id])]
           demand == Demand(s, side)
<1>1. /\ IsFiniteSet(Ids) /\ ids \in SUBSET Ids
      /\ \A id \in Ids : demand[id] \in Nat /\ demand[id] \in Int
      /\ \A id \in Ids \ ids : demand[id] = 0
      /\ \A id \in ids : left[id] = demand[id] /\ left[id] \in Int
  <2>1. /\ IsFiniteSet(Ids) /\ working \subseteq Ids
        /\ \A id \in Ids : demand[id] \in Nat
    BY DemandTypes DEF DemandsTyped
  <2>2. \A id \in Ids \ ids : demand[id] = 0
    BY DEF Demand
  <2>3. \A id \in ids : left[id] = demand[id]
    BY <2>1 DEF Demand
  <2> QED BY <2>1, <2>2, <2>3
<1>2. WorkingQty(s, side) = SaturateU64(SumFunctionOnSet(left, ids))
  BY DEF WorkingQty, SumFunction
<1> HIDE DEF ids, left, demand
<1>3. SumFunctionOnSet(demand, Ids) \in Nat
  BY <1>1, SumOfNaturals
<1>4. SumFunctionOnSet(demand, Ids) = SumFunctionOnSet(demand, ids)
  BY <1>1, SumSupport
<1>5. SumFunctionOnSet(left, ids) = SumFunctionOnSet(demand, ids)
  <2>1. IsFiniteSet(ids)
    BY <1>1, FS_Subset
  <2> QED BY <2>1, <1>1, SumCongruence
<1> QED
  BY <1>2, <1>3, <1>4, <1>5 DEF Total, demand

\* The sums of what is left never reach the end of the u64.
RoomCounts ==
  \A s \in Symbols :
    /\ \A side \in Sides : /\ WorkingQty(s, side) = Total(s, side)
                           /\ Total(s, side) \in 0 .. 2 * MaxPosition
    /\ positions[s].quantity \in -MaxPosition .. MaxPosition

LEMMA NothingSaturates == EngineInv /\ RoomInv => RoomCounts
<1> SUFFICES ASSUME EngineInv, RoomInv, NEW s \in Symbols
             PROVE  /\ \A side \in Sides : /\ WorkingQty(s, side) = Total(s, side)
                                           /\ Total(s, side) \in 0 .. 2 * MaxPosition
                    /\ positions[s].quantity \in -MaxPosition .. MaxPosition
  BY DEF RoomCounts
<1> DEFINE q == positions[s].quantity
           b == Total(s, "Buy")
           c == Total(s, "Sell")
<1>1. q \in Int /\ MaxPosition \in Nat /\ MaxPosition <= HalfWord - 1 /\ HalfWord \in Nat
  BY EngineAssumption, Constants DEF EngineInv, TypeOK, Position, I64
<1>2. b \in Nat /\ c \in Nat /\ WorkingQty(s, "Buy") = SaturateU64(b)
      /\ WorkingQty(s, "Sell") = SaturateU64(c)
  BY TotalsAreWorking DEF TotalsCount, Sides
<1>3. q + b <= MaxPosition /\ q - c >= -MaxPosition
  BY DEF RoomInv
<1> HIDE DEF q, b, c
<1>4. b <= 2 * MaxPosition /\ c <= 2 * MaxPosition /\ q \in -MaxPosition .. MaxPosition
  BY <1>1, <1>2, <1>3
<1>5. SaturateU64(b) = b /\ SaturateU64(c) = c
  BY <1>1, <1>2, <1>4 DEF SaturateU64, Smaller
<1> QED
  BY <1>1, <1>2, <1>4, <1>5 DEF Sides, q, b, c

\* The same facts after a step.
LEMMA AfterStep ==
  /\ EngineInv' => DemandsTyped' /\ TotalsCount'
  /\ EngineInv' /\ RoomInv' => RoomCounts'
BY DemandTypes, TotalsAreWorking, NothingSaturates, PTL

\* A step that changes one order moves the totals by what it changes there.
LEMMA OneDemand ==
  ASSUME EngineInv, EngineInv', NEW id \in Ids, NEW s \in Symbols, NEW side \in Sides,
         \A other \in Ids \ {id} : Demand(s, side)'[other] = Demand(s, side)[other]
  PROVE  Total(s, side)' = Total(s, side) - Demand(s, side)[id] + Demand(s, side)'[id]
<1> DEFINE f == Demand(s, side)
           g == Demand(s, side)'
<1>1. /\ IsFiniteSet(Ids)
      /\ \A y \in Ids : f[y] \in Int /\ g[y] \in Int
      /\ \A y \in Ids \ {id} : f[y] = g[y]
  <2>1. DemandsTyped /\ DemandsTyped'
    BY DemandTypes, AfterStep
  <2>2. \A y \in Ids : f[y] \in Nat
    BY <2>1 DEF DemandsTyped
  <2>3. \A y \in Ids : g[y] \in Nat
    BY <2>1 DEF DemandsTyped, Ids
  <2> QED BY <2>1, <2>2, <2>3 DEF DemandsTyped
<1>2. Total(s, side) = SumFunctionOnSet(f, Ids) /\ Total(s, side)' = SumFunctionOnSet(g, Ids)
  BY DEF Total, Ids
<1> HIDE DEF f, g
<1>3. SumFunctionOnSet(g, Ids) = SumFunctionOnSet(f, Ids) - f[id] + g[id]
  BY <1>1, SumUpdate
<1> QED BY <1>2, <1>3 DEF f, g

\* Submission adds the order's quantity to its side of its symbol.
LEMMA SubmitTotal ==
  ASSUME EngineInv, EngineInv', NEW order \in OrderSpecs, NEW t \in Times, Submit(order, t),
         NEW s \in Symbols, NEW side \in Sides
  PROVE  Total(s, side)' = Total(s, side) +
           (IF s = order.symbol /\ side = order.side THEN order.quantity ELSE 0)
<1> DEFINE id == next_parent_id
<1>1. DemandsTyped /\ DemandsTyped' /\ TotalsCount
  BY DemandTypes, AfterStep, TotalsAreWorking
<1>2. id \in Ids /\ id \notin DOMAIN parents /\ id \notin working /\ working \subseteq DOMAIN parents
  BY DEF Submit, EngineInv, TypeOK, Ids
<1>3. /\ working' = working \cup {id}
      /\ \A other \in DOMAIN parents : parents'[other] = parents[other]
      /\ parents'[id].symbol = order.symbol /\ parents'[id].side = order.side
      /\ parents'[id].quantity = order.quantity /\ parents'[id].filled = 0
  BY <1>2 DEF Submit
<1>4. order.quantity \in Nat
  BY EngineAssumption
<1> HIDE DEF id
<1>5. \A other \in Ids \ {id} : Demand(s, side)'[other] = Demand(s, side)[other]
  BY <1>2, <1>3 DEF Demand, Unfilled, Ids
<1>6. Demand(s, side)[id] = 0
  BY <1>2 DEF Demand
<1>7. Demand(s, side)'[id] = IF s = order.symbol /\ side = order.side THEN order.quantity ELSE 0
  BY <1>2, <1>3, <1>4 DEF Demand, Unfilled, Ids
<1>8. Total(s, side) \in Nat
  BY <1>1 DEF TotalsCount
<1> QED
  BY <1>2, <1>4, <1>5, <1>6, <1>7, <1>8, OneDemand

\* A fill takes its quantity from its side of its symbol, which has it.
LEMMA FillTotal ==
  ASSUME EngineInv, EngineInv',
         NEW price \in FillPrices, NEW qty \in 1 .. MaxOrderQty, Fill(price, qty),
         NEW s \in Symbols, NEW side \in Sides
  PROVE  LET mine == s = parents[current].symbol /\ side = parents[current].side
         IN  /\ Total(s, side)' = Total(s, side) - (IF mine THEN qty ELSE 0)
             /\ mine => qty <= Total(s, side)
<1> DEFINE parent == parents[current]
           new == RecordFill(parent, qty)
           mine == s = parent.symbol /\ side = parent.side
<1>1. DemandsTyped /\ DemandsTyped' /\ TotalsCount
  BY DemandTypes, AfterStep, TotalsAreWorking
<1>2. /\ current \in DOMAIN parents /\ current \in working /\ current \in Ids /\ parent \in Parent
      /\ sending <= parent.released - parent.filled /\ sending \in 0 .. MaxOrderQty
      /\ parent.released <= parent.quantity
  BY <1>1 DEF Fill, EngineInv, TypeOK, OrdersInv, AmountsOrdered, DemandsTyped
<1>3. qty <= sending /\ parents' = [parents EXCEPT ![current] = new] /\ working' = working
  BY DEF Fill
<1>4. /\ qty \in Nat /\ parent.filled \in Nat /\ parent.quantity \in Nat /\ parent.released \in Nat
      /\ qty <= Unfilled(parent)
  <2>1. /\ qty \in Nat /\ parent.filled \in Nat /\ parent.quantity \in Nat
        /\ parent.released \in Nat /\ sending \in Nat
    BY <1>2, Constants DEF Parent
  <2> HIDE DEF parent
  <2> QED BY <2>1, <1>2, <1>3 DEF Unfilled
<1>5. new = [parent EXCEPT !.filled = parent.filled + qty, !.children = new.children]
  BY <1>2 DEF RecordFill, Parent
<1>6. /\ new.symbol = parent.symbol /\ new.side = parent.side
      /\ Unfilled(new) = Unfilled(parent) - qty
  <2> HIDE DEF parent, new
  <2>1. /\ new.symbol = parent.symbol /\ new.side = parent.side
        /\ new.quantity = parent.quantity /\ new.filled = parent.filled + qty
    BY <1>2, <1>5 DEF Parent
  <2> QED BY <2>1, <1>4 DEF Unfilled
<1> HIDE DEF new
<1>7. /\ parents'[current] = new
      /\ \A other \in working \ {current} : parents'[other] = parents[other]
  BY <1>2, <1>3 DEF EngineInv, TypeOK
<1>8. \A other \in Ids \ {current} : Demand(s, side)'[other] = Demand(s, side)[other]
  BY <1>3, <1>7 DEF Demand, Ids, Unfilled
<1>9. /\ Demand(s, side)[current] = IF mine THEN Unfilled(parent) ELSE 0
      /\ Demand(s, side)'[current] = IF mine THEN Unfilled(parent) - qty ELSE 0
  <2>1. Demand(s, side)[current] = IF mine THEN Unfilled(parent) ELSE 0
    BY <1>2 DEF Demand
  <2>2. Demand(s, side)'[current] =
          IF parents'[current].symbol = s /\ parents'[current].side = side
          THEN parents'[current].quantity - parents'[current].filled ELSE 0
    <3>1. current \in Ids' /\ current \in working'
      BY <1>2, <1>3 DEF Ids
    <3> HIDE DEF parent
    <3> QED BY <3>1 DEF Demand, Unfilled
  <2>3. parents'[current].quantity - parents'[current].filled = Unfilled(parent) - qty
    BY <1>6, <1>7 DEF Unfilled
  <2> QED BY <2>1, <2>2, <2>3, <1>6, <1>7
<1>10. Total(s, side)' = Total(s, side) - Demand(s, side)[current] + Demand(s, side)'[current]
  BY <1>2, <1>8, OneDemand
<1>11. mine => Demand(s, side)[current] <= Total(s, side)
  <2> DEFINE f == Demand(s, side)
  <2>1. IsFiniteSet(Ids) /\ \A y \in Ids : f[y] \in Nat
    BY <1>1 DEF DemandsTyped
  <2>2. Total(s, side) = SumFunctionOnSet(f, Ids)
    BY DEF Total
  <2> HIDE DEF f
  <2>3. f[current] <= SumFunctionOnSet(f, Ids)
    BY <2>1, <1>2, SumOfNaturals
  <2> QED BY <2>2, <2>3 DEF f
<1>12. Total(s, side) \in Nat /\ Unfilled(parent) \in Nat
  BY <1>1, <1>2 DEF TotalsCount, DemandsTyped
<1> HIDE DEF mine
<1>13. Total(s, side)' = Total(s, side) - (IF mine THEN qty ELSE 0)
  BY <1>4, <1>9, <1>10, <1>12
<1>14. mine => qty <= Total(s, side)
  BY <1>4, <1>9, <1>11, <1>12
<1> QED
  BY <1>13, <1>14 DEF mine, parent

\* Steps that leave what the working orders want and have leave the totals.
LEMMA SameTotal ==
  ASSUME working' = working,
         \A id \in working : /\ parents'[id].symbol = parents[id].symbol
                             /\ parents'[id].side = parents[id].side
                             /\ parents'[id].quantity = parents[id].quantity
                             /\ parents'[id].filled = parents[id].filled,
         NEW s, NEW side
  PROVE  Total(s, side)' = Total(s, side)
<1>1. Demand(s, side)' = Demand(s, side)
  BY DEF Demand, Ids, Unfilled
<1> QED
  BY <1>1 DEF Total, Ids

\* Retiring orders only lowers the totals.
LEMMA RetiredTotal ==
  ASSUME EngineInv, EngineInv', working' \subseteq working,
         \A id \in working' : parents'[id] = parents[id],
         NEW s \in Symbols, NEW side \in Sides
  PROVE  Total(s, side)' <= Total(s, side)
<1> DEFINE f == Demand(s, side)
           g == Demand(s, side)'
<1>1. DemandsTyped /\ DemandsTyped'
  BY DemandTypes, AfterStep
<1>2. IsFiniteSet(Ids) /\ (\A y \in Ids : f[y] \in Nat) /\ \A y \in Ids : g[y] \in Nat
  <2>1. \A y \in Ids : f[y] \in Nat
    BY <1>1 DEF DemandsTyped
  <2>2. \A y \in Ids : g[y] \in Nat
    BY <1>1 DEF DemandsTyped, Ids
  <2> QED BY <2>1, <2>2, <1>1 DEF DemandsTyped
<1>3. ASSUME NEW id \in Ids PROVE g[id] <= f[id]
  <2>1. CASE id \in working'
    <3>1. g[id] = f[id]
      BY <2>1 DEF Demand, Ids, Unfilled
    <3> QED BY <3>1, <1>2
  <2>2. CASE id \notin working'
    <3>1. g[id] = 0
      BY <2>2 DEF Demand, Ids
    <3> QED BY <3>1, <1>2
  <2> QED BY <2>1, <2>2
<1>4. Total(s, side) = SumFunctionOnSet(f, Ids) /\ Total(s, side)' = SumFunctionOnSet(g, Ids)
  BY DEF Total, Ids
<1> HIDE DEF f, g
<1>5. \A y \in Ids : g[y] \in Int /\ f[y] \in Int /\ g[y] <= f[y]
  BY <1>2, <1>3
<1> QED
  BY <1>2, <1>4, <1>5, SumMonotone

\* What a step other than a submission or a fill does to the budget.
Quiet == /\ positions' = positions
         /\ \A s \in Symbols : \A side \in Sides : Total(s, side)' <= Total(s, side)

LEMMA QuietSteps ==
  ASSUME EngineInv, EngineInv', [Next]_vars
  PROVE  \/ \E order \in OrderSpecs, t \in Times : Submit(order, t)
         \/ \E price \in FillPrices, qty \in 1 .. MaxOrderQty : Fill(price, qty)
         \/ Quiet
<1>1. TotalsCount /\ working \subseteq DOMAIN parents /\ (pc = "child" => current \in working)
      /\ working' \subseteq DOMAIN parents'
  BY TotalsAreWorking DEF EngineInv, TypeOK
<1>2. ASSUME positions' = positions, working' = working,
             \A id \in working : /\ parents'[id].symbol = parents[id].symbol
                                 /\ parents'[id].side = parents[id].side
                                 /\ parents'[id].quantity = parents[id].quantity
                                 /\ parents'[id].filled = parents[id].filled
      PROVE  Quiet
  <2>1. \A s \in Symbols : \A side \in Sides :
          Total(s, side)' = Total(s, side) /\ Total(s, side) \in Nat
    BY <1>1, <1>2, SameTotal DEF TotalsCount
  <2>2. \A s \in Symbols : \A side \in Sides : Total(s, side)' <= Total(s, side)
    BY <2>1
  <2> QED BY <2>2, <1>2 DEF Quiet
<1>3. ASSUME positions' = positions, working' \subseteq working,
             \A id \in working' : parents'[id] = parents[id]
      PROVE  Quiet
  BY <1>3, RetiredTotal DEF Quiet
<1>4. ASSUME NEW id \in 1 .. MaxParents, Cancel(id)
      PROVE  Quiet
  <2>1. /\ working' = working \ {id} /\ parents' = Evict(CancelAll(parents, {id}), <<id>>)
        /\ positions' = positions
    BY <1>4 DEF Cancel
  <2>2. \A other \in working' : parents'[other] = parents[other]
    <3> SUFFICES ASSUME NEW other \in working' PROVE parents'[other] = parents[other]
      OBVIOUS
    <3>1. other \in DOMAIN parents' /\ other \in DOMAIN parents \ {id}
      BY <1>1, <2>1
    <3>2. parents'[other] = CancelAll(parents, {id})[other]
      BY <2>1, <3>1, EvictLeaves
    <3> QED BY <3>1, <3>2, CancelAllLeaves
  <2> QED BY <2>1, <2>2, <1>3
<1>5. ASSUME NEW t \in Times, TickBegin(t)
      PROVE  Quiet
  <2>1. UNCHANGED <<parents, working, positions>>
    BY <1>5 DEF TickBegin, core
  <2> QED BY <2>1, <1>2
<1>6. CASE ReleaseDue
  <2>1. PICK id \in todo, new \in Parent, qty \in Nat :
          /\ id \in working /\ parents' = [parents EXCEPT ![id] = new]
          /\ new.symbol = parents[id].symbol /\ new.side = parents[id].side
          /\ new.quantity = parents[id].quantity /\ new.filled = parents[id].filled
    BY <1>6, ReleaseShape
  <2>2. UNCHANGED <<working, positions>>
    BY <1>6 DEF ReleaseDue
  <2>3. \A other \in working : /\ parents'[other].symbol = parents[other].symbol
                              /\ parents'[other].side = parents[other].side
                              /\ parents'[other].quantity = parents[other].quantity
                              /\ parents'[other].filled = parents[other].filled
    BY <2>1, <1>1
  <2> QED BY <2>2, <2>3, <1>2
<1>7. ASSUME NEW price \in FillPrices, NEW qty \in 1 .. MaxOrderQty, FillOverflows(price, qty)
      PROVE  Quiet
  <2>1. /\ parents' = [parents EXCEPT ![current] = parents[current]]
        /\ UNCHANGED <<working, positions>>
    BY <1>7 DEF FillOverflows, LostFill
  <2>2. \A id \in working : parents'[id] = parents[id]
    BY <2>1, <1>1
  <2> QED BY <2>1, <2>2, <1>2
<1>8. CASE Settle
  <2>1. /\ parents' = [parents EXCEPT ![current].state = SettledState(parents[current])]
        /\ UNCHANGED <<working, positions>> /\ current \in working
    BY <1>1, <1>8 DEF Settle
  <2>2. \A id \in working : parents[id] \in Parent
    BY <1>1 DEF EngineInv, TypeOK
  <2>3. \A id \in working : /\ parents'[id].symbol = parents[id].symbol
                           /\ parents'[id].side = parents[id].side
                           /\ parents'[id].quantity = parents[id].quantity
                           /\ parents'[id].filled = parents[id].filled
    BY <1>1, <2>1, <2>2 DEF Parent
  <2> QED BY <2>1, <2>3, <1>2
<1>9. CASE TickEnd
  <2>1. /\ working' = working \ Range(done) /\ parents' = Evict(parents, done)
        /\ positions' = positions
    BY <1>9 DEF TickEnd
  <2>2. \A id \in working' : parents'[id] = parents[id]
    BY <1>1, <2>1, EvictLeaves
  <2> QED BY <2>1, <2>2, <1>3
<1>10. CASE TickEndHalt
  <2>1. working' = {} /\ positions' = positions
    BY <1>10 DEF TickEndHalt
  <2> QED BY <2>1, <1>3
<1>11. CASE UNCHANGED vars
  <2>1. UNCHANGED <<parents, working, positions>>
    BY <1>11 DEF vars, core
  <2> QED BY <2>1, <1>2
<1> QED
  BY <1>4, <1>5, <1>6, <1>7, <1>8, <1>9, <1>10, <1>11 DEF Next

\* What a fill does to the position it reaches.
LEMMA FillPosition ==
  ASSUME EngineInv, NEW price \in FillPrices, NEW qty \in 1 .. MaxOrderQty, Fill(price, qty)
  PROVE  LET parent == parents[current]
             symbol == parent.symbol
             dir    == Direction(parent.side)
         IN  /\ symbol \in Symbols /\ parent.side \in Sides /\ dir \in {1, -1} /\ qty \in Nat \ {0}
             /\ positions' = [positions EXCEPT ![symbol] =
                                Filled(positions[symbol], dir, price, qty)]
             /\ Kept(positions[symbol], dir, price, qty, 1, HalfWord)
             /\ positions'[symbol].quantity = positions[symbol].quantity + dir * qty
             /\ reported'.cash = reported.cash - dir * qty * price
<1> DEFINE parent == parents[current]
           symbol == parent.symbol
           dir == Direction(parent.side)
           pos == positions[symbol]
<1>1. TypeOK /\ PositionsInv
  BY DEF EngineInv
<1>2. /\ pc = "child" /\ FillFits(pos, dir, price, qty)
      /\ positions' = [positions EXCEPT ![symbol] = ApplyFill(@, dir, price, qty)]
      /\ reported'.cash = reported.cash - dir * qty * price
  BY DEF Fill
<1>3. parent \in Parent
  BY <1>1, <1>2 DEF TypeOK
<1> HIDE DEF parent
<1>4. symbol \in Symbols /\ parent.side \in Sides
  BY ONLY <1>3 DEF Parent
<1>5. dir \in {1, -1}
  BY DEF Direction
<1> HIDE DEF symbol, dir
<1>6. pos \in Position /\ Within(pos, 1, HalfWord)
  BY <1>1, <1>4 DEF TypeOK, PositionsInv
<1>7. qty \in Nat \ {0} /\ price \in Nat /\ 1 <= price /\ price <= HalfWord /\ HalfWord \in Nat
  BY EngineAssumption, Constants
<1>8. positions' = [positions EXCEPT ![symbol] = Filled(pos, dir, price, qty)]
  BY <1>2 DEF ApplyFill
<1> HIDE DEF pos
<1>9. Kept(pos, dir, price, qty, 1, HalfWord)
  BY <1>2, <1>5, <1>6, <1>7, FillKeeps
<1>10. Filled(pos, dir, price, qty).quantity = pos.quantity + dir * qty
  BY <1>5, <1>6, <1>7, FilledQuantity
<1>11. positions'[symbol].quantity = pos.quantity + dir * qty
  BY <1>1, <1>4, <1>8, <1>10 DEF TypeOK
<1> QED
  BY <1>2, <1>4, <1>5, <1>7, <1>8, <1>9, <1>11 DEF parent, symbol, dir, pos

\* The notional of positions and working orders is an integer.
LEMMA GrossTyped ==
  ASSUME EngineInv
  PROVE  GrossNotional \in Int /\ MaxGross \in Int /\ \A s \in Symbols : Mark[s] \in Nat
<1> DEFINE f == [s \in Symbols |->
                   (Magnitude(positions[s].quantity) + WorkingQty(s, "Buy") + WorkingQty(s, "Sell"))
                     * Mark[s]]
<1>1. IsFiniteSet(Symbols) /\ MaxGross \in Int /\ \A s \in Symbols : Mark[s] \in Nat
  BY EngineAssumption
<1>2. \A s \in Symbols : WorkingQty(s, "Buy") \in Nat /\ WorkingQty(s, "Sell") \in Nat
  <2> SUFFICES ASSUME NEW s \in Symbols, NEW side \in Sides PROVE WorkingQty(s, side) \in Nat
    BY DEF Sides
  <2>1. Total(s, side) \in Nat /\ WorkingQty(s, side) = SaturateU64(Total(s, side))
    BY TotalsAreWorking DEF TotalsCount
  <2> QED BY <2>1, Constants DEF SaturateU64, Smaller
<1>3. \A s \in Symbols : Magnitude(positions[s].quantity) \in Int
  BY DEF EngineInv, TypeOK, Position, I64, Magnitude
<1>4. \A s \in Symbols : f[s] \in Int
  BY <1>1, <1>2, <1>3
<1>5. GrossNotional = SumFunctionOnSet(f, Symbols)
  BY DEF GrossNotional, SumFunction
<1> HIDE DEF f
<1> QED
  BY <1>1, <1>4, <1>5, SumType

\* The limit check counts the position, the working orders and the new one exactly.
LEMMA SubmitChecks ==
  ASSUME EngineInv, RoomInv, NEW order \in OrderSpecs, NEW t \in Times, Submit(order, t)
  PROVE  LET s == order.symbol
         IN  /\ s \in Symbols /\ order.side \in Sides /\ order.quantity \in 1 .. 2 * MaxPosition
             /\ positions' = positions
             /\ IF order.side = "Buy"
                THEN Magnitude(positions[s].quantity + Total(s, "Buy") + order.quantity) <= MaxPosition
                ELSE Magnitude(positions[s].quantity - Total(s, "Sell") - order.quantity) <= MaxPosition
             /\ GrossNotional + order.quantity * Mark[s] <= MaxGross
<1> DEFINE s == order.symbol
           q == positions[s].quantity
           b == Total(s, "Buy")
           c == Total(s, "Sell")
           n == order.quantity
<1>1. /\ s \in Symbols /\ order.side \in Sides /\ n \in 1 .. MaxOrderQty
      /\ ~(Magnitude(WorstCase(order)) > MaxPosition)
      /\ ~(GrossNotional + n * Mark[s] > MaxGross)
      /\ positions' = positions
  <2>1. RejectReason(order, t) = "None" /\ positions' = positions
    BY DEF Submit
  <2>2. s \in Symbols /\ order.side \in Sides /\ n \in 1 .. MaxOrderQty
    BY <2>1, AcceptedFacts
  <2>3. /\ ~(Magnitude(WorstCase(order)) > MaxPosition)
        /\ ~(GrossNotional + n * Mark[s] > MaxGross)
    BY <2>1 DEF RejectReason
  <2> QED BY <2>1, <2>2, <2>3
<1>2. /\ WorkingQty(s, "Buy") = b /\ WorkingQty(s, "Sell") = c
      /\ b \in 0 .. 2 * MaxPosition /\ c \in 0 .. 2 * MaxPosition /\ q \in -MaxPosition .. MaxPosition
  BY <1>1, NothingSaturates DEF RoomCounts, Sides
<1>3. MaxPosition \in Nat /\ MaxOrderQty \in Nat
  BY EngineAssumption, Constants
<1>4. WorstCase(order) = q + Direction(order.side) * (WorkingQty(s, order.side) + n)
  BY DEF WorstCase
<1>5. Mark[s] \in Nat /\ MaxGross \in Nat
  BY <1>1, EngineAssumption
<1> HIDE DEF s, q, b, c, n
<1>6. CASE order.side = "Buy"
  <2>1. WorstCase(order) = q + b + n
    BY <1>1, <1>2, <1>3, <1>4, <1>6 DEF Direction
  <2>2. Magnitude(q + b + n) <= MaxPosition /\ n <= 2 * MaxPosition
    BY <1>1, <1>2, <1>3, <2>1 DEF Magnitude
  <2> QED BY <2>2, <1>1, <1>3, <1>6, GrossTyped DEF s, q, b, c, n
<1>7. CASE order.side = "Sell"
  <2>1. WorstCase(order) = q - c - n
    BY <1>1, <1>2, <1>3, <1>4, <1>7 DEF Direction
  <2>2. Magnitude(q - c - n) <= MaxPosition /\ n <= 2 * MaxPosition
    BY <1>1, <1>2, <1>3, <2>1 DEF Magnitude
  <2> QED BY <2>2, <1>1, <1>3, <1>7, GrossTyped DEF s, q, b, c, n
<1> QED
  BY <1>1, <1>6, <1>7 DEF Sides

LEMMA InitRoom == Init => RoomInv
<1> SUFFICES ASSUME Init, NEW s \in Symbols
             PROVE  /\ positions[s].quantity + Total(s, "Buy")  <= MaxPosition
                    /\ positions[s].quantity - Total(s, "Sell") >= -MaxPosition
  BY DEF RoomInv
<1>1. TotalsCount
  BY InitEngine, TotalsAreWorking
<1>2. ASSUME NEW side \in Sides PROVE Total(s, side) = 0
  <2> DEFINE f == Demand(s, side)
  <2>1. IsFiniteSet(Ids) /\ \A id \in Ids : f[id] = 0 /\ f[id] \in Nat
    BY Constants, FS_Interval DEF Ids, Demand, Init
  <2>2. Total(s, side) = SumFunctionOnSet(f, Ids)
    BY DEF Total
  <2> HIDE DEF f
  <2> QED BY <2>1, <2>2, SumOfNaturals
<1>3. positions[s].quantity = 0 /\ MaxPosition \in Nat
  BY EngineAssumption, Constants DEF Init, Flat
<1> QED
  BY <1>2, <1>3 DEF Sides

LEMMA NextRoom == EngineInv /\ EngineInv' /\ RoomInv /\ [Next]_vars => RoomInv'
<1> SUFFICES ASSUME EngineInv, EngineInv', RoomInv, [Next]_vars, NEW s \in Symbols
             PROVE  /\ positions'[s].quantity + Total(s, "Buy")'  <= MaxPosition
                    /\ positions'[s].quantity - Total(s, "Sell")' >= -MaxPosition
  BY DEF RoomInv
<1> DEFINE q == positions[s].quantity
           b == Total(s, "Buy")
           c == Total(s, "Sell")
           q2 == positions'[s].quantity
           b2 == Total(s, "Buy")'
           c2 == Total(s, "Sell")'
<1>1. /\ q \in Int /\ b \in Nat /\ c \in Nat /\ MaxPosition \in Nat
      /\ q + b <= MaxPosition /\ q - c >= -MaxPosition
      /\ q2 \in Int /\ b2 \in Nat /\ c2 \in Nat
  <2>1. RoomCounts /\ TotalsCount'
    BY NothingSaturates, AfterStep
  <2>2. b \in Nat /\ c \in Nat /\ q \in Int /\ MaxPosition \in Nat
    BY <2>1, EngineAssumption, Constants DEF RoomCounts, Sides
  <2>3. b2 \in Nat /\ c2 \in Nat
    BY <2>1 DEF TotalsCount, Sides
  <2>4. q2 \in Int
    BY DEF EngineInv, TypeOK, Position, I64
  <2> QED BY <2>2, <2>3, <2>4 DEF RoomInv
<1>2. ASSUME NEW order \in OrderSpecs, NEW t \in Times, Submit(order, t)
      PROVE  q2 + b2 <= MaxPosition /\ q2 - c2 >= -MaxPosition
  <2> DEFINE n == order.quantity
  <2>1. /\ order.side \in Sides /\ positions' = positions /\ n \in Nat
        /\ s = order.symbol =>
             IF order.side = "Buy" THEN Magnitude(q + b + n) <= MaxPosition
             ELSE Magnitude(q - c - n) <= MaxPosition
    BY <1>2, SubmitChecks, EngineAssumption
  <2>2. /\ b2 = b + (IF s = order.symbol /\ "Buy" = order.side THEN n ELSE 0)
        /\ c2 = c + (IF s = order.symbol /\ "Sell" = order.side THEN n ELSE 0)
    BY <1>2, SubmitTotal DEF Sides
  <2>3. q2 = q
    BY <2>1
  <2> HIDE DEF q, b, c, q2, b2, c2, n
  <2> QED BY <1>1, <2>1, <2>2, <2>3 DEF Magnitude, Sides
<1>3. ASSUME NEW price \in FillPrices, NEW qty \in 1 .. MaxOrderQty, Fill(price, qty)
      PROVE  q2 + b2 <= MaxPosition /\ q2 - c2 >= -MaxPosition
  <2> DEFINE symbol == parents[current].symbol
             side == parents[current].side
  <2>1. /\ symbol \in Symbols /\ side \in Sides /\ qty \in Nat
        /\ positions' = [positions EXCEPT ![symbol] =
                           Filled(positions[symbol], Direction(side), price, qty)]
        /\ positions'[symbol].quantity = positions[symbol].quantity + Direction(side) * qty
    BY <1>3, FillPosition
  <2>2. /\ b2 = b - (IF s = symbol /\ "Buy" = side THEN qty ELSE 0)
        /\ c2 = c - (IF s = symbol /\ "Sell" = side THEN qty ELSE 0)
    BY <1>3, FillTotal DEF Sides
  <2> HIDE DEF symbol, side
  <2>3. q2 = IF s = symbol THEN q + Direction(side) * qty ELSE q
    BY <2>1
  <2> HIDE DEF q, b, c, q2, b2, c2
  <2> QED BY <1>1, <2>1, <2>2, <2>3 DEF Direction, Sides
<1>4. ASSUME Quiet
      PROVE  q2 + b2 <= MaxPosition /\ q2 - c2 >= -MaxPosition
  <2>1. q2 = q /\ b2 <= b /\ c2 <= c
    BY <1>4 DEF Quiet, Sides
  <2> HIDE DEF q, b, c, q2, b2, c2
  <2> QED BY <1>1, <2>1
<1> QED
  BY <1>2, <1>3, <1>4, QuietSteps

\* risk.rs:83-128: the positions and all that still works leave room on either side and
\* in the gross, whatever is filled, settled or cancelled next.
THEOREM RoomInvariant == Spec => []RoomInv
BY InitRoom, NextRoom, EngineInvariant, PTL DEF Spec

-----------------------------------------------------------------------------
(* The engine implements the budget, step by step *)

Held  == [s \in Symbols |-> positions[s].quantity]
Asked(side) == [s \in Symbols |-> WorkingQty(s, side)]

\* The budget's sum is the engine's.
LEMMA SameSum == \A f : Budget!SumFunction(f) = SumFunction(f)
BY DEF Budget!SumFunction, SumFunction, Budget!SumFunctionOnSet, SumFunctionOnSet,
       Budget!FoldFunctionOnSet, FoldFunctionOnSet, Budget!MapThenFoldSet, MapThenFoldSet

LEMMA SameGross == Budget!Gross = GrossNotional
<1> DEFINE f == [s \in Symbols |->
                   (Magnitude(positions[s].quantity) + WorkingQty(s, "Buy") + WorkingQty(s, "Sell"))
                     * Mark[s]]
           g == [s \in Symbols |->
                   (Budget!Size(Held[s]) + Asked("Buy")[s] + Asked("Sell")[s]) * Mark[s]]
<1>1. f = g
  <2>1. ASSUME NEW s \in Symbols
        PROVE  Held[s] = positions[s].quantity /\ \A side : Asked(side)[s] = WorkingQty(s, side)
    BY DEF Held, Asked
  <2>2. \A n : Budget!Size(n) = Magnitude(n)
    BY DEF Budget!Size, Magnitude
  <2> QED BY <2>1, <2>2
<1>2. GrossNotional = SumFunction(f)
  BY DEF GrossNotional
<1>3. Budget!Gross = Budget!SumFunction(g)
  BY DEF Budget!Gross, Held, Asked
<1> HIDE DEF f, g
<1> QED BY <1>1, <1>2, <1>3, SameSum

LEMMA Updated ==
  ASSUME NEW S, NEW f \in [S -> Int], NEW g \in [S -> Int], NEW x \in S,
         \A y \in S : y # x => g[y] = f[y]
  PROVE  g = [f EXCEPT ![x] = g[x]]
OBVIOUS

LEMMA MappedState ==
  ASSUME EngineInv, EngineInv', RoomInv, RoomInv', NEW side \in Sides
  PROVE  /\ Held \in [Symbols -> Int] /\ Held' \in [Symbols -> Int]
         /\ Asked(side) \in [Symbols -> Int] /\ Asked(side)' \in [Symbols -> Int]
         /\ \A s \in Symbols :
              /\ Held[s] = positions[s].quantity /\ Held'[s] = positions'[s].quantity
              /\ Asked(side)[s] = WorkingQty(s, side) /\ Asked(side)'[s] = WorkingQty(s, side)'
<1>1. RoomCounts /\ RoomCounts'
  BY NothingSaturates, AfterStep
<1>2. \A s \in Symbols : WorkingQty(s, side) \in Int /\ positions[s].quantity \in Int
  BY <1>1, EngineAssumption, Constants DEF RoomCounts
<1>3. \A s \in Symbols : WorkingQty(s, side)' \in Int /\ positions'[s].quantity \in Int
  BY <1>1, EngineAssumption, Constants DEF RoomCounts
<1>4. Held \in [Symbols -> Int] /\ Asked(side) \in [Symbols -> Int]
  BY <1>2 DEF Held, Asked
<1>5. Held' \in [Symbols -> Int] /\ Asked(side)' \in [Symbols -> Int]
  BY <1>3 DEF Held, Asked
<1> QED
  BY <1>4, <1>5 DEF Held, Asked

LEMMA InitBudgetMapped == Init => Budget!BudgetInit
<1> SUFFICES ASSUME Init PROVE Budget!BudgetInit
  OBVIOUS
<1>1. EngineInv /\ RoomInv
  BY InitEngine, InitRoom
<1>2. ASSUME NEW s \in Symbols, NEW side \in Sides
      PROVE  positions[s].quantity = 0 /\ WorkingQty(s, side) = 0
  <2>1. WorkingQty(s, side) = Total(s, side)
    BY <1>1, NothingSaturates DEF RoomCounts
  <2> DEFINE f == Demand(s, side)
  <2>2. IsFiniteSet(Ids) /\ \A id \in Ids : f[id] = 0 /\ f[id] \in Nat
    BY Constants, FS_Interval DEF Ids, Demand, Init
  <2>3. Total(s, side) = SumFunctionOnSet(f, Ids)
    BY DEF Total
  <2> HIDE DEF f
  <2>4. Total(s, side) = 0
    BY <2>2, <2>3, SumOfNaturals
  <2> QED BY <2>1, <2>4 DEF Init, Flat
<1> QED
  BY <1>2 DEF Budget!BudgetInit, Sides

LEMMA SubmitAdmits ==
  ASSUME EngineInv, EngineInv', RoomInv, RoomInv',
         NEW order \in OrderSpecs, NEW t \in Times, Submit(order, t)
  PROVE  \E s \in Symbols, qty \in 1 .. 2 * MaxPosition :
           Budget!AdmitBuy(s, qty) \/ Budget!AdmitSell(s, qty)
<1> DEFINE s == order.symbol
           n == order.quantity
<1>1. /\ s \in Symbols /\ order.side \in Sides /\ n \in 1 .. 2 * MaxPosition
      /\ positions' = positions
      /\ IF order.side = "Buy"
         THEN Magnitude(positions[s].quantity + Total(s, "Buy") + n) <= MaxPosition
         ELSE Magnitude(positions[s].quantity - Total(s, "Sell") - n) <= MaxPosition
      /\ GrossNotional + n * Mark[s] <= MaxGross
  BY SubmitChecks
<1>2. RoomCounts /\ RoomCounts'
  BY NothingSaturates, AfterStep
<1>3. ASSUME NEW other \in Symbols, NEW side \in Sides
      PROVE  /\ WorkingQty(other, side) = Total(other, side) /\ Total(other, side) \in Int
             /\ WorkingQty(other, side)' = WorkingQty(other, side) +
                  (IF other = s /\ side = order.side THEN n ELSE 0)
  <2>1. WorkingQty(other, side) = Total(other, side) /\ Total(other, side) \in Int
    BY <1>2 DEF RoomCounts
  <2>2. WorkingQty(other, side)' = Total(other, side)'
    BY <1>2 DEF RoomCounts
  <2> QED BY <2>1, <2>2, SubmitTotal
<1>4. Budget!GrossAllows(s, n)
  BY <1>1, SameGross DEF Budget!GrossAllows
<1> HIDE DEF s, n
<1>5. /\ \A side \in Sides : \A other \in Symbols :
           Asked(side)[other] = WorkingQty(other, side) /\ Asked(side)'[other] = WorkingQty(other, side)'
      /\ \A other \in Symbols : Held[other] = positions[other].quantity
      /\ \A side \in Sides : Asked(side) \in [Symbols -> Int] /\ Asked(side)' \in [Symbols -> Int]
  BY <1>1, MappedState
<1>6. /\ Held' = Held
      /\ Asked(order.side)' = [Asked(order.side) EXCEPT ![s] = Asked(order.side)[s] + n]
      /\ \A side \in Sides : side # order.side => Asked(side)' = Asked(side)
  <2>1. Held' = Held
    BY <1>1 DEF Held
  <2>2. ASSUME NEW side \in Sides, NEW other \in Symbols, other # s \/ side # order.side
        PROVE  Asked(side)'[other] = Asked(side)[other]
    BY <2>2, <1>3, <1>5
  <2>3. Asked(order.side)' = [Asked(order.side) EXCEPT ![s] = Asked(order.side)'[s]]
    BY <2>2, <1>1, <1>5, Updated
  <2>4. Asked(order.side)'[s] = Asked(order.side)[s] + n
    BY <1>1, <1>3, <1>5
  <2>5. ASSUME NEW side \in Sides, side # order.side PROVE Asked(side)' = Asked(side)
    BY <2>2, <2>5, <1>5
  <2> QED BY <2>1, <2>3, <2>4, <2>5
<1>7. /\ \A side \in Sides : Asked(side)[s] = Total(s, side)
      /\ Held[s] = positions[s].quantity
  BY <1>1, <1>3, <1>5
<1>8. CASE order.side = "Buy"
  <2>1. /\ Asked("Buy")' = [Asked("Buy") EXCEPT ![s] = Asked("Buy")[s] + n]
        /\ Asked("Sell")' = Asked("Sell") /\ Held' = Held
    BY <1>6, <1>8 DEF Sides
  <2>2. Magnitude(Held[s] + Asked("Buy")[s] + n) <= MaxPosition
    BY <1>1, <1>7, <1>8 DEF Sides
  <2>3. Budget!PositionAllows(s, Budget!LongCase(s, n))
    BY <2>2 DEF Budget!PositionAllows, Budget!LongCase, Budget!Size, Magnitude, Held, Asked
  <2>4. Budget!AdmitBuy(s, n)
    BY <2>1, <2>3, <1>4 DEF Budget!AdmitBuy, Asked, Held
  <2> QED BY <2>4, <1>1
<1>9. CASE order.side = "Sell"
  <2>1. /\ Asked("Sell")' = [Asked("Sell") EXCEPT ![s] = Asked("Sell")[s] + n]
        /\ Asked("Buy")' = Asked("Buy") /\ Held' = Held
    BY <1>6, <1>9 DEF Sides
  <2>2. Magnitude(Held[s] - Asked("Sell")[s] - n) <= MaxPosition
    BY <1>1, <1>7, <1>9 DEF Sides
  <2>3. Budget!PositionAllows(s, Budget!ShortCase(s, n))
    BY <2>2 DEF Budget!PositionAllows, Budget!ShortCase, Budget!Size, Magnitude, Held, Asked
  <2>4. Budget!AdmitSell(s, n)
    BY <2>1, <2>3, <1>4 DEF Budget!AdmitSell, Asked, Held
  <2> QED BY <2>4, <1>1
<1> QED
  BY <1>1, <1>8, <1>9 DEF Sides

LEMMA FillTrades ==
  ASSUME EngineInv, EngineInv', RoomInv, RoomInv',
         NEW price \in FillPrices, NEW qty \in 1 .. MaxOrderQty, Fill(price, qty)
  PROVE  \E s \in Symbols, n \in 1 .. 2 * MaxPosition : Budget!Buy(s, n) \/ Budget!Sell(s, n)
<1>s. PICK s, mine : s = parents[current].symbol /\ mine = parents[current].side
  OBVIOUS
<1>1. /\ s \in Symbols /\ mine \in Sides /\ qty \in Nat \ {0}
      /\ positions' = [positions EXCEPT ![s] = Filled(positions[s], Direction(mine), price, qty)]
      /\ positions'[s].quantity = positions[s].quantity + Direction(mine) * qty
  BY <1>s, FillPosition
<1>2. RoomCounts /\ RoomCounts'
  BY NothingSaturates, AfterStep
<1>3. ASSUME NEW other \in Symbols, NEW side \in Sides
      PROVE  /\ WorkingQty(other, side) = Total(other, side)
             /\ Total(other, side) \in 0 .. 2 * MaxPosition
             /\ WorkingQty(other, side)' = WorkingQty(other, side) -
                  (IF other = s /\ side = mine THEN qty ELSE 0)
             /\ other = s /\ side = mine => qty <= WorkingQty(other, side)
  <2>1. WorkingQty(other, side) = Total(other, side) /\ Total(other, side) \in 0 .. 2 * MaxPosition
    BY <1>2 DEF RoomCounts
  <2>2. WorkingQty(other, side)' = Total(other, side)'
    BY <1>2 DEF RoomCounts
  <2> QED BY <2>1, <2>2, <1>s, FillTotal
<1>4. qty \in 1 .. 2 * MaxPosition
  <2>1. qty <= Total(s, mine) /\ Total(s, mine) \in 0 .. 2 * MaxPosition /\ MaxPosition \in Nat
    BY <1>1, <1>3, EngineAssumption, Constants
  <2> QED BY <2>1, <1>1
<1>5. /\ \A side \in Sides : \A other \in Symbols :
           Asked(side)[other] = WorkingQty(other, side) /\ Asked(side)'[other] = WorkingQty(other, side)'
      /\ \A other \in Symbols :
           Held[other] = positions[other].quantity /\ Held'[other] = positions'[other].quantity
      /\ Held \in [Symbols -> Int] /\ Held' \in [Symbols -> Int]
      /\ \A side \in Sides : Asked(side) \in [Symbols -> Int] /\ Asked(side)' \in [Symbols -> Int]
  BY <1>1, MappedState
<1>6. /\ Held' = [Held EXCEPT ![s] = Held'[s]] /\ Held'[s] = Held[s] + Direction(mine) * qty
      /\ Asked(mine)' = [Asked(mine) EXCEPT ![s] = Asked(mine)'[s]]
      /\ Asked(mine)'[s] = Asked(mine)[s] - qty /\ qty <= Asked(mine)[s]
      /\ \A side \in Sides : side # mine => Asked(side)' = Asked(side)
  <2>1. \A other \in Symbols : other # s => Held'[other] = Held[other]
    BY <1>1, <1>5 DEF EngineInv, TypeOK
  <2>2. Held' = [Held EXCEPT ![s] = Held'[s]]
    BY <2>1, <1>1, <1>5, Updated
  <2>3. \A other \in Symbols : other # s => Asked(mine)'[other] = Asked(mine)[other]
    BY <1>1, <1>3, <1>5
  <2>4. Asked(mine)' = [Asked(mine) EXCEPT ![s] = Asked(mine)'[s]]
    BY <2>3, <1>1, <1>5, Updated
  <2>5. ASSUME NEW side \in Sides, side # mine PROVE Asked(side)' = Asked(side)
    <3>1. \A other \in Symbols : Asked(side)'[other] = Asked(side)[other]
      BY <2>5, <1>3, <1>5
    <3> QED BY <3>1, <1>5
  <2>6. Asked(mine)'[s] = Asked(mine)[s] - qty /\ qty <= Asked(mine)[s]
    BY <1>1, <1>3, <1>5
  <2> QED BY <2>2, <2>4, <2>5, <2>6, <1>1, <1>5
<1>7. CASE mine = "Buy"
  <2>1. /\ Held' = [Held EXCEPT ![s] = Held[s] + qty]
        /\ Asked("Buy")' = [Asked("Buy") EXCEPT ![s] = Asked("Buy")[s] - qty]
        /\ Asked("Sell")' = Asked("Sell") /\ qty <= Asked("Buy")[s]
    <3>1. Held[s] + Direction(mine) * qty = Held[s] + qty
      BY <1>1, <1>5, <1>7 DEF Direction
    <3> QED BY <3>1, <1>6, <1>7 DEF Sides
  <2>2. Budget!Buy(s, qty)
    BY <2>1 DEF Budget!Buy, Budget!Fits, Asked, Held
  <2> QED BY <2>2, <1>1, <1>4
<1>8. CASE mine = "Sell"
  <2>1. /\ Held' = [Held EXCEPT ![s] = Held[s] - qty]
        /\ Asked("Sell")' = [Asked("Sell") EXCEPT ![s] = Asked("Sell")[s] - qty]
        /\ Asked("Buy")' = Asked("Buy") /\ qty <= Asked("Sell")[s]
    <3>1. Held[s] + Direction(mine) * qty = Held[s] - qty
      BY <1>1, <1>5, <1>8 DEF Direction
    <3> QED BY <3>1, <1>6, <1>8 DEF Sides
  <2>2. Budget!Sell(s, qty)
    BY <2>1 DEF Budget!Sell, Budget!Fits, Asked, Held
  <2> QED BY <2>2, <1>1, <1>4
<1> QED
  BY <1>1, <1>7, <1>8 DEF Sides

LEMMA QuietWithdraws ==
  ASSUME EngineInv, EngineInv', RoomInv, RoomInv', Quiet
  PROVE  Budget!Withdraw
<1>1. RoomCounts /\ RoomCounts'
  BY NothingSaturates, AfterStep
<1>2. ASSUME NEW s \in Symbols, NEW side \in Sides
      PROVE  /\ WorkingQty(s, side)' \in 0 .. 2 * MaxPosition
             /\ WorkingQty(s, side)' <= WorkingQty(s, side)
  <2>1. WorkingQty(s, side) = Total(s, side)
    BY <1>1 DEF RoomCounts
  <2>2. WorkingQty(s, side)' = Total(s, side)' /\ Total(s, side)' \in 0 .. 2 * MaxPosition
    BY <1>1 DEF RoomCounts
  <2> QED BY <2>1, <2>2 DEF Quiet
<1>3. Held' = Held
  BY DEF Quiet, Held
<1>4. Asked("Buy")' \in [Symbols -> 0 .. 2 * MaxPosition]
      /\ Asked("Sell")' \in [Symbols -> 0 .. 2 * MaxPosition]
  BY <1>2 DEF Asked, Sides
<1>5. \A s \in Symbols : /\ Asked("Buy")'[s] <= Asked("Buy")[s]
                        /\ Asked("Sell")'[s] <= Asked("Sell")[s]
  BY <1>2 DEF Asked, Sides
<1> QED
  BY <1>3, <1>4, <1>5 DEF Budget!Withdraw, Asked, Held

LEMMA StepIsBudgetStep ==
  EngineInv /\ EngineInv' /\ RoomInv /\ RoomInv' /\ [Next]_vars => Budget!BudgetNext
BY QuietSteps, SubmitAdmits, FillTrades, QuietWithdraws DEF Budget!BudgetNext

\* risk.rs:15-26: for every set of symbols, orders and limits, each step of the engine
\* is a step of the risk budget: the position and the gross limit hold of what the
\* engine does, with fills, evictions, accounting failures and halts in any order.
THEOREM EngineKeepsBudget == Spec => ImplementsRiskBudget
<1>1. Budget!BudgetNext => [Budget!BudgetNext]_(Budget!budgetVars)
  OBVIOUS
<1> QED
  BY <1>1, InitBudgetMapped, StepIsBudgetStep, EngineInvariant, RoomInvariant, PTL
     DEF Spec, ImplementsRiskBudget, Budget!BudgetSpec

LEMMA ProvedSum == \A f : Proved!SumFunction(f) = Budget!SumFunction(f)
BY DEF Budget!SumFunction, Proved!SumFunction, Budget!SumFunctionOnSet, Proved!SumFunctionOnSet,
       Budget!FoldFunctionOnSet, Proved!FoldFunctionOnSet, Budget!MapThenFoldSet, Proved!MapThenFoldSet

LEMMA ProvedGross == Proved!Gross = Budget!Gross
<1>1. \A n : Proved!Size(n) = Budget!Size(n)
  BY DEF Proved!Size, Budget!Size
<1> QED
  BY <1>1, ProvedSum DEF Proved!Gross, Budget!Gross

LEMMA ProvedSpec == Budget!BudgetSpec => Proved!BudgetSpec
<1>1. Budget!BudgetInit => Proved!BudgetInit
  BY DEF Budget!BudgetInit, Proved!BudgetInit
<1>2. /\ \A n : Proved!Size(n) = Budget!Size(n)
      /\ \A s, qty : Budget!GrossAllows(s, qty) <=> Proved!GrossAllows(s, qty)
  BY ProvedGross DEF Proved!Size, Budget!Size, Proved!GrossAllows, Budget!GrossAllows
<1>3. \A s, n : Budget!PositionAllows(s, n) <=> Proved!PositionAllows(s, n)
  BY <1>2 DEF Proved!PositionAllows, Budget!PositionAllows
<1>4. ASSUME NEW s \in Symbols, NEW qty \in 1 .. 2 * MaxPosition,
             \/ Budget!AdmitBuy(s, qty) \/ Budget!AdmitSell(s, qty)
             \/ Budget!Buy(s, qty) \/ Budget!Sell(s, qty)
      PROVE  Proved!BudgetNext
  <2>1. CASE Budget!AdmitBuy(s, qty)
    <3>1. Proved!AdmitBuy(s, qty)
      BY <2>1, <1>2, <1>3 DEF Proved!AdmitBuy, Budget!AdmitBuy, Proved!LongCase, Budget!LongCase
    <3> QED BY <3>1 DEF Proved!BudgetNext
  <2>2. CASE Budget!AdmitSell(s, qty)
    <3>1. Proved!AdmitSell(s, qty)
      BY <2>2, <1>2, <1>3 DEF Proved!AdmitSell, Budget!AdmitSell, Proved!ShortCase, Budget!ShortCase
    <3> QED BY <3>1 DEF Proved!BudgetNext
  <2>3. CASE Budget!Buy(s, qty)
    <3>1. Proved!Buy(s, qty)
      BY <2>3 DEF Proved!Buy, Budget!Buy, Proved!Fits, Budget!Fits
    <3> QED BY <3>1 DEF Proved!BudgetNext
  <2>4. CASE Budget!Sell(s, qty)
    <3>1. Proved!Sell(s, qty)
      BY <2>4 DEF Proved!Sell, Budget!Sell, Proved!Fits, Budget!Fits
    <3> QED BY <3>1 DEF Proved!BudgetNext
  <2> QED BY <1>4, <2>1, <2>2, <2>3, <2>4
<1>5. Budget!Withdraw => Proved!BudgetNext
  BY DEF Budget!Withdraw, Proved!Withdraw, Proved!BudgetNext
<1>6. Budget!BudgetNext => Proved!BudgetNext
  BY <1>4, <1>5 DEF Budget!BudgetNext
<1>7. UNCHANGED Budget!budgetVars => UNCHANGED Proved!budgetVars
  BY DEF Budget!budgetVars, Proved!budgetVars
<1>8. [Budget!BudgetNext]_(Budget!budgetVars) => [Proved!BudgetNext]_(Proved!budgetVars)
  BY <1>6, <1>7
<1> QED
  BY <1>1, <1>8, PTL DEF Budget!BudgetSpec, Proved!BudgetSpec

\* Positions, and positions with everything that still works, at the mark.
WithinLimits ==
  /\ \A s \in Symbols : Magnitude(positions[s].quantity) <= MaxPosition
  /\ GrossNotional <= MaxGross

\* risk.rs:15-26: whatever fills arrive and whichever orders end unfilled, no position
\* and no gross exposure of the engine is ever beyond its limit.
THEOREM EngineWithinLimits == Spec => []WithinLimits
<1>1. Proved!BudgetAssumption
  <2>1. \A S : Proved!IsFiniteSet(S) <=> IsFiniteSet(S)
    BY DEF Proved!IsFiniteSet, IsFiniteSet
  <2> QED BY <2>1, EngineAssumption, Constants DEF Proved!BudgetAssumption
<1>2. Proved!BudgetSpec => []Proved!GrossWithinLimit
  BY <1>1, WidthAssumption, Proved!GrossLimitHolds
<1>3. Proved!BudgetSpec => []Proved!PositionWithinLimit
  BY <1>1, WidthAssumption, Proved!PositionLimitHolds
<1>4. Proved!GrossWithinLimit /\ Proved!PositionWithinLimit => WithinLimits
  <2> SUFFICES ASSUME Proved!GrossWithinLimit, Proved!PositionWithinLimit PROVE WithinLimits
    OBVIOUS
  <2>1. GrossNotional <= MaxGross
    BY ProvedGross, SameGross DEF Proved!GrossWithinLimit
  <2>2. \A s \in Symbols : Magnitude(positions[s].quantity) <= MaxPosition
    BY DEF Proved!PositionWithinLimit, Proved!Size, Magnitude
  <2> QED BY <2>1, <2>2 DEF WithinLimits
<1>5. Spec => Proved!BudgetSpec
  BY EngineKeepsBudget, ProvedSpec, PTL DEF ImplementsRiskBudget
<1> QED
  BY <1>2, <1>3, <1>4, <1>5, PTL

-----------------------------------------------------------------------------
(* The loss limit *)

\* The fold of TotalPnl, step by step.
SatTotals(f, S) ==
  CHOOSE g : g = [s \in SUBSET S |-> IF s = {} THEN 0
                                     ELSE SaturateI128(f[First(s)] + g[s \ {First(s)}])]

LEMMA TotalPnlIsFold == TotalPnl = SatTotals([s \in Symbols |-> Pnl(s)], Symbols)[Symbols]
BY DEF TotalPnl, FoldFunctionOnSet, MapThenFoldSet, SatTotals, First

\* When every partial sum fits in an i128, the saturating sum is the sum.
LEMMA SaturatingSumIsExact ==
  ASSUME NEW S, IsFiniteSet(S), NEW f, \A x \in S : f[x] \in Int,
         \A T \in SUBSET S : SumFunctionOnSet(f, T) \in -HalfValue .. HalfValue - 1
  PROVE  SatTotals(f, S)[S] = SumFunctionOnSet(f, S)
<1> DEFINE g == [s \in SUBSET S |-> SumFunctionOnSet(f, s)]
           t == SatTotals(f, S)
           N == {n \in Nat : \A s \in SUBSET S : Cardinality(s) = n => t[s] = g[s]}
<1>0. HalfValue \in Nat /\ \A n \in -HalfValue .. HalfValue - 1 : SaturateI128(n) = n
  BY WidthAssumption DEF SaturateI128, Smaller
<1>1. ASSUME NEW s \in SUBSET S, s # {}
      PROVE  /\ First(s) \in S /\ s \ {First(s)} \in SUBSET S
             /\ g[s] = SaturateI128(f[First(s)] + g[s \ {First(s)}])
  <2>1. First(s) \in s /\ IsFiniteSet(s)
    BY <1>1, FirstIsMember, SubsetSizes
  <2>2. SumFunctionOnSet(f, s) = f[First(s)] + SumFunctionOnSet(f, s \ {First(s)})
    BY <1>1, <2>1, SumFirst
  <2> QED BY <1>0, <2>1, <2>2
<1>2. g[{}] = 0
  BY SumEmpty
<1>3. g = [s \in SUBSET S |-> IF s = {} THEN 0
                              ELSE SaturateI128(f[First(s)] + g[s \ {First(s)}])]
  BY <1>1, <1>2
<1> HIDE DEF g
<1>4. t = [s \in SUBSET S |-> IF s = {} THEN 0
                              ELSE SaturateI128(f[First(s)] + t[s \ {First(s)}])]
  BY <1>3 DEF SatTotals
<1> HIDE DEF t
<1>5. \A s \in SUBSET S : IsFiniteSet(s) /\ Cardinality(s) \in Nat
  BY SubsetSizes
<1>6. 0 \in N
  <2>1. t[{}] = g[{}]
    BY <1>2, <1>4
  <2> QED BY <2>1, SubsetSizes
<1>7. ASSUME NEW n \in N PROVE n + 1 \in N
  <2> SUFFICES ASSUME NEW s \in SUBSET S, Cardinality(s) = n + 1 PROVE t[s] = g[s]
    OBVIOUS
  <2> HIDE DEF N
  <2>0. n \in Nat
    BY <1>7 DEF N
  <2>1. s # {}
    BY <2>0, SubsetSizes
  <2>2. First(s) \in s /\ Cardinality(s \ {First(s)}) = n
    BY <2>0, <2>1, FirstIsMember, SubsetSizes
  <2>3. t[s \ {First(s)}] = g[s \ {First(s)}]
    BY <1>7, <2>2 DEF N
  <2>4. t[s] = SaturateI128(f[First(s)] + t[s \ {First(s)}])
    BY <1>4, <2>1
  <2> QED BY <1>1, <2>1, <2>3, <2>4
<1> HIDE DEF N
<1>8. N = Nat
  BY <1>6, <1>7, SetInduction DEF N
<1>9. t[S] = g[S]
  BY <1>5, <1>8 DEF N
<1> QED BY <1>9 DEF t, g

\* What a position adds to the engine's equity and what is on its books.
Worth(s)  == positions[s].realized_pnl + UnrealizedPnl(positions[s], Mark[s])
OnBooks(s) ==
  Magnitude(positions[s].realized_pnl) + Magnitude(UnrealizedPnl(positions[s], Mark[s]))

\* The profits and losses of all positions, added up as if each were a loss, fit in
\* the i128 that total_pnl saturates at.
BooksFit == SumFunctionOnSet([s \in Symbols |-> OnBooks(s)], Symbols) < HalfValue

\* Then the saturating total is what the positions are worth.
LEMMA TotalPnlIsWorth ==
  ASSUME EngineInv, BooksFit
  PROVE  TotalPnl = SumFunctionOnSet([s \in Symbols |-> Worth(s)], Symbols)
<1> DEFINE f == [s \in Symbols |-> Worth(s)]
           g == [s \in Symbols |-> OnBooks(s)]
           h == [s \in Symbols |-> Pnl(s)]
<1>0. /\ HalfValue \in Nat /\ IsFiniteSet(Symbols)
      /\ \A n \in Int : -HalfValue < n /\ n < HalfValue => SaturateI128(n) = n
  BY WidthAssumption, EngineAssumption DEF SaturateI128, Smaller
<1>1. ASSUME NEW s \in Symbols
      PROVE  /\ f[s] \in Int /\ g[s] \in Nat /\ -g[s] <= f[s] /\ f[s] <= g[s]
             /\ g[s] < HalfValue => h[s] = f[s]
  <2> DEFINE r == positions[s].realized_pnl
             u == UnrealizedPnl(positions[s], Mark[s])
  <2>1. r \in Int
    BY DEF EngineInv, TypeOK, Position, I128
  <2>2. u \in Int
    <3>1. positions[s].quantity \in Int /\ positions[s].cost_basis \in Int /\ Mark[s] \in Int
      BY EngineAssumption DEF EngineInv, TypeOK, Position, I64, I128
    <3> QED BY <3>1 DEF UnrealizedPnl
  <2>3. f[s] = r + u /\ g[s] = Magnitude(r) + Magnitude(u)
        /\ h[s] = SaturateI128(r + SaturateI128(u))
    BY DEF Worth, OnBooks, Pnl
  <2> HIDE DEF r, u, f, g, h
  <2>4. /\ Magnitude(r) \in Nat /\ -Magnitude(r) <= r /\ r <= Magnitude(r)
        /\ Magnitude(u) \in Nat /\ -Magnitude(u) <= u /\ u <= Magnitude(u)
    BY <2>1, <2>2 DEF Magnitude
  <2>5. f[s] \in Int /\ g[s] \in Nat /\ -g[s] <= f[s] /\ f[s] <= g[s]
    BY <2>1, <2>2, <2>3, <2>4
  <2>6. ASSUME g[s] < HalfValue PROVE h[s] = f[s]
    <3>1. SaturateI128(u) = u
      BY <1>0, <2>2, <2>3, <2>4, <2>6
    <3>2. SaturateI128(r + u) = r + u
      <4>1. f[s] \in Int /\ -HalfValue < f[s] /\ f[s] < HalfValue
        BY <1>0, <2>5, <2>6
      <4> QED BY <1>0, <2>3, <4>1
    <3> QED BY <2>3, <3>1, <3>2
  <2> QED BY <2>5, <2>6
<1>2. SumFunctionOnSet(g, Symbols) < HalfValue
  BY DEF BooksFit
<1>3. TotalPnl = SatTotals(h, Symbols)[Symbols]
  BY TotalPnlIsFold
<1> HIDE DEF f, g, h
<1>4. SumFunctionOnSet(g, Symbols) \in Nat /\ \A s \in Symbols : g[s] <= SumFunctionOnSet(g, Symbols)
  BY <1>0, <1>1, SumOfNaturals
<1>5. \A s \in Symbols : h[s] = f[s] /\ h[s] \in Int
  BY <1>0, <1>1, <1>2, <1>4
<1>6. \A s \in Symbols : h[s] \in Int /\ g[s] \in Nat /\ -g[s] <= h[s] /\ h[s] <= g[s]
  BY <1>1, <1>5
<1>7. ASSUME NEW T \in SUBSET Symbols
      PROVE  SumFunctionOnSet(h, T) \in -HalfValue .. HalfValue - 1
  <2>1. /\ SumFunctionOnSet(h, T) \in Int
        /\ -SumFunctionOnSet(g, Symbols) <= SumFunctionOnSet(h, T)
        /\ SumFunctionOnSet(h, T) <= SumFunctionOnSet(g, Symbols)
    BY <1>0, <1>6, SumBounded
  <2> QED BY <1>0, <1>2, <1>4, <2>1
<1>8. SatTotals(h, Symbols)[Symbols] = SumFunctionOnSet(h, Symbols)
  BY <1>0, <1>5, <1>7, SaturatingSumIsExact
<1>9. SumFunctionOnSet(h, Symbols) = SumFunctionOnSet(f, Symbols)
  BY <1>0, <1>5, SumCongruence
<1> QED
  BY <1>3, <1>8, <1>9 DEF f

\* What a position has brought in: its realized profit less what it still cost.
Booked(s) == positions[s].realized_pnl - positions[s].cost_basis

\* The cash of all reported fills is what the books of all positions add up to.
CashInv ==
  /\ reported = [parent |-> reported.parent, symbol |-> reported.symbol, cash |-> reported.cash]
  /\ reported.cash = SumFunctionOnSet([s \in Symbols |-> Booked(s)], Symbols)

\* Between ticks an engine that is not halted was found within its loss limit, by
\* its own saturating total, at the end of the last tick.
LossInv == pc = "idle" /\ ~halted => ~LossLimitBreached

LEMMA InitCash == Init => CashInv
<1> SUFFICES ASSUME Init PROVE CashInv
  OBVIOUS
<1> DEFINE f == [s \in Symbols |-> Booked(s)]
<1>1. IsFiniteSet(Symbols) /\ \A s \in Symbols : f[s] \in Nat /\ f[s] = 0
  BY EngineAssumption DEF Init, Booked, Flat
<1>2. reported = [parent |-> reported.parent, symbol |-> reported.symbol, cash |-> reported.cash]
      /\ reported.cash = 0
  BY DEF Init
<1> HIDE DEF f
<1>3. SumFunctionOnSet(f, Symbols) = 0
  BY <1>1, SumOfNaturals
<1> QED
  BY <1>2, <1>3 DEF CashInv, f

\* Only fills move cash and positions.
LEMMA CashSteps ==
  ASSUME CashInv, [Next]_vars
  PROVE  \/ \E price \in FillPrices, qty \in 1 .. MaxOrderQty : Fill(price, qty)
         \/ /\ positions' = positions
            /\ \E r : reported' = [reported EXCEPT !.parent = r]
<1>1. reported = [reported EXCEPT !.parent = reported.parent]
  BY DEF CashInv
<1>2. ASSUME NEW order \in OrderSpecs, NEW t \in Times, Submit(order, t)
      PROVE  positions' = positions /\ \E r : reported' = [reported EXCEPT !.parent = r]
  BY <1>2 DEF Submit
<1>3. ASSUME NEW id \in 1 .. MaxParents, Cancel(id)
      PROVE  positions' = positions /\ \E r : reported' = [reported EXCEPT !.parent = r]
  BY <1>3 DEF Cancel
<1>4. ASSUME NEW t \in Times, TickBegin(t)
      PROVE  positions' = positions /\ reported' = reported
  BY <1>4 DEF TickBegin, core
<1>5. CASE ReleaseDue
  BY <1>1, <1>5 DEF ReleaseDue
<1>6. ASSUME NEW price \in FillPrices, NEW qty \in 1 .. MaxOrderQty, FillOverflows(price, qty)
      PROVE  positions' = positions /\ reported' = reported
  BY <1>6 DEF FillOverflows
<1>7. CASE Settle
  BY <1>1, <1>7 DEF Settle
<1>8. CASE TickEnd
  BY <1>8 DEF TickEnd
<1>9. CASE TickEndHalt
  BY <1>9 DEF TickEndHalt
<1>10. CASE UNCHANGED vars
  BY <1>1, <1>10 DEF vars, core
<1> QED
  BY <1>1, <1>2, <1>3, <1>4, <1>5, <1>6, <1>7, <1>8, <1>9, <1>10 DEF Next

LEMMA NextCash == EngineInv /\ CashInv /\ [Next]_vars => CashInv'
<1> SUFFICES ASSUME EngineInv, CashInv, [Next]_vars PROVE CashInv'
  OBVIOUS
<1>1. CASE positions' = positions /\ \E r : reported' = [reported EXCEPT !.parent = r]
  <2>1. PICK r : reported' = [reported EXCEPT !.parent = r]
    BY <1>1
  <2>2. reported' = [parent |-> r, symbol |-> reported.symbol, cash |-> reported.cash]
    BY <2>1 DEF CashInv
  <2> QED BY <1>1, <2>2 DEF CashInv, Booked
<1>2. ASSUME NEW price \in FillPrices, NEW qty \in 1 .. MaxOrderQty, Fill(price, qty)
      PROVE  CashInv'
  <2>1. PICK symbol \in Symbols, dir \in {1, -1} :
          /\ positions' = [positions EXCEPT ![symbol] = Filled(positions[symbol], dir, price, qty)]
          /\ Kept(positions[symbol], dir, price, qty, 1, HalfWord)
          /\ reported'.cash = reported.cash - dir * qty * price
    BY <1>2, FillPosition
  <2>2. reported' = [parent |-> reported'.parent, symbol |-> reported'.symbol,
                     cash |-> reported'.cash]
    BY <1>2 DEF Fill
  <2> DEFINE f == [s \in Symbols |-> Booked(s)]
             g == [s \in Symbols |-> Booked(s)']
             new == Filled(positions[symbol], dir, price, qty)
  <2>3. /\ \A s \in Symbols : positions[s] \in Position
        /\ positions' = [positions EXCEPT ![symbol] = new]
        /\ symbol \in DOMAIN positions /\ IsFiniteSet(Symbols)
        /\ price \in Int /\ qty \in Int
    BY <2>1, EngineAssumption, Constants DEF EngineInv, TypeOK
  <2>4. /\ new \in Position
        /\ new.realized_pnl - new.cost_basis
             = positions[symbol].realized_pnl - positions[symbol].cost_basis - dir * price * qty
    BY <2>1 DEF Kept
  <2> HIDE DEF new
  <2>5. positions'[symbol] = new /\ \A s \in Symbols \ {symbol} : positions'[s] = positions[s]
    BY <2>3
  <2>6. \A s \in Symbols : f[s] \in Int
    BY <2>3 DEF Booked, Position, I128
  <2>7. g[symbol] = f[symbol] - dir * price * qty
    BY <2>4, <2>5 DEF Booked
  <2>8. \A s \in Symbols \ {symbol} : f[s] = g[s]
    BY <2>5 DEF Booked
  <2>9. dir * price * qty = dir * qty * price /\ dir * price * qty \in Int
    BY <2>3
  <2>10. reported.cash = SumFunctionOnSet(f, Symbols)
    BY DEF CashInv
  <2> HIDE DEF f, g
  <2>11. \A s \in Symbols : f[s] \in Int /\ g[s] \in Int
    <3>1. g[symbol] \in Int
      BY <2>6, <2>7, <2>9
    <3> QED BY <2>6, <2>8, <3>1
  <2>12. SumFunctionOnSet(g, Symbols) = SumFunctionOnSet(f, Symbols) - f[symbol] + g[symbol]
    BY <2>3, <2>8, <2>11, SumUpdate
  <2>13. SumFunctionOnSet(f, Symbols) \in Int
    BY <2>3, <2>6, SumType
  <2>14. reported'.cash = SumFunctionOnSet(g, Symbols)
    BY <2>1, <2>6, <2>7, <2>9, <2>10, <2>12, <2>13
  <2> QED BY <2>2, <2>14 DEF CashInv, g
<1> QED
  BY <1>1, <1>2, CashSteps

\* executor.rs:235-236: the cash of the reported fills and the books of the positions
\* agree after every fill, whichever closes, opens or crosses a position.
THEOREM CashInvariant == Spec => []CashInv
BY InitCash, NextCash, EngineInvariant, PTL DEF Spec

LEMMA InitLoss == ASSUME MaxLoss > 0 PROVE Init => LossInv
<1> SUFFICES ASSUME Init PROVE ~LossLimitBreached
  BY DEF LossInv
<1> DEFINE f == [s \in Symbols |-> Worth(s)]
           g == [s \in Symbols |-> OnBooks(s)]
<1>1. EngineInv
  BY InitEngine
<1>2. IsFiniteSet(Symbols) /\ MaxLoss \in Nat /\ HalfValue \in Nat \ {0}
  BY EngineAssumption, WidthAssumption
<1>3. \A s \in Symbols : f[s] = 0 /\ f[s] \in Nat /\ g[s] = 0 /\ g[s] \in Nat
  BY EngineAssumption DEF Init, Worth, OnBooks, UnrealizedPnl, Flat, Magnitude
<1> HIDE DEF f, g
<1>4. SumFunctionOnSet(f, Symbols) = 0 /\ SumFunctionOnSet(g, Symbols) = 0
  BY <1>2, <1>3, SumOfNaturals
<1>5. TotalPnl = SumFunctionOnSet(f, Symbols)
  <2>1. BooksFit
    BY <1>2, <1>4 DEF BooksFit, g
  <2> QED BY <1>1, <2>1, TotalPnlIsWorth DEF f
<1> QED
  BY <1>2, <1>4, <1>5 DEF LossLimitBreached

\* The total looks at the positions only.
LEMMA SamePnl ==
  ASSUME positions' = positions
  PROVE  LossLimitBreached' <=> LossLimitBreached
<1> DEFINE f == [s \in Symbols |-> Pnl(s)]
<1>1. TotalPnl' = SatTotals(f, Symbols)'[Symbols]
  <2>1. (TotalPnl = SatTotals(f, Symbols)[Symbols])'
    BY TotalPnlIsFold, PTL
  <2> QED BY <2>1
<1>2. f' = f
  BY DEF Pnl
<1> HIDE DEF f
<1>3. SatTotals(f, Symbols)' = SatTotals(f, Symbols)
  BY <1>2 DEF SatTotals, SaturateI128, Smaller
<1>4. TotalPnl' = TotalPnl
  BY <1>1, <1>3, TotalPnlIsFold DEF f
<1> QED
  BY <1>4 DEF LossLimitBreached

LEMMA NextLoss == EngineInv /\ LossInv /\ [Next]_vars => LossInv'
<1> SUFFICES ASSUME EngineInv, LossInv, [Next]_vars, pc' = "idle", ~halted'
             PROVE  ~LossLimitBreached'
  BY DEF LossInv
<1>1. ASSUME positions' = positions, pc = "idle", halted' = halted
      PROVE  ~LossLimitBreached'
  BY <1>1, SamePnl DEF LossInv
<1>2. ASSUME NEW order \in OrderSpecs, NEW t \in Times, Submit(order, t)
      PROVE  ~LossLimitBreached'
  BY <1>1, <1>2 DEF Submit
<1>3. ASSUME NEW id \in 1 .. MaxParents, Cancel(id)
      PROVE  ~LossLimitBreached'
  BY <1>1, <1>3 DEF Cancel
<1>4. ASSUME NEW t \in Times, TickBegin(t)
      PROVE  FALSE
  BY <1>4 DEF TickBegin
<1>5. CASE ReleaseDue
  BY <1>5 DEF ReleaseDue
<1>6. ASSUME NEW price \in FillPrices, NEW qty \in 1 .. MaxOrderQty,
             Fill(price, qty) \/ FillOverflows(price, qty)
      PROVE  FALSE
  BY <1>6 DEF Fill, FillOverflows
<1>7. CASE Settle
  BY <1>7 DEF Settle
<1>8. CASE TickEnd
  <2>1. ~LossLimitBreached /\ positions' = positions
    BY <1>8 DEF TickEnd
  <2> QED BY <2>1, SamePnl
<1>9. CASE TickEndHalt
  BY <1>9 DEF TickEndHalt
<1>10. CASE UNCHANGED vars
  BY <1>1, <1>10 DEF vars, core, tick
<1> QED
  BY <1>2, <1>3, <1>4, <1>5, <1>6, <1>7, <1>8, <1>9, <1>10 DEF Next

\* executor.rs:330-341: as long as the books fit in their integers, an engine open for
\* trading between ticks has lost less than max_loss, in cash and holdings, and a
\* halted one works no order.
THEOREM LossLimitHolds == ASSUME MaxLoss > 0 PROVE Spec => [](BooksFit => LossGuard)
<1>1. EngineInv /\ CashInv /\ LossInv => (BooksFit => LossGuard)
  <2> SUFFICES ASSUME EngineInv, CashInv, LossInv, BooksFit, pc = "idle"
               PROVE  IF halted THEN working = {} ELSE Equity > -MaxLoss
    BY DEF LossGuard
  <2>1. CASE halted
    BY <2>1 DEF EngineInv, TickInv
  <2>2. CASE ~halted
    <3> DEFINE b == [s \in Symbols |-> Booked(s)]
               m == [s \in Symbols |-> positions[s].quantity * Mark[s]]
               w == [s \in Symbols |-> Worth(s)]
    <3>1. /\ IsFiniteSet(Symbols)
          /\ \A s \in Symbols : /\ positions[s].realized_pnl \in Int /\ Mark[s] \in Int
                                /\ positions[s].cost_basis \in Int /\ positions[s].quantity \in Int
      BY EngineAssumption DEF EngineInv, TypeOK, Position, I64, I128
    <3>2. ASSUME NEW s \in Symbols
          PROVE  b[s] \in Int /\ m[s] \in Int /\ w[s] = b[s] + m[s]
      BY <3>1 DEF Booked, Worth, UnrealizedPnl
    <3>3. Equity = reported.cash + SumFunctionOnSet(m, Symbols)
      BY DEF Equity, SumFunction
    <3>4. reported.cash = SumFunctionOnSet(b, Symbols)
      BY DEF CashInv
    <3>5. TotalPnl = SumFunctionOnSet(w, Symbols)
      BY TotalPnlIsWorth
    <3> HIDE DEF b, m, w
    <3>6. SumFunctionOnSet(w, Symbols) = SumFunctionOnSet(b, Symbols) + SumFunctionOnSet(m, Symbols)
      BY <3>1, <3>2, SumPlus
    <3>7. Equity = TotalPnl /\ TotalPnl \in Int /\ MaxLoss \in Int
      <4>1. SumFunctionOnSet(b, Symbols) \in Int /\ SumFunctionOnSet(m, Symbols) \in Int
        BY <3>1, <3>2, SumType
      <4>2. MaxLoss \in Int
        BY EngineAssumption, WidthAssumption
      <4> QED BY <3>3, <3>4, <3>5, <3>6, <4>1, <4>2
    <3> QED BY <2>2, <3>7 DEF LossInv, LossLimitBreached
  <2> QED BY <2>1, <2>2
<1> QED
  BY <1>1, InitLoss, NextLoss, EngineInvariant, CashInvariant, PTL DEF Spec
=============================================================================
