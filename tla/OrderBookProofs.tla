-------------------------- MODULE OrderBookProofs --------------------------
(***************************************************************************)
(* What holds of OrderBook for every set of ids, every highest price and   *)
(* every width of the quantities: what check_invariants checks, what a     *)
(* fill-or-kill order is promised, and that the book behaves like the      *)
(* naive book of ReferenceBook.                                            *)
(*                                                                         *)
(* From "The venue" on, what holds of Venue, a ladder of quotes in such a  *)
(* book, for every market of any number of levels and any number of ticks  *)
(* and children: the ladder comes back after every tick, every child meets *)
(* what the ones before it left, and the engine sees an AnyVenue.          *)
(***************************************************************************)
EXTENDS Venue, SumTheorems, SequenceTheorems

\* The orders queued at a price, whether or not there is a level.
Queue(side, price) ==
  IF price \in PricesOf(side) THEN levels[side][price].orders ELSE <<>>

Ids(orders) == {orders[i].id : i \in DOMAIN orders}

QtyOf(orders) == [i \in DOMAIN orders |-> orders[i].qty]
QueueSum(orders) == SumFunctionOnSet(QtyOf(orders), DOMAIN orders)

\* What may stand in a queue: resting orders of that side and price, each once.
QueueOK(side, price, orders) ==
  /\ orders \in Seq(Order)
  /\ \A i \in DOMAIN orders :
       /\ orders[i].qty > 0 /\ orders[i].tif = "GTC"
       /\ orders[i].side = side /\ orders[i].limit_price = price
  /\ \A i, j \in DOMAIN orders : orders[i].id = orders[j].id => i = j

LevelOK(side, price, level) ==
  /\ level \in Level
  /\ level.orders # <<>> /\ QueueOK(side, price, level.orders)
  /\ level.total_qty = QueueSum(level.orders)

LevelsInv ==
  /\ levels = [side \in Sides |-> [price \in PricesOf(side) |-> levels[side][price]]]
  /\ \A side \in Sides :
       /\ PricesOf(side) \subseteq 1 .. MaxPrice
       /\ \A price \in PricesOf(side) : LevelOK(side, price, levels[side][price])

\* The ids the index files under a side and price are the ids queued there.
Filed(side, price) == {id \in DOMAIN index : index[id] = <<side, price>>}

IndexInv ==
  /\ index = [id \in DOMAIN index |-> index[id]]
  /\ DOMAIN index \subseteq OrderIds
  /\ \A id \in DOMAIN index : index[id] \in Sides \X (1 .. MaxPrice)
  /\ \A side \in Sides, price \in 1 .. MaxPrice : Ids(Queue(side, price)) = Filed(side, price)

\* Every queue is in order of arrival.
InOrder(orders, ids) ==
  \A i, j \in DOMAIN orders : \A a, b \in DOMAIN ids :
    i < j /\ ids[a] = orders[i].id /\ ids[b] = orders[j].id => a < b

ArrivedInv ==
  /\ arrived \in Seq(OrderIds) /\ IsInjective(arrived)
  /\ Range(arrived) = DOMAIN index
  /\ \A side \in Sides, price \in 1 .. MaxPrice : InOrder(Queue(side, price), arrived)

BookInv == LevelsInv /\ IndexInv /\ ArrivedInv

-----------------------------------------------------------------------------
(* Quantities, prices, sequences *)

LEMMA Constants ==
  /\ MaxPrice \in Nat \ {0} /\ QtyModulus \in Nat \ {0, 1}
  /\ NoLimit \notin Int /\ NoTaker \notin Order
BY BookAssumption DEF Order, Sides, TimeInForce, Qty

\* What does not leave the width does not wrap.
LEMMA NoWrap ==
  ASSUME NEW a \in Qty, NEW b \in Qty
  PROVE  /\ a + b \in Qty => AddQty(a, b) = a + b
         /\ b <= a => SubQty(a, b) = a - b /\ a - b \in Qty
<1>1. \A n \in Qty : n % QtyModulus = n
  BY Constants DEF Qty
<1>2. b <= a => a - b \in Qty
  BY Constants DEF Qty
<1> QED
  BY <1>1, <1>2 DEF AddQty, SubQty

\* The best price of a side with levels is one of its prices, and no other is better.
LEMMA BestIsBest ==
  ASSUME NEW side \in Sides, PricesOf(side) \subseteq 1 .. MaxPrice, PricesOf(side) # {}
  PROVE  /\ BestPrice(side) \in PricesOf(side)
         /\ side = "Buy" => \A p \in PricesOf(side) : p <= BestPrice(side)
         /\ side = "Sell" => \A p \in PricesOf(side) : BestPrice(side) <= p
<1> DEFINE P == PricesOf(side)
           N == {MaxPrice - p : p \in P}
<1>1. P \in SUBSET Nat /\ N \in SUBSET Nat /\ P # {} /\ N # {}
  BY Constants
<1>2. PICK low \in P : \A p \in P : low <= p
  BY <1>1, LeastNat
<1>3. PICK n \in N : \A m \in N : n <= m
  BY <1>1, LeastNat
<1>4. PICK high \in P : n = MaxPrice - high
  OBVIOUS
<1>5. \A p \in P : p <= high
  <2> SUFFICES ASSUME NEW p \in P PROVE p <= high
    OBVIOUS
  <2>1. n <= MaxPrice - p
    BY <1>3
  <2> QED BY <2>1, <1>1, <1>4, Constants
<1>6. Max(P) \in P /\ \A p \in P : p <= Max(P)
  BY <1>5, <1>1 DEF Max
<1>7. Min(P) \in P /\ \A p \in P : Min(P) <= p
  BY <1>2 DEF Min
<1> QED
  BY <1>6, <1>7 DEF BestPrice, Sides

\* new is old with its k-th element taken out.
Before(i, k) == IF i < k THEN i ELSE i + 1
TakenOut(new, old, k) ==
  /\ Len(new) = Len(old) - 1
  /\ \A i \in 1 .. Len(old) - 1 : new[i] = old[Before(i, k)]

LEMMA RemoveAtTakesOut ==
  ASSUME NEW S, NEW s \in Seq(S), NEW k \in 1 .. Len(s)
  PROVE  RemoveAt(s, k) \in Seq(S) /\ TakenOut(RemoveAt(s, k), s, k)
<1>1. Len(s) \in Nat /\ \A i \in 1 .. Len(s) : s[i] \in S
  BY ElementOfSeq, LenProperties
<1> DEFINE a == SubSeq(s, 1, k - 1)
           b == SubSeq(s, k + 1, Len(s))
<1>2. /\ a \in Seq(S) /\ Len(a) = k - 1 /\ \A i \in 1 .. k - 1 : a[i] = s[i]
  BY <1>1, SubSeqProperties
<1>3. /\ b \in Seq(S) /\ Len(b) = Len(s) - k
      /\ \A i \in 1 .. Len(s) - k : b[i] = s[k + i]
  <2>1. /\ b \in Seq(S) /\ Len(b) = IF k + 1 <= Len(s) THEN Len(s) - (k + 1) + 1 ELSE 0
        /\ \A i \in 1 .. Len(s) - (k + 1) + 1 : b[i] = s[(k + 1) + i - 1]
    BY <1>1, SubSeqProperties
  <2>2. \A i \in 1 .. Len(s) - k : b[i] = s[k + i]
    <3> HIDE DEF b
    <3> SUFFICES ASSUME NEW i \in 1 .. Len(s) - k PROVE b[i] = s[k + i]
      OBVIOUS
    <3>1. i \in 1 .. Len(s) - (k + 1) + 1 /\ (k + 1) + i - 1 = k + i
      BY <1>1
    <3> QED BY <2>1, <3>1
  <2> QED BY <1>1, <2>1, <2>2
<1>4. RemoveAt(s, k) = a \o b
  BY DEF RemoveAt
<1> HIDE DEF a, b
<1> DEFINE r == RemoveAt(s, k)
<1>5. /\ r \in Seq(S) /\ Len(r) = Len(a) + Len(b)
      /\ \A i \in 1 .. Len(a) + Len(b) : r[i] = IF i <= Len(a) THEN a[i] ELSE b[i - Len(a)]
  <2>1. /\ a \o b \in Seq(S) /\ Len(a \o b) = Len(a) + Len(b)
        /\ \A i \in 1 .. Len(a) + Len(b) : (a \o b)[i] = IF i <= Len(a) THEN a[i] ELSE b[i - Len(a)]
    BY ONLY <1>2, <1>3, ConcatProperties
  <2> QED BY <2>1, <1>4
<1> HIDE DEF r
<1>6. Len(r) = Len(s) - 1
  BY <1>1, <1>2, <1>3, <1>5
<1>7. ASSUME NEW i \in 1 .. Len(s) - 1 PROVE r[i] = s[IF i < k THEN i ELSE i + 1]
  <2>1. i \in 1 .. Len(a) + Len(b)
    BY <1>1, <1>2, <1>3
  <2>2. CASE i < k
    BY <1>1, <1>2, <1>5, <2>1, <2>2
  <2>3. CASE ~(i < k)
    <3>1. i - (k - 1) \in 1 .. Len(s) - k /\ k + (i - (k - 1)) = i + 1
      BY <1>1, <2>3
    <3>2. r[i] = b[i - (k - 1)]
      BY <1>1, <1>2, <1>5, <2>1, <2>3
    <3> QED BY <1>3, <2>3, <3>1, <3>2
  <2> QED BY <2>2, <2>3
<1> QED
  BY <1>5, <1>6, <1>7 DEF TakenOut, Before, r

LEMMA TailTakesOut ==
  ASSUME NEW S, NEW s \in Seq(S), s # <<>>
  PROVE  Tail(s) \in Seq(S) /\ TakenOut(Tail(s), s, 1) /\ 1 \in DOMAIN s /\ Head(s) = s[1]
<1>1. /\ Len(s) \in Nat \ {0} /\ DOMAIN s = 1 .. Len(s) /\ Head(s) = s[1]
      /\ Tail(s) \in Seq(S) /\ Len(Tail(s)) = Len(s) - 1
      /\ \A i \in 1 .. Len(Tail(s)) : Tail(s)[i] = s[i + 1]
  BY HeadTailProperties, LenProperties, EmptySeq
<1>2. \A i \in 1 .. Len(s) - 1 : ~(i < 1)
  OBVIOUS
<1> QED
  BY <1>1, <1>2 DEF TakenOut, Before

LEMMA TakenOutPlaces ==
  ASSUME NEW S, NEW old \in Seq(S), NEW new \in Seq(S), NEW k \in DOMAIN old,
         TakenOut(new, old, k)
  PROVE  /\ \A i \in DOMAIN new : Before(i, k) \in DOMAIN old \ {k} /\ new[i] = old[Before(i, k)]
         /\ \A j \in DOMAIN old \ {k} : \E i \in DOMAIN new : Before(i, k) = j
         /\ \A i, j \in DOMAIN new : i < j => Before(i, k) < Before(j, k)
         /\ new = <<>> <=> DOMAIN old = {k}
<1>1. /\ Len(old) \in Nat /\ DOMAIN old = 1 .. Len(old) /\ DOMAIN new = 1 .. Len(old) - 1
      /\ k \in 1 .. Len(old)
  BY LenProperties DEF TakenOut
<1>2. \A i \in DOMAIN new : Before(i, k) \in DOMAIN old \ {k} /\ new[i] = old[Before(i, k)]
  BY <1>1 DEF TakenOut, Before
<1>3. ASSUME NEW j \in DOMAIN old \ {k} PROVE \E i \in DOMAIN new : Before(i, k) = j
  <2>1. CASE j < k
    <3>1. j \in DOMAIN new /\ Before(j, k) = j
      BY <1>1, <2>1 DEF Before
    <3> QED BY <3>1
  <2>2. CASE ~(j < k)
    <3>1. j - 1 \in DOMAIN new /\ Before(j - 1, k) = j
      BY <1>1, <2>2 DEF Before
    <3> QED BY <3>1
  <2> QED BY <2>1, <2>2
<1>4. \A i, j \in DOMAIN new : i < j => Before(i, k) < Before(j, k)
  BY <1>1 DEF Before
<1>5. new = <<>> <=> Len(old) - 1 = 0
  BY EmptySeq DEF TakenOut
<1>6. Len(old) - 1 = 0 <=> 1 .. Len(old) = {k}
  <2>1. ASSUME 1 .. Len(old) = {k} PROVE Len(old) = 1
    <3>1. 1 \in 1 .. Len(old) /\ Len(old) \in 1 .. Len(old)
      BY <1>1
    <3> QED BY <2>1, <3>1
  <2> QED BY <1>1, <2>1
<1> QED
  BY <1>1, <1>2, <1>3, <1>4, <1>5, <1>6

-----------------------------------------------------------------------------
(* One level changes *)

\* SetLevel touches one price of one side.
LEMMA SetLevelTouches ==
  ASSUME LevelsInv, NEW side \in Sides, NEW price \in 1 .. MaxPrice, NEW orders, NEW total,
         levels' = SetLevel(side, price, orders, total)
  PROVE  /\ levels' = [s \in Sides |-> [p \in PricesOf(s)' |-> levels'[s][p]]]
         /\ \A s \in Sides \ {side} : levels'[s] = levels[s] /\ PricesOf(s)' = PricesOf(s)
         /\ PricesOf(side)' = IF orders = <<>> THEN PricesOf(side) \ {price}
                              ELSE PricesOf(side) \cup {price}
         /\ \A p \in PricesOf(side)' \ {price} : levels'[side][p] = levels[side][p]
         /\ orders # <<>> => levels'[side][price] = [orders |-> orders, total_qty |-> total]
<1>1. levels = [s \in Sides |-> [p \in DOMAIN levels[s] |-> levels[s][p]]]
  BY DEF LevelsInv, PricesOf
<1> DEFINE new == IF orders = <<>> THEN Without(levels[side], price)
                  ELSE With(levels[side], price, [orders |-> orders, total_qty |-> total])
<1>2. levels' = [levels EXCEPT ![side] = new]
  BY DEF SetLevel
<1>3. /\ new = [p \in DOMAIN new |-> new[p]]
      /\ DOMAIN new = IF orders = <<>> THEN DOMAIN levels[side] \ {price}
                      ELSE DOMAIN levels[side] \cup {price}
      /\ \A p \in DOMAIN new \ {price} : new[p] = levels[side][p]
      /\ orders # <<>> => new[price] = [orders |-> orders, total_qty |-> total]
  BY DEF With, Without
<1> HIDE DEF new
<1>4. /\ levels'[side] = new /\ \A s \in Sides \ {side} : levels'[s] = levels[s]
      /\ DOMAIN levels' = Sides /\ levels' = [s \in Sides |-> levels'[s]]
  BY <1>1, <1>2
<1>5. \A s \in Sides : levels'[s] = [p \in DOMAIN levels'[s] |-> levels'[s][p]]
  BY <1>1, <1>3, <1>4
<1>6. levels' = [s \in Sides |-> [p \in DOMAIN levels'[s] |-> levels'[s][p]]]
  BY <1>4, <1>5
<1> QED
  BY <1>3, <1>4, <1>6 DEF PricesOf

\* A level that takes an admissible queue and its sum.
LEMMA QueueReplaced ==
  ASSUME LevelsInv, NEW side \in Sides, NEW price \in 1 .. MaxPrice, NEW orders, NEW total,
         levels' = SetLevel(side, price, orders, total),
         orders # <<>> => QueueOK(side, price, orders) /\ total \in Qty /\ total = QueueSum(orders)
  PROVE  /\ LevelsInv'
         /\ Queue(side, price)' = orders
         /\ \A s \in Sides, p \in 1 .. MaxPrice :
              <<s, p>> # <<side, price>> => Queue(s, p)' = Queue(s, p)
<1>1. /\ levels' = [s \in Sides |-> [p \in PricesOf(s)' |-> levels'[s][p]]]
      /\ \A s \in Sides \ {side} : levels'[s] = levels[s] /\ PricesOf(s)' = PricesOf(s)
      /\ PricesOf(side)' = IF orders = <<>> THEN PricesOf(side) \ {price}
                           ELSE PricesOf(side) \cup {price}
      /\ \A p \in PricesOf(side)' \ {price} : levels'[side][p] = levels[side][p]
      /\ orders # <<>> => levels'[side][price] = [orders |-> orders, total_qty |-> total]
  BY SetLevelTouches
<1>2. ASSUME NEW s \in Sides
      PROVE  /\ PricesOf(s)' \subseteq 1 .. MaxPrice
             /\ \A p \in PricesOf(s)' : LevelOK(s, p, levels'[s][p])
  <2>1. CASE s # side
    <3>1. PricesOf(s)' = PricesOf(s) /\ levels'[s] = levels[s]
      BY <1>1, <2>1
    <3> QED BY <3>1 DEF LevelsInv
  <2>2. CASE s = side
    <3>1. PricesOf(side)' \subseteq 1 .. MaxPrice
      BY <1>1 DEF LevelsInv
    <3>2. ASSUME NEW p \in PricesOf(side)' \ {price} PROVE LevelOK(side, p, levels'[side][p])
      <4>1. p \in PricesOf(side) /\ levels'[side][p] = levels[side][p]
        BY <1>1
      <4> QED BY <4>1 DEF LevelsInv
    <3>3. ASSUME price \in PricesOf(side)' PROVE LevelOK(side, price, levels'[side][price])
      <4>1. orders # <<>>
        BY <1>1, <3>3
      <4>2. levels'[side][price] = [orders |-> orders, total_qty |-> total]
        BY <1>1, <4>1
      <4>3. QueueOK(side, price, orders) /\ total \in Qty /\ total = QueueSum(orders)
        BY <4>1
      <4> QED BY <4>1, <4>2, <4>3 DEF LevelOK, Level, QueueOK
    <3> QED BY <2>2, <3>1, <3>2, <3>3
  <2> QED BY <2>1, <2>2
<1>3. LevelsInv'
  BY <1>1, <1>2 DEF LevelsInv, LevelOK, QueueOK, QueueSum, QtyOf, Level, Order, Qty
<1>4. Queue(side, price)' = orders
  BY <1>1 DEF Queue
<1>5. ASSUME NEW s \in Sides, NEW p \in 1 .. MaxPrice, <<s, p>> # <<side, price>>
      PROVE  Queue(s, p)' = Queue(s, p)
  <2>1. CASE s # side
    BY <1>1, <2>1 DEF Queue
  <2>2. CASE s = side /\ p # price
    BY <1>1, <2>2 DEF Queue
  <2> QED BY <1>5, <2>1, <2>2
<1> QED
  BY <1>3, <1>4, <1>5

-----------------------------------------------------------------------------
(* What the invariant says of queues and resting orders *)

QueuesTyped ==
  \A side \in Sides, price \in 1 .. MaxPrice :
    /\ Queue(side, price) \in Seq(Order) /\ QueueOK(side, price, Queue(side, price))
    /\ LevelQty(side, price) = QueueSum(Queue(side, price)) /\ LevelQty(side, price) \in Qty

LEMMA QueueTypes == LevelsInv => QueuesTyped
<1> SUFFICES ASSUME LevelsInv, NEW side \in Sides, NEW price \in 1 .. MaxPrice
             PROVE  /\ Queue(side, price) \in Seq(Order) /\ QueueOK(side, price, Queue(side, price))
                    /\ LevelQty(side, price) = QueueSum(Queue(side, price))
                    /\ LevelQty(side, price) \in Qty
  BY DEF QueuesTyped
<1>1. CASE price \in PricesOf(side)
  <2>1. LevelOK(side, price, levels[side][price])
    BY <1>1 DEF LevelsInv
  <2> QED BY <1>1, <2>1 DEF LevelOK, Level, QueueOK, Queue, LevelQty
<1>2. CASE price \notin PricesOf(side)
  <2>1. Queue(side, price) = <<>> /\ LevelQty(side, price) = 0
    BY <1>2 DEF Queue, LevelQty
  <2>2. <<>> \in Seq(Order) /\ DOMAIN <<>> = {}
    BY EmptySeq
  <2>3. QueueOK(side, price, <<>>)
    BY <2>2 DEF QueueOK
  <2>4. QueueSum(<<>>) = 0
    BY <2>2, SumEmpty DEF QueueSum
  <2>5. 0 \in Qty
    BY Constants DEF Qty
  <2> QED BY <2>1, <2>2, <2>3, <2>4, <2>5
<1> QED BY <1>1, <1>2

LEMMA QueueTypesAfter == LevelsInv' => QueuesTyped'
BY QueueTypes, PTL

\* One queue changed, so one level's quantity.
LEMMA LevelChanged ==
  ASSUME LevelsInv, LevelsInv', NEW side \in Sides, NEW price \in 1 .. MaxPrice, NEW orders,
         Queue(side, price)' = orders,
         \A s \in Sides, p \in 1 .. MaxPrice :
           <<s, p>> # <<side, price>> => Queue(s, p)' = Queue(s, p)
  PROVE  \A s \in Sides, p \in 1 .. MaxPrice :
           LevelQty(s, p)' = IF <<s, p>> = <<side, price>> THEN QueueSum(orders) ELSE LevelQty(s, p)
<1> SUFFICES ASSUME NEW s \in Sides, NEW p \in 1 .. MaxPrice
             PROVE  LevelQty(s, p)' = IF <<s, p>> = <<side, price>> THEN QueueSum(orders)
                                      ELSE LevelQty(s, p)
  OBVIOUS
<1>1. LevelQty(s, p) = QueueSum(Queue(s, p))
  BY QueueTypes DEF QueuesTyped
<1>2. LevelQty(s, p)' = QueueSum(Queue(s, p)')
  BY QueueTypesAfter DEF QueuesTyped, QueueSum, QtyOf
<1>3. CASE <<s, p>> = <<side, price>>
  BY <1>2, <1>3
<1>4. CASE <<s, p>> # <<side, price>>
  BY <1>1, <1>2, <1>4
<1> QED BY <1>3, <1>4

\* A queue's sum counts each of its orders.
LEMMA QueueSums ==
  ASSUME NEW side, NEW price, NEW orders, QueueOK(side, price, orders)
  PROVE  /\ Len(orders) \in Nat /\ DOMAIN orders = 1 .. Len(orders) /\ IsFiniteSet(DOMAIN orders)
         /\ \A i \in DOMAIN orders : /\ orders[i] \in Order /\ orders[i].qty \in Qty \ {0}
                                     /\ QtyOf(orders)[i] = orders[i].qty
                                     /\ orders[i].qty <= QueueSum(orders)
         /\ QueueSum(orders) \in Nat
<1>1. /\ orders \in Seq(Order) /\ Len(orders) \in Nat /\ DOMAIN orders = 1 .. Len(orders)
      /\ \A i \in DOMAIN orders : orders[i] \in Order /\ orders[i].qty > 0
  BY LenProperties, ElementOfSeq DEF QueueOK
<1>2. IsFiniteSet(DOMAIN orders)
  BY <1>1, FS_Interval
<1>3. \A i \in DOMAIN orders : orders[i].qty \in Qty \ {0} /\ orders[i].qty \in Nat
  BY <1>1, Constants DEF Order, Qty
<1> DEFINE f == QtyOf(orders)
<1>4. \A i \in DOMAIN orders : f[i] = orders[i].qty
  BY DEF QtyOf
<1> HIDE DEF f
<1>5. \A i \in DOMAIN orders : f[i] \in Nat
  BY <1>3, <1>4
<1>6. /\ SumFunctionOnSet(f, DOMAIN orders) \in Nat
      /\ \A i \in DOMAIN orders : f[i] <= SumFunctionOnSet(f, DOMAIN orders)
  BY <1>2, <1>5, SumOfNaturals
<1> QED
  BY <1>1, <1>2, <1>3, <1>4, <1>6 DEF QueueSum, f

\* Every indexed id is in one place of one queue, and RestingOrder finds it there.
RestingFound ==
  /\ \A id \in DOMAIN index :
       /\ index[id][1] \in Sides /\ index[id][2] \in 1 .. MaxPrice
       /\ \E k \in DOMAIN Queue(index[id][1], index[id][2]) :
            Queue(index[id][1], index[id][2])[k].id = id
  /\ \A side \in Sides, price \in 1 .. MaxPrice : \A k \in DOMAIN Queue(side, price) :
       /\ Queue(side, price)[k].id \in DOMAIN index
       /\ index[Queue(side, price)[k].id] = <<side, price>>
       /\ RestingOrder(Queue(side, price)[k].id) = Queue(side, price)[k]

LEMMA RestingIsFound == LevelsInv /\ IndexInv => RestingFound
<1> SUFFICES ASSUME LevelsInv, IndexInv PROVE RestingFound
  OBVIOUS
<1>1. ASSUME NEW id \in DOMAIN index
      PROVE  /\ index[id][1] \in Sides /\ index[id][2] \in 1 .. MaxPrice
             /\ \E k \in DOMAIN Queue(index[id][1], index[id][2]) :
                  Queue(index[id][1], index[id][2])[k].id = id
  <2>1. index[id] \in Sides \X (1 .. MaxPrice) /\ index[id] = <<index[id][1], index[id][2]>>
    BY DEF IndexInv
  <2>2. id \in Filed(index[id][1], index[id][2])
    BY <2>1 DEF Filed
  <2>3. id \in Ids(Queue(index[id][1], index[id][2]))
    BY <2>1, <2>2 DEF IndexInv
  <2> QED BY <2>1, <2>3 DEF Ids
<1>2. ASSUME NEW side \in Sides, NEW price \in 1 .. MaxPrice, NEW k \in DOMAIN Queue(side, price)
      PROVE  /\ Queue(side, price)[k].id \in DOMAIN index
             /\ index[Queue(side, price)[k].id] = <<side, price>>
             /\ RestingOrder(Queue(side, price)[k].id) = Queue(side, price)[k]
  <2> DEFINE id == Queue(side, price)[k].id
  <2>1. id \in Filed(side, price)
    <3>1. id \in Ids(Queue(side, price))
      BY DEF Ids
    <3> QED BY <3>1 DEF IndexInv
  <2>2. id \in DOMAIN index /\ index[id] = <<side, price>>
    BY <2>1 DEF Filed
  <2>3. QueueOK(side, price, Queue(side, price))
    BY QueueTypes DEF QueuesTyped
  <2>4. price \in PricesOf(side)
    <3>1. DOMAIN <<>> = {}
      OBVIOUS
    <3> QED BY <3>1 DEF Queue
  <2>5. Queue(side, price) = levels[side][price].orders
    BY <2>4 DEF Queue
  <2> DEFINE at == CHOOSE i \in DOMAIN Queue(side, price) : Queue(side, price)[i].id = id
  <2>6. at \in DOMAIN Queue(side, price) /\ Queue(side, price)[at].id = id
    OBVIOUS
  <2>7. at = k
    <3> HIDE DEF at
    <3> QED BY <2>3, <2>6 DEF QueueOK
  <2>8. RestingOrder(id) = Queue(side, price)[at]
    BY <2>2, <2>5 DEF RestingOrder
  <2> QED BY <2>2, <2>7, <2>8
<1> QED
  BY <1>1, <1>2 DEF RestingFound

LEMMA RestingIsFoundAfter == LevelsInv' /\ IndexInv' => RestingFound'
BY RestingIsFound, PTL

\* Every resting order is where the index says, and an order.
LEMMA RestingTypes ==
  ASSUME LevelsInv, IndexInv, NEW id \in DOMAIN index
  PROVE  /\ RestingOrder(id) \in Order /\ RestingOrder(id).id = id
         /\ RestingOrder(id).qty \in Qty \ {0} /\ RestingOrder(id).tif = "GTC"
         /\ index[id] = <<RestingOrder(id).side, RestingOrder(id).limit_price>>
         /\ RestingOrder(id).side \in Sides /\ RestingOrder(id).limit_price \in 1 .. MaxPrice
         /\ RestingOrder(id).limit_price \in PricesOf(RestingOrder(id).side)
<1>1. PICK side \in Sides, price \in 1 .. MaxPrice :
        index[id] = <<side, price>> /\ \E k \in DOMAIN Queue(side, price) : Queue(side, price)[k].id = id
  <2>1. /\ index[id][1] \in Sides /\ index[id][2] \in 1 .. MaxPrice
        /\ \E k \in DOMAIN Queue(index[id][1], index[id][2]) :
             Queue(index[id][1], index[id][2])[k].id = id
    BY RestingIsFound DEF RestingFound
  <2>2. index[id] = <<index[id][1], index[id][2]>>
    BY DEF IndexInv
  <2> QED BY <2>1, <2>2
<1>2. PICK k \in DOMAIN Queue(side, price) : Queue(side, price)[k].id = id
  BY <1>1
<1>3. RestingOrder(id) = Queue(side, price)[k]
  BY <1>2, RestingIsFound DEF RestingFound
<1>4. QueueOK(side, price, Queue(side, price))
  BY QueueTypes DEF QueuesTyped
<1>5. /\ Queue(side, price)[k] \in Order /\ Queue(side, price)[k].qty \in Qty \ {0}
      /\ Queue(side, price)[k].side = side /\ Queue(side, price)[k].limit_price = price
      /\ Queue(side, price)[k].tif = "GTC"
  BY <1>4, QueueSums DEF QueueOK
<1>6. price \in PricesOf(side)
  <2>1. DOMAIN <<>> = {}
    OBVIOUS
  <2> QED BY <1>2, <2>1 DEF Queue
<1> QED
  BY <1>1, <1>2, <1>3, <1>5, <1>6

\* The flat list has the resting orders in the order of their arrival.
FlatList ==
  /\ Len(arrived) \in Nat /\ DOMAIN arrived = 1 .. Len(arrived)
  /\ ArrivalOrder \in Seq(Order) /\ Len(ArrivalOrder) = Len(arrived)
  /\ DOMAIN ArrivalOrder = DOMAIN arrived
  /\ \A i \in DOMAIN arrived :
       /\ arrived[i] \in DOMAIN index /\ arrived[i] \in OrderIds
       /\ \A id : arrived[i] = id => ArrivalOrder[i] = RestingOrder(id)
  /\ \A id \in DOMAIN index : \E i \in DOMAIN arrived : arrived[i] = id
  /\ \A i, j \in DOMAIN arrived : arrived[i] = arrived[j] => i = j

LEMMA ArrivalIsFlat == BookInv => FlatList
<1> SUFFICES ASSUME BookInv PROVE FlatList
  OBVIOUS
<1>1. /\ LevelsInv /\ IndexInv /\ arrived \in Seq(OrderIds) /\ IsInjective(arrived)
      /\ Range(arrived) = DOMAIN index
  BY DEF BookInv, ArrivedInv
<1>2. /\ Len(arrived) \in Nat /\ DOMAIN arrived = 1 .. Len(arrived)
      /\ \A i \in DOMAIN arrived : arrived[i] \in OrderIds
  BY <1>1, LenProperties, ElementOfSeq
<1>3. /\ \A i \in DOMAIN arrived : arrived[i] \in DOMAIN index
      /\ \A id \in DOMAIN index : \E i \in DOMAIN arrived : arrived[i] = id
  BY <1>1 DEF Range
<1>4. \A i, j \in DOMAIN arrived : arrived[i] = arrived[j] => i = j
  BY <1>1 DEF IsInjective
<1>5. \A i \in DOMAIN arrived : RestingOrder(arrived[i]) \in Order
  BY <1>1, <1>3, RestingTypes
<1>6. /\ DOMAIN ArrivalOrder = 1 .. Len(arrived)
      /\ \A i \in DOMAIN arrived : ArrivalOrder[i] = RestingOrder(arrived[i])
      /\ ArrivalOrder \in [1 .. Len(arrived) -> Order]
  BY <1>2, <1>5 DEF ArrivalOrder
<1>7. ArrivalOrder \in Seq(Order)
  BY <1>2, <1>6, SeqDef
<1>8. Len(ArrivalOrder) = Len(arrived)
  BY <1>2, <1>6, <1>7, LenProperties
<1> QED
  BY <1>2, <1>3, <1>4, <1>6, <1>7, <1>8 DEF FlatList

LEMMA ArrivalIsFlatAfter == BookInv' => FlatList'
BY ArrivalIsFlat, PTL

-----------------------------------------------------------------------------
(* An order leaves the book *)

LEMMA DepartedTakesOut ==
  ASSUME BookInv, NEW id \in DOMAIN index
  PROVE  \E at \in DOMAIN arrived :
           /\ arrived[at] = id
           /\ Departed(id) \in Seq(OrderIds) /\ TakenOut(Departed(id), arrived, at)
<1> DEFINE at == CHOOSE i \in DOMAIN arrived : arrived[i] = id
<1>1. /\ at \in DOMAIN arrived /\ arrived[at] = id /\ DOMAIN arrived = 1 .. Len(arrived)
      /\ arrived \in Seq(OrderIds)
  BY ArrivalIsFlat DEF FlatList, BookInv, ArrivedInv
<1>2. Departed(id) = RemoveAt(arrived, at)
  BY DEF Departed
<1> HIDE DEF at
<1> QED
  BY <1>1, <1>2, RemoveAtTakesOut

\* The k-th order of a queue leaves it, the index and the list of arrivals, and the
\* flat list loses that order and no other.
LEMMA OrderRemoved ==
  ASSUME BookInv, NEW side \in Sides, NEW price \in 1 .. MaxPrice,
         NEW k \in DOMAIN Queue(side, price), NEW orders \in Seq(Order),
         TakenOut(orders, Queue(side, price), k),
         levels' = SetLevel(side, price, orders,
                            SubQty(LevelQty(side, price), Queue(side, price)[k].qty)),
         index' = Without(index, Queue(side, price)[k].id),
         arrived' = Departed(Queue(side, price)[k].id)
  PROVE  /\ BookInv'
         /\ \A s \in Sides : PricesOf(s)' \subseteq PricesOf(s)
         /\ \A s \in Sides, p \in 1 .. MaxPrice :
              LevelQty(s, p)' = IF <<s, p>> = <<side, price>> THEN LevelQty(s, p) - Queue(side, price)[k].qty
                                ELSE LevelQty(s, p)
         /\ \E at \in DOMAIN arrived :
              /\ arrived[at] = Queue(side, price)[k].id
              /\ ArrivalOrder' = RemoveAt(ArrivalOrder, at)
<1> DEFINE old == Queue(side, price)
           id == old[k].id
           total == SubQty(LevelQty(side, price), old[k].qty)
<1>1. LevelsInv /\ IndexInv /\ ArrivedInv
  BY DEF BookInv
<1>2. /\ old \in Seq(Order) /\ QueueOK(side, price, old)
      /\ LevelQty(side, price) = QueueSum(old) /\ QueueSum(old) \in Qty
  BY <1>1, QueueTypes DEF QueuesTyped
<1>3. /\ id \in DOMAIN index /\ index[id] = <<side, price>>
      /\ \A i \in DOMAIN old : old[i].id \in DOMAIN index /\ index[old[i].id] = <<side, price>>
  BY <1>1, RestingIsFound DEF RestingFound
<1>4. Ids(old) = Filed(side, price)
  BY <1>1 DEF IndexInv
<1>5. total = SubQty(QueueSum(old), old[k].qty)
  BY <1>2
<1>a. /\ TakenOut(orders, old, k) /\ k \in DOMAIN old
      /\ levels' = SetLevel(side, price, orders, total)
      /\ index' = Without(index, id) /\ arrived' = Departed(id) /\ id = old[k].id
  OBVIOUS
<1>b. Queue(side, price) = old
  OBVIOUS
<1> HIDE DEF old, id, total
<1>6. /\ \A i \in DOMAIN orders : Before(i, k) \in DOMAIN old \ {k} /\ orders[i] = old[Before(i, k)]
      /\ \A j \in DOMAIN old \ {k} : \E i \in DOMAIN orders : Before(i, k) = j
      /\ \A i, j \in DOMAIN orders : i < j => Before(i, k) < Before(j, k)
      /\ DOMAIN orders \subseteq Int
  <2>1. DOMAIN orders = 1 .. Len(orders) /\ orders \in Seq(Order)
    BY LenProperties
  <2>2. /\ \A i \in DOMAIN orders : Before(i, k) \in DOMAIN old \ {k} /\ orders[i] = old[Before(i, k)]
        /\ \A j \in DOMAIN old \ {k} : \E i \in DOMAIN orders : Before(i, k) = j
        /\ \A i, j \in DOMAIN orders : i < j => Before(i, k) < Before(j, k)
    <3>1. old \in Seq(Order) /\ orders \in Seq(Order) /\ k \in DOMAIN old /\ TakenOut(orders, old, k)
      BY <1>2, <1>a
    <3> QED BY ONLY <3>1, TakenOutPlaces
  <2> QED BY <2>1, <2>2
<1>7. QueueOK(side, price, orders)
  <2>1. \A i \in DOMAIN orders :
          /\ orders[i].qty > 0 /\ orders[i].tif = "GTC"
          /\ orders[i].side = side /\ orders[i].limit_price = price
    BY <1>2, <1>6 DEF QueueOK
  <2>2. ASSUME NEW i \in DOMAIN orders, NEW j \in DOMAIN orders, orders[i].id = orders[j].id
        PROVE  i = j
    <3>1. Before(i, k) = Before(j, k)
      BY <1>2, <1>6, <2>2 DEF QueueOK
    <3>2. ~(Before(i, k) < Before(j, k)) /\ ~(Before(j, k) < Before(i, k))
      <4>1. Before(i, k) \in Int
        BY <1>2, <1>6, LenProperties
      <4> QED BY <3>1, <4>1
    <3>3. ~(i < j) /\ ~(j < i)
      BY <1>6, <3>2
    <3> QED BY <1>6, <3>3
  <2> QED BY <2>1, <2>2 DEF QueueOK
<1>8. total = QueueSum(orders) /\ total \in Qty /\ total = QueueSum(old) - old[k].qty
  <2>1. /\ Len(old) \in Nat /\ DOMAIN old = 1 .. Len(old)
        /\ \A i \in 1 .. Len(old) : QtyOf(old)[i] = old[i].qty /\ old[i].qty \in Qty \ {0}
        /\ old[k].qty \in Qty /\ old[k].qty <= QueueSum(old)
    BY <1>2, <1>a, QueueSums
  <2>2. DOMAIN orders = 1 .. Len(old) - 1
    BY <1>a, LenProperties DEF TakenOut
  <2>3. \A i \in 1 .. Len(old) - 1 : QtyOf(orders)[i] = QtyOf(old)[IF i < k THEN i ELSE i + 1]
    BY <1>6, <2>1, <2>2 DEF QtyOf, Before
  <2>4. \A i \in 1 .. Len(old) : QtyOf(old)[i] \in Int
    BY <2>1, Constants DEF Qty
  <2>5. k \in 1 .. Len(old)
    BY <1>a, <2>1
  <2>6. SumFunctionOnSet(QtyOf(orders), 1 .. Len(old) - 1)
          = SumFunctionOnSet(QtyOf(old), 1 .. Len(old)) - QtyOf(old)[k]
    <3> DEFINE f == QtyOf(old)
               g == QtyOf(orders)
               n == Len(old)
    <3>1. /\ n \in Nat /\ k \in 1 .. n /\ \A i \in 1 .. n : f[i] \in Int
          /\ \A i \in 1 .. n - 1 : g[i] = f[IF i < k THEN i ELSE i + 1]
      BY <2>1, <2>3, <2>4, <2>5
    <3> HIDE DEF f, g, n
    <3>2. SumFunctionOnSet(g, 1 .. n - 1) = SumFunctionOnSet(f, 1 .. n) - f[k]
      BY ONLY <3>1, SumRemoveAt
    <3> QED BY <3>2 DEF f, g, n
  <2>7. QueueSum(orders) = QueueSum(old) - old[k].qty
    BY <2>1, <2>2, <2>5, <2>6 DEF QueueSum
  <2>8. total = QueueSum(old) - old[k].qty /\ total \in Qty
    BY <1>2, <1>5, <2>1, NoWrap
  <2> QED BY <2>7, <2>8
<1>9. /\ LevelsInv' /\ Queue(side, price)' = orders
      /\ \A s \in Sides, p \in 1 .. MaxPrice :
           <<s, p>> # <<side, price>> => Queue(s, p)' = Queue(s, p)
  <2>1. /\ LevelsInv /\ side \in Sides /\ price \in 1 .. MaxPrice
        /\ levels' = SetLevel(side, price, orders, total)
        /\ orders # <<>> => QueueOK(side, price, orders) /\ total \in Qty /\ total = QueueSum(orders)
    BY <1>1, <1>7, <1>8, <1>a
  <2> QED BY ONLY <2>1, QueueReplaced
<1>10. /\ index' = [x \in DOMAIN index' |-> index'[x]] /\ DOMAIN index' = DOMAIN index \ {id}
       /\ \A x \in DOMAIN index' : index'[x] = index[x]
  BY <1>a DEF Without
<1>11. Ids(orders) = Ids(old) \ {id}
  <2>1. \A i \in DOMAIN orders : orders[i].id # id /\ orders[i].id \in Ids(old)
    BY <1>2, <1>6, <1>a DEF QueueOK, Ids
  <2>2. \A j \in DOMAIN old : old[j].id # id => old[j].id \in Ids(orders)
    BY <1>6, <1>a DEF Ids
  <2> QED BY <2>1, <2>2 DEF Ids
<1>12. IndexInv'
  <2>1. ASSUME NEW s \in Sides, NEW p \in 1 .. MaxPrice
        PROVE  Ids(Queue(s, p)') = Filed(s, p)'
    <3>1. Filed(s, p)' = Filed(s, p) \ {id}
      BY <1>10 DEF Filed
    <3>2. CASE <<s, p>> = <<side, price>>
      BY <1>4, <1>9, <1>11, <3>1, <3>2
    <3>3. CASE <<s, p>> # <<side, price>>
      <4>1. id \notin Filed(s, p)
        BY <1>3, <3>3 DEF Filed
      <4>2. Ids(Queue(s, p)) = Filed(s, p)
        BY <1>1 DEF IndexInv
      <4> QED BY <1>9, <3>1, <3>3, <4>1, <4>2
    <3> QED BY <3>2, <3>3
  <2> QED BY <1>1, <1>10, <2>1 DEF IndexInv, Ids
<1>13. FlatList
  BY ArrivalIsFlat
<1>14. PICK at \in DOMAIN arrived :
         arrived[at] = id /\ arrived' \in Seq(OrderIds) /\ TakenOut(arrived', arrived, at)
  BY <1>3, <1>a, DepartedTakesOut
<1>15. /\ \A i \in DOMAIN arrived' :
            Before(i, at) \in DOMAIN arrived \ {at} /\ arrived'[i] = arrived[Before(i, at)]
       /\ \A j \in DOMAIN arrived \ {at} : \E i \in DOMAIN arrived' : Before(i, at) = j
       /\ \A i, j \in DOMAIN arrived' : i < j => Before(i, at) < Before(j, at)
       /\ DOMAIN arrived' = 1 .. Len(arrived) - 1 /\ DOMAIN arrived = 1 .. Len(arrived)
       /\ Len(arrived) \in Nat /\ at \in Int
  <2>1. arrived \in Seq(OrderIds)
    BY <1>1 DEF ArrivedInv
  <2>2. DOMAIN arrived' = 1 .. Len(arrived) - 1
    BY <1>14, LenProperties DEF TakenOut
  <2>3. /\ \A i \in DOMAIN arrived' :
             Before(i, at) \in DOMAIN arrived \ {at} /\ arrived'[i] = arrived[Before(i, at)]
        /\ \A j \in DOMAIN arrived \ {at} : \E i \in DOMAIN arrived' : Before(i, at) = j
        /\ \A i, j \in DOMAIN arrived' : i < j => Before(i, at) < Before(j, at)
    BY ONLY <1>14, <2>1, TakenOutPlaces
  <2> QED BY <1>13, <2>2, <2>3 DEF FlatList
<1>16. ArrivedInv'
  <2>1. IsInjective(arrived')
    <3> SUFFICES ASSUME NEW i \in DOMAIN arrived', NEW j \in DOMAIN arrived',
                        arrived'[i] = arrived'[j]
                 PROVE  i = j
      BY DEF IsInjective
    <3>1. Before(i, at) = Before(j, at)
      BY <1>13, <1>15 DEF FlatList
    <3> QED BY <1>15, <3>1 DEF Before
  <2>2. Range(arrived') = DOMAIN index'
    <3>1. ASSUME NEW i \in DOMAIN arrived' PROVE arrived'[i] \in DOMAIN index \ {id}
      BY <1>13, <1>14, <1>15 DEF FlatList
    <3>2. ASSUME NEW x \in DOMAIN index \ {id} PROVE \E i \in DOMAIN arrived' : arrived'[i] = x
      <4>1. PICK j \in DOMAIN arrived : arrived[j] = x
        BY <1>13 DEF FlatList
      <4>2. j \in DOMAIN arrived \ {at}
        BY <1>14, <4>1
      <4> QED BY <1>15, <4>1, <4>2
    <3> QED BY <1>10, <3>1, <3>2 DEF Range
  <2>3. ASSUME NEW s \in Sides, NEW p \in 1 .. MaxPrice
        PROVE  InOrder(Queue(s, p)', arrived')
    <3>0. InOrder(Queue(s, p), arrived)
      BY <1>1 DEF ArrivedInv
    <3>1. ASSUME NEW i \in DOMAIN Queue(s, p)', NEW j \in DOMAIN Queue(s, p)',
                 NEW a \in DOMAIN arrived', NEW b \in DOMAIN arrived', i < j,
                 arrived'[a] = Queue(s, p)'[i].id, arrived'[b] = Queue(s, p)'[j].id
          PROVE  a < b
      <4>1. Before(a, at) < Before(b, at)
        <5>1. CASE <<s, p>> = <<side, price>>
          <6>1. Queue(s, p)' = orders /\ Queue(s, p) = old
            BY <1>9, <1>b, <5>1
          <6>2. /\ Before(i, k) \in DOMAIN old /\ Before(j, k) \in DOMAIN old
                /\ Before(i, k) < Before(j, k)
                /\ arrived[Before(a, at)] = old[Before(i, k)].id
                /\ arrived[Before(b, at)] = old[Before(j, k)].id
            BY <1>6, <1>15, <3>1, <6>1
          <6> QED BY <1>15, <3>0, <6>1, <6>2 DEF InOrder
        <5>2. CASE <<s, p>> # <<side, price>>
          BY <1>9, <1>15, <3>0, <3>1, <5>2 DEF InOrder
        <5> QED BY <5>1, <5>2
      <4> QED BY <1>15, <4>1 DEF Before
    <3> QED BY <3>1 DEF InOrder
  <2> QED BY <1>14, <2>1, <2>2, <2>3 DEF ArrivedInv, InOrder
<1>17. BookInv'
  BY <1>9, <1>12, <1>16 DEF BookInv
<1>18. \A x \in DOMAIN index' : RestingOrder(x)' = RestingOrder(x)
  <2> SUFFICES ASSUME NEW x \in DOMAIN index' PROVE RestingOrder(x)' = RestingOrder(x)
    OBVIOUS
  <2>1. PICK s \in Sides, p \in 1 .. MaxPrice : \E i \in DOMAIN Queue(s, p)' : Queue(s, p)'[i].id = x
    BY <1>9, <1>12, RestingIsFoundAfter DEF RestingFound
  <2>2. PICK i \in DOMAIN Queue(s, p)' : Queue(s, p)'[i].id = x
    BY <2>1
  <2>3. RestingOrder(x)' = Queue(s, p)'[i]
    <3>1. RestingFound'
      BY <1>9, <1>12, RestingIsFoundAfter
    <3> QED BY <2>2, <3>1 DEF RestingFound
  <2>4. \E j \in DOMAIN Queue(s, p) : Queue(s, p)[j] = Queue(s, p)'[i]
    BY <1>6, <1>9, <1>b
  <2>5. RestingOrder(x) = Queue(s, p)'[i]
    BY <1>1, <2>2, <2>4, RestingIsFound DEF RestingFound
  <2> QED BY <2>3, <2>5
<1>19. ArrivalOrder' = RemoveAt(ArrivalOrder, at)
  <2>1. FlatList /\ FlatList'
    BY <1>13, <1>17, ArrivalIsFlatAfter
  <2> DEFINE r == RemoveAt(ArrivalOrder, at)
             w == ArrivalOrder'
  <2>2. r \in Seq(Order) /\ TakenOut(r, ArrivalOrder, at)
    BY <2>1, RemoveAtTakesOut DEF FlatList
  <2>3. w \in Seq(Order) /\ Len(w) = Len(arrived')
    BY <2>1 DEF FlatList
  <2>4. Len(r) = Len(w) /\ Len(w) = Len(arrived) - 1
    BY <1>14, <2>1, <2>2, <2>3 DEF TakenOut, FlatList
  <2>5. ASSUME NEW i \in 1 .. Len(w) PROVE w[i] = r[i]
    <3>1. i \in DOMAIN arrived' /\ Before(i, at) \in DOMAIN arrived
      BY <1>15, <2>4
    <3>2. PICK x : x = arrived'[i]
      OBVIOUS
    <3>3. w[i] = RestingOrder(x)' /\ x \in DOMAIN index' /\ arrived[Before(i, at)] = x
      BY <1>15, <2>1, <3>1, <3>2 DEF FlatList
    <3>4. r[i] = ArrivalOrder[Before(i, at)]
      BY <2>1, <2>2, <2>4 DEF TakenOut, FlatList
    <3>5. ArrivalOrder[Before(i, at)] = RestingOrder(x)
      BY <2>1, <3>1, <3>3 DEF FlatList
    <3> QED BY <1>18, <3>3, <3>4, <3>5
  <2> HIDE DEF r, w
  <2>6. w = r
    BY <2>2, <2>3, <2>4, <2>5, SeqEqual
  <2> QED BY <2>6 DEF r, w
<1>20. \A s \in Sides : PricesOf(s)' \subseteq PricesOf(s)
  <2>1. /\ \A s \in Sides \ {side} : PricesOf(s)' = PricesOf(s)
        /\ PricesOf(side)' = IF orders = <<>> THEN PricesOf(side) \ {price}
                             ELSE PricesOf(side) \cup {price}
    BY <1>1, <1>a, SetLevelTouches
  <2>2. price \in PricesOf(side)
    <3>1. DOMAIN <<>> = {}
      OBVIOUS
    <3> QED BY <1>a, <1>b, <3>1 DEF Queue
  <2> QED BY <2>1, <2>2
<1>21. \A s \in Sides, p \in 1 .. MaxPrice :
         LevelQty(s, p)' = IF <<s, p>> = <<side, price>> THEN LevelQty(s, p) - Queue(side, price)[k].qty
                           ELSE LevelQty(s, p)
  <2>1. /\ LevelsInv /\ LevelsInv' /\ side \in Sides /\ price \in 1 .. MaxPrice
        /\ Queue(side, price)' = orders
        /\ \A s \in Sides, p \in 1 .. MaxPrice :
             <<s, p>> # <<side, price>> => Queue(s, p)' = Queue(s, p)
    BY <1>1, <1>9
  <2>2. \A s \in Sides, p \in 1 .. MaxPrice :
          LevelQty(s, p)' = IF <<s, p>> = <<side, price>> THEN QueueSum(orders) ELSE LevelQty(s, p)
    BY ONLY <2>1, LevelChanged
  <2>3. QueueSum(orders) = LevelQty(side, price) - Queue(side, price)[k].qty
    BY <1>2, <1>8, <1>b
  <2> QED BY <2>2, <2>3
<1> QED
  BY <1>14, <1>17, <1>19, <1>20, <1>21 DEF id, old

-----------------------------------------------------------------------------
(* An order is filled in part *)

\* RestingOrder of an id, found in its queue after the step.
LEMMA RestingAfter ==
  ASSUME BookInv', NEW side \in Sides, NEW price \in 1 .. MaxPrice, NEW x, NEW order,
         \E i \in DOMAIN Queue(side, price)' :
           Queue(side, price)'[i].id = x /\ Queue(side, price)'[i] = order
  PROVE  RestingOrder(x)' = order /\ x \in DOMAIN index'
<1>1. RestingFound'
  BY RestingIsFoundAfter DEF BookInv
<1>2. PICK i \in DOMAIN Queue(side, price)' :
        Queue(side, price)'[i].id = x /\ Queue(side, price)'[i] = order
  OBVIOUS
<1> QED
  BY <1>1, <1>2 DEF RestingFound

\* An order with less left, and a queue whose k-th order has.
Lowered(order, qty) == [order EXCEPT !.qty = order.qty - qty]
Reduced(new, old, k, qty) == new = [old EXCEPT ![k] = Lowered(old[k], qty)]

\* The k-th order of a queue keeps its place with less left, and so does it in the
\* flat list.
LEMMA OrderReduced ==
  ASSUME BookInv, NEW side \in Sides, NEW price \in 1 .. MaxPrice,
         NEW k \in DOMAIN Queue(side, price), NEW orders, NEW qty \in Qty \ {0},
         qty < Queue(side, price)[k].qty, Reduced(orders, Queue(side, price), k, qty),
         levels' = SetLevel(side, price, orders, SubQty(LevelQty(side, price), qty)),
         index' = index, arrived' = arrived
  PROVE  /\ BookInv'
         /\ \A s \in Sides : PricesOf(s)' \subseteq PricesOf(s)
         /\ \A s \in Sides, p \in 1 .. MaxPrice :
              LevelQty(s, p)' = IF <<s, p>> = <<side, price>> THEN LevelQty(s, p) - qty
                                ELSE LevelQty(s, p)
         /\ \E at \in DOMAIN arrived :
              /\ arrived[at] = Queue(side, price)[k].id
              /\ ArrivalOrder' = [ArrivalOrder EXCEPT ![at] = Lowered(Queue(side, price)[k], qty)]
<1>b. PICK old : Queue(side, price) = old
  OBVIOUS
<1>c. PICK id, total, left : /\ id = old[k].id /\ total = SubQty(LevelQty(side, price), qty)
                            /\ left = old[k].qty - qty
  OBVIOUS
<1>d. PICK new : new = Lowered(old[k], qty)
  OBVIOUS
<1>1. LevelsInv /\ IndexInv /\ ArrivedInv
  BY DEF BookInv
<1>2. /\ old \in Seq(Order) /\ QueueOK(side, price, old)
      /\ LevelQty(side, price) = QueueSum(old) /\ QueueSum(old) \in Qty
  BY <1>1, <1>b, QueueTypes DEF QueuesTyped
<1>3. /\ id \in DOMAIN index /\ index[id] = <<side, price>> /\ RestingOrder(id) = old[k]
      /\ \A i \in DOMAIN old : old[i].id \in DOMAIN index /\ RestingOrder(old[i].id) = old[i]
  BY <1>1, <1>b, <1>c, RestingIsFound DEF RestingFound
<1>4. Ids(old) = Filed(side, price)
  BY <1>1, <1>b DEF IndexInv
<1>a. /\ k \in DOMAIN old /\ orders = [old EXCEPT ![k] = new] /\ qty < old[k].qty
      /\ levels' = SetLevel(side, price, orders, total)
      /\ id = old[k].id /\ left = old[k].qty - qty /\ total = SubQty(QueueSum(old), qty)
      /\ new = [old[k] EXCEPT !.qty = left]
  BY <1>2, <1>b, <1>c, <1>d DEF Reduced, Lowered
<1>5. /\ Len(old) \in Nat /\ DOMAIN old = 1 .. Len(old) /\ IsFiniteSet(DOMAIN old)
      /\ \A i \in DOMAIN old : /\ old[i] \in Order /\ old[i].qty \in Qty \ {0}
                               /\ QtyOf(old)[i] = old[i].qty
                               /\ old[i].qty <= QueueSum(old)
      /\ QueueSum(old) \in Nat
  BY <1>2, QueueSums
<1>6. left \in Qty \ {0} /\ qty \in Nat /\ left \in Nat
  BY <1>5, <1>a, Constants DEF Qty
<1>7. /\ new \in Order /\ new.id = id /\ new.qty = left /\ new.tif = old[k].tif
      /\ new.side = old[k].side /\ new.limit_price = old[k].limit_price
  <2>1. PICK order \in Order : order = old[k]
    BY <1>5, <1>a
  <2>2. new = [order EXCEPT !.qty = left] /\ left \in Qty
    BY <1>6, <1>a, <2>1
  <2> QED BY ONLY <1>a, <2>1, <2>2 DEF Order
<1>8. /\ orders \in Seq(Order) /\ DOMAIN orders = DOMAIN old /\ orders # <<>>
      /\ orders[k] = new /\ \A i \in DOMAIN old \ {k} : orders[i] = old[i]
      /\ \A i \in DOMAIN old : orders[i].id = old[i].id
  <2>1. orders \in Seq(Order)
    <3>1. old \in Seq(Order) /\ k \in 1 .. Len(old) /\ new \in Order
      BY <1>2, <1>5, <1>7, <1>a
    <3>2. [old EXCEPT ![k] = new] \in Seq(Order)
      BY ONLY <3>1, ExceptSeq
    <3> QED BY <1>a, <3>2
  <2>2. DOMAIN orders = DOMAIN old /\ orders[k] = new /\ \A i \in DOMAIN old \ {k} : orders[i] = old[i]
    BY <1>a
  <2>3. orders # <<>>
    BY <1>a, <2>1, <2>2, EmptySeq
  <2> QED BY <1>7, <1>a, <2>1, <2>2, <2>3
<1>9. QueueOK(side, price, orders)
  <2>1. \A i \in DOMAIN orders :
          /\ orders[i].qty > 0 /\ orders[i].tif = "GTC"
          /\ orders[i].side = side /\ orders[i].limit_price = price
    <3>1. \A i \in DOMAIN old :
            /\ old[i].qty > 0 /\ old[i].tif = "GTC" /\ old[i].side = side /\ old[i].limit_price = price
      BY <1>2 DEF QueueOK
    <3>2. new.qty > 0
      BY <1>6, <1>7, Constants DEF Qty
    <3>3. \A i \in DOMAIN orders : i = k \/ i \in DOMAIN old \ {k}
      BY <1>8
    <3> QED BY ONLY <1>7, <1>8, <3>1, <3>2, <3>3, <1>a
  <2> QED BY <1>2, <1>8, <2>1 DEF QueueOK
<1>10. total = QueueSum(orders) /\ total \in Qty /\ QueueSum(orders) = QueueSum(old) - qty
  <2> DEFINE f == QtyOf(old)
             g == QtyOf(orders)
             D == DOMAIN old
  <2>1. /\ IsFiniteSet(D) /\ k \in D
        /\ \A i \in D : f[i] \in Int /\ g[i] \in Int
        /\ \A i \in D \ {k} : f[i] = g[i]
        /\ f[k] = old[k].qty /\ g[k] = left
    <3>1. \A i \in D : f[i] = old[i].qty /\ g[i] = orders[i].qty
      BY <1>8 DEF QtyOf
    <3>2. \A i \in D : old[i].qty \in Int
      BY <1>5, Constants DEF Qty
    <3>3. k \in D /\ \A i \in D \ {k} : orders[i].qty = old[i].qty
      BY <1>8, <1>a
    <3>4. orders[k].qty = left /\ left \in Int
      BY ONLY <1>6, <1>7, <1>8
    <3> HIDE DEF f, g, D
    <3>5. \A i \in D : f[i] \in Int /\ g[i] \in Int
      BY ONLY <3>1, <3>2, <3>3, <3>4
    <3> QED BY ONLY <1>5, <3>1, <3>3, <3>4, <3>5 DEF D
  <2>2. QueueSum(old) = SumFunctionOnSet(f, D) /\ QueueSum(orders) = SumFunctionOnSet(g, D)
    BY <1>8 DEF QueueSum
  <2> HIDE DEF f, g, D
  <2>3. SumFunctionOnSet(g, D) = SumFunctionOnSet(f, D) - f[k] + g[k]
    BY ONLY <2>1, SumUpdate
  <2>4. QueueSum(orders) = QueueSum(old) - qty
    BY <1>5, <1>6, <1>a, <2>1, <2>2, <2>3
  <2>5. qty <= QueueSum(old)
    BY <1>5, <1>6, <1>a, Constants DEF Qty
  <2>6. total = QueueSum(old) - qty /\ total \in Qty
    BY <1>2, <1>a, <2>5, NoWrap
  <2> QED BY <2>4, <2>6
<1>11. /\ LevelsInv' /\ Queue(side, price)' = orders
       /\ \A s \in Sides, p \in 1 .. MaxPrice :
            <<s, p>> # <<side, price>> => Queue(s, p)' = Queue(s, p)
  <2>1. /\ LevelsInv /\ side \in Sides /\ price \in 1 .. MaxPrice
        /\ levels' = SetLevel(side, price, orders, total)
        /\ orders # <<>> => QueueOK(side, price, orders) /\ total \in Qty /\ total = QueueSum(orders)
    BY <1>1, <1>9, <1>10, <1>a
  <2> QED BY ONLY <2>1, QueueReplaced
<1>12. ASSUME NEW s \in Sides, NEW p \in 1 .. MaxPrice
       PROVE  /\ DOMAIN Queue(s, p)' = DOMAIN Queue(s, p)
              /\ \A i \in DOMAIN Queue(s, p) : Queue(s, p)'[i].id = Queue(s, p)[i].id
  <2>1. CASE <<s, p>> = <<side, price>>
    BY ONLY <1>8, <1>11, <1>b, <2>1
  <2>2. CASE <<s, p>> # <<side, price>>
    BY <1>11, <2>2
  <2> QED BY <2>1, <2>2
<1>13. IndexInv'
  <2>1. ASSUME NEW s \in Sides, NEW p \in 1 .. MaxPrice
        PROVE  Ids(Queue(s, p)') = Filed(s, p)'
    <3>1. Ids(Queue(s, p)') = Ids(Queue(s, p)) /\ Filed(s, p)' = Filed(s, p)
      BY <1>12 DEF Ids, Filed
    <3> QED BY <1>1, <3>1 DEF IndexInv
  <2> QED BY <1>1, <2>1 DEF IndexInv, Ids
<1>14. ArrivedInv'
  <2>1. ASSUME NEW s \in Sides, NEW p \in 1 .. MaxPrice
        PROVE  InOrder(Queue(s, p)', arrived)
    <3>1. InOrder(Queue(s, p), arrived)
      BY <1>1 DEF ArrivedInv
    <3> QED BY <1>12, <3>1 DEF InOrder
  <2> QED BY <1>1, <2>1 DEF ArrivedInv, InOrder
<1>15. BookInv'
  BY <1>11, <1>13, <1>14 DEF BookInv
<1>16. RestingOrder(id)' = new
  <2>1. k \in DOMAIN Queue(side, price)' /\ Queue(side, price)'[k] = new
    BY <1>8, <1>11, <1>a
  <2>2. new.id = id /\ BookInv' /\ side \in Sides /\ price \in 1 .. MaxPrice
    BY <1>7, <1>15
  <2> QED BY ONLY <2>1, <2>2, RestingAfter
<1>17. \A x \in DOMAIN index \ {id} : RestingOrder(x)' = RestingOrder(x)
  <2> SUFFICES ASSUME NEW x \in DOMAIN index, x # id PROVE RestingOrder(x)' = RestingOrder(x)
    OBVIOUS
  <2>1. PICK s \in Sides, p \in 1 .. MaxPrice : \E i \in DOMAIN Queue(s, p) : Queue(s, p)[i].id = x
    BY <1>1, RestingIsFound DEF RestingFound
  <2>2. PICK i \in DOMAIN Queue(s, p) : Queue(s, p)[i].id = x
    BY <2>1
  <2>3. RestingOrder(x) = Queue(s, p)[i]
    BY <1>1, <2>2, RestingIsFound DEF RestingFound
  <2>4. i \in DOMAIN Queue(s, p)' /\ Queue(s, p)'[i] = Queue(s, p)[i]
    <3>1. CASE <<s, p>> = <<side, price>>
      <4>1. Queue(s, p) = old /\ Queue(s, p)' = orders
        BY <1>11, <1>b, <3>1
      <4>2. i \in DOMAIN old \ {k}
        BY <1>a, <2>2, <4>1
      <4> QED BY <1>8, <4>1, <4>2
    <3>2. CASE <<s, p>> # <<side, price>>
      BY <1>11, <2>2, <3>2
    <3> QED BY <3>1, <3>2
  <2> QED BY <1>15, <2>2, <2>3, <2>4, RestingAfter
<1>18. FlatList /\ FlatList'
  BY <1>15, ArrivalIsFlat, ArrivalIsFlatAfter
<1>19. PICK at \in DOMAIN arrived : arrived[at] = id
  BY <1>3, <1>18 DEF FlatList
<1>20. ArrivalOrder' = [ArrivalOrder EXCEPT ![at] = new]
  <2> DEFINE r == [ArrivalOrder EXCEPT ![at] = new]
             w == ArrivalOrder'
  <2>1. at \in 1 .. Len(ArrivalOrder) /\ ArrivalOrder[at] = old[k] /\ ArrivalOrder \in Seq(Order)
    BY <1>3, <1>18, <1>19 DEF FlatList
  <2>3. /\ r \in Seq(Order) /\ Len(r) = Len(ArrivalOrder)
        /\ \A i \in 1 .. Len(ArrivalOrder) : r[i] = IF i = at THEN new ELSE ArrivalOrder[i]
    BY <1>7, <2>1, ExceptSeq
  <2>4. w \in Seq(Order) /\ Len(w) = Len(ArrivalOrder)
    BY <1>18 DEF FlatList
  <2>5. ASSUME NEW i \in 1 .. Len(w) PROVE w[i] = r[i]
    <3>1. i \in DOMAIN arrived /\ i \in DOMAIN arrived'
      BY <1>18, <2>4 DEF FlatList
    <3>2. PICK x : x = arrived[i]
      OBVIOUS
    <3>3. /\ w[i] = RestingOrder(x)' /\ ArrivalOrder[i] = RestingOrder(x) /\ x \in DOMAIN index
          /\ x = id <=> i = at
      BY <1>18, <1>19, <3>1, <3>2 DEF FlatList
    <3> QED BY <1>16, <1>17, <2>3, <2>4, <3>3
  <2> HIDE DEF r, w
  <2>6. w = r
    BY <2>3, <2>4, <2>5, SeqEqual
  <2> QED BY <2>6 DEF r, w
<1>21. \A s \in Sides : PricesOf(s)' \subseteq PricesOf(s)
  <2>1. /\ \A s \in Sides \ {side} : PricesOf(s)' = PricesOf(s)
        /\ PricesOf(side)' = PricesOf(side) \cup {price}
    <3>1. /\ LevelsInv /\ side \in Sides /\ price \in 1 .. MaxPrice /\ orders # <<>>
          /\ levels' = SetLevel(side, price, orders, total)
      BY <1>1, <1>8, <1>a
    <3> QED BY ONLY <3>1, SetLevelTouches
  <2>2. price \in PricesOf(side)
    <3>1. DOMAIN <<>> = {}
      OBVIOUS
    <3> QED BY <1>a, <1>b, <3>1 DEF Queue
  <2> QED BY <2>1, <2>2
<1>22. \A s \in Sides, p \in 1 .. MaxPrice :
         LevelQty(s, p)' = IF <<s, p>> = <<side, price>> THEN LevelQty(s, p) - qty
                           ELSE LevelQty(s, p)
  <2>1. /\ LevelsInv /\ LevelsInv' /\ side \in Sides /\ price \in 1 .. MaxPrice
        /\ Queue(side, price)' = orders
        /\ \A s \in Sides, p \in 1 .. MaxPrice :
             <<s, p>> # <<side, price>> => Queue(s, p)' = Queue(s, p)
    BY <1>1, <1>11
  <2>2. \A s \in Sides, p \in 1 .. MaxPrice :
          LevelQty(s, p)' = IF <<s, p>> = <<side, price>> THEN QueueSum(orders) ELSE LevelQty(s, p)
    BY ONLY <2>1, LevelChanged
  <2>3. QueueSum(orders) = LevelQty(side, price) - qty
    BY <1>2, <1>10, <1>b
  <2> QED BY <2>2, <2>3
<1> QED
  BY <1>15, <1>19, <1>20, <1>21, <1>22, <1>b, <1>c, <1>d

-----------------------------------------------------------------------------
(* An order joins the book *)

\* A new order at the back of its queue is the last of the flat list.
LEMMA OrderAdded ==
  ASSUME BookInv, NEW side \in Sides, NEW price \in 1 .. MaxPrice, NEW new \in Order,
         new.id \notin DOMAIN index, new.qty > 0, new.tif = "GTC",
         new.side = side, new.limit_price = price,
         LevelQty(side, price) + new.qty \in Qty,
         levels' = SetLevel(side, price, Append(Queue(side, price), new),
                            AddQty(LevelQty(side, price), new.qty)),
         index' = With(index, new.id, <<side, price>>),
         arrived' = Append(arrived, new.id)
  PROVE  /\ BookInv'
         /\ \A s \in Sides \ {side} : PricesOf(s)' = PricesOf(s)
         /\ PricesOf(side)' = PricesOf(side) \cup {price}
         /\ \A s \in Sides, p \in 1 .. MaxPrice :
              LevelQty(s, p)' = IF <<s, p>> = <<side, price>> THEN LevelQty(s, p) + new.qty
                                ELSE LevelQty(s, p)
         /\ ArrivalOrder' = Append(ArrivalOrder, new)
<1>b. PICK old : Queue(side, price) = old
  OBVIOUS
<1>c. PICK id, orders, total, n :
        /\ id = new.id /\ orders = Append(old, new) /\ n = Len(old)
        /\ total = AddQty(LevelQty(side, price), new.qty)
  OBVIOUS
<1>1. LevelsInv /\ IndexInv /\ ArrivedInv
  BY DEF BookInv
<1>2. /\ old \in Seq(Order) /\ QueueOK(side, price, old)
      /\ LevelQty(side, price) = QueueSum(old) /\ QueueSum(old) \in Qty
  BY <1>1, <1>b, QueueTypes DEF QueuesTyped
<1>3. \A i \in DOMAIN old : old[i].id \in DOMAIN index /\ RestingOrder(old[i].id) = old[i]
  BY <1>1, <1>b, RestingIsFound DEF RestingFound
<1>4. Ids(old) = Filed(side, price)
  BY <1>1, <1>b DEF IndexInv
<1>a. /\ levels' = SetLevel(side, price, orders, total)
      /\ index' = With(index, id, <<side, price>>) /\ arrived' = Append(arrived, id)
      /\ id = new.id /\ id \notin DOMAIN index /\ id \in OrderIds /\ new.qty \in Qty
      /\ total = AddQty(QueueSum(old), new.qty) /\ QueueSum(old) + new.qty \in Qty
      /\ orders = Append(old, new) /\ n = Len(old)
  BY <1>2, <1>b, <1>c DEF Order
<1>5. /\ n \in Nat /\ DOMAIN old = 1 .. n
      /\ \A i \in DOMAIN old : old[i].qty \in Qty \ {0} /\ QtyOf(old)[i] = old[i].qty
  BY <1>2, <1>a, QueueSums
<1>6. /\ orders \in Seq(Order) /\ orders # <<>> /\ DOMAIN orders = 1 .. n + 1
      /\ \A i \in 1 .. n : orders[i] = old[i]
      /\ orders[n + 1] = new
  <2>1. /\ orders \in Seq(Order) /\ orders # <<>> /\ Len(orders) = n + 1
        /\ \A i \in 1 .. n : orders[i] = old[i]
        /\ orders[n + 1] = new
    BY <1>2, <1>a, AppendProperties
  <2> QED BY <2>1, LenProperties
<1>7. QueueOK(side, price, orders)
  <2>1. \A i \in DOMAIN orders :
          /\ orders[i].qty > 0 /\ orders[i].tif = "GTC"
          /\ orders[i].side = side /\ orders[i].limit_price = price
    BY <1>2, <1>5, <1>6 DEF QueueOK
  <2>2. \A i, j \in DOMAIN orders : orders[i].id = orders[j].id => i = j
    BY <1>2, <1>3, <1>5, <1>6, <1>a DEF QueueOK
  <2> QED BY <1>6, <2>1, <2>2 DEF QueueOK
<1>8. total = QueueSum(orders) /\ total \in Qty /\ total = QueueSum(old) + new.qty
  <2> DEFINE f == QtyOf(old)
             g == QtyOf(orders)
  <2>1. /\ \A i \in 1 .. n + 1 : g[i] \in Int
        /\ \A i \in 1 .. n : g[i] \in Int /\ g[i] = f[i]
        /\ g[n + 1] = new.qty /\ IsFiniteSet(1 .. n)
    <3>1. \A i \in 1 .. n : f[i] = old[i].qty
      BY <1>5 DEF QtyOf
    <3>2. \A i \in 1 .. n + 1 : g[i] = orders[i].qty
      BY <1>6 DEF QtyOf
    <3>3. \A i \in 1 .. n : orders[i].qty = old[i].qty /\ old[i].qty \in Int
      <4>1. \A q \in Qty : q \in Int
        BY Constants DEF Qty
      <4>2. \A i \in 1 .. n : old[i].qty \in Qty
        BY <1>5
      <4>3. \A i \in 1 .. n : orders[i].qty = old[i].qty
        BY <1>6
      <4> QED BY ONLY <4>1, <4>2, <4>3
    <3>4. orders[n + 1].qty = new.qty /\ new.qty \in Int
      BY <1>6, <1>a, Constants DEF Qty
    <3>5. \A i \in 1 .. n + 1 : i = n + 1 \/ i \in 1 .. n
      BY <1>5
    <3>6. \A i \in 1 .. n : i \in 1 .. n + 1
      BY <1>5
    <3>7. n + 1 \in 1 .. n + 1 /\ IsFiniteSet(1 .. n)
      BY <1>5, FS_Interval
    <3> HIDE DEF f, g
    <3> QED BY ONLY <3>1, <3>2, <3>3, <3>4, <3>5, <3>6, <3>7
  <2>2. QueueSum(old) = SumFunctionOnSet(f, 1 .. n) /\ QueueSum(orders) = SumFunctionOnSet(g, 1 .. n + 1)
    BY <1>5, <1>6 DEF QueueSum
  <2> HIDE DEF f, g
  <2>3. SumFunctionOnSet(g, 1 .. n + 1) = SumFunctionOnSet(g, 1 .. n) + g[n + 1]
    BY ONLY <1>5, <2>1, SumLast
  <2>4. SumFunctionOnSet(g, 1 .. n) = SumFunctionOnSet(f, 1 .. n)
    BY ONLY <2>1, SumCongruence
  <2>5. total = QueueSum(old) + new.qty
    BY <1>2, <1>a, NoWrap
  <2> QED BY <1>a, <2>1, <2>2, <2>3, <2>4, <2>5
<1>9. /\ LevelsInv' /\ Queue(side, price)' = orders
      /\ \A s \in Sides, p \in 1 .. MaxPrice :
           <<s, p>> # <<side, price>> => Queue(s, p)' = Queue(s, p)
  <2>1. /\ LevelsInv /\ side \in Sides /\ price \in 1 .. MaxPrice
        /\ levels' = SetLevel(side, price, orders, total)
        /\ orders # <<>> => QueueOK(side, price, orders) /\ total \in Qty /\ total = QueueSum(orders)
    BY <1>1, <1>7, <1>8, <1>a
  <2> QED BY ONLY <2>1, QueueReplaced
<1>10. /\ index' = [x \in DOMAIN index' |-> index'[x]] /\ DOMAIN index' = DOMAIN index \cup {id}
       /\ index'[id] = <<side, price>> /\ \A x \in DOMAIN index : index'[x] = index[x]
  BY <1>a DEF With
<1>11. IndexInv'
  <2>1. Ids(orders) = Ids(old) \cup {id}
    <3>0. /\ n + 1 \in DOMAIN orders /\ DOMAIN old \subseteq DOMAIN orders
          /\ \A i \in DOMAIN orders : i \in DOMAIN old \/ i = n + 1
      BY <1>5, <1>6
    <3>a. orders[n + 1].id = id /\ \A i \in DOMAIN old : orders[i].id = old[i].id
      BY <1>5, <1>6, <1>a
    <3>1. \A i \in DOMAIN orders : orders[i].id \in Ids(old) \cup {id}
      BY ONLY <3>0, <3>a DEF Ids
    <3>2. \A i \in DOMAIN old : old[i].id \in Ids(orders)
      BY ONLY <3>0, <3>a DEF Ids
    <3>3. id \in Ids(orders)
      BY ONLY <3>0, <3>a DEF Ids
    <3> QED BY <3>1, <3>2, <3>3 DEF Ids
  <2>2. ASSUME NEW s \in Sides, NEW p \in 1 .. MaxPrice
        PROVE  Ids(Queue(s, p)') = Filed(s, p)'
    <3>1. CASE <<s, p>> = <<side, price>>
      <4>1. Filed(s, p)' = Filed(s, p) \cup {id}
        BY <1>10, <1>a, <3>1 DEF Filed
      <4> QED BY <1>4, <1>9, <2>1, <3>1, <4>1
    <3>2. CASE <<s, p>> # <<side, price>>
      <4>1. Filed(s, p)' = Filed(s, p)
        BY <1>10, <1>a, <3>2 DEF Filed
      <4>2. Ids(Queue(s, p)) = Filed(s, p)
        BY <1>1 DEF IndexInv
      <4> QED BY <1>9, <3>2, <4>1, <4>2
    <3> QED BY <3>1, <3>2
  <2>3. <<side, price>> \in Sides \X (1 .. MaxPrice)
    OBVIOUS
  <2> QED BY <1>1, <1>10, <1>a, <2>2, <2>3 DEF IndexInv, Ids
<1>12. /\ FlatList /\ arrived' \in Seq(OrderIds) /\ Len(arrived') = Len(arrived) + 1
       /\ DOMAIN arrived' = 1 .. Len(arrived) + 1
       /\ \A i \in 1 .. Len(arrived) : arrived'[i] = arrived[i]
       /\ arrived'[Len(arrived) + 1] = id
  <2>1. FlatList /\ arrived \in Seq(OrderIds)
    BY <1>1, ArrivalIsFlat DEF ArrivedInv
  <2>2. /\ arrived' \in Seq(OrderIds) /\ Len(arrived') = Len(arrived) + 1
        /\ \A i \in 1 .. Len(arrived) : arrived'[i] = arrived[i]
        /\ arrived'[Len(arrived) + 1] = id
    BY <1>a, <2>1, AppendProperties
  <2> QED BY <2>1, <2>2, LenProperties
<1>13. ArrivedInv'
  <2>0. Len(arrived) \in Nat /\ DOMAIN arrived = 1 .. Len(arrived)
    BY <1>12 DEF FlatList
  <2>1. IsInjective(arrived')
    <3>1. \A i, j \in 1 .. Len(arrived) : arrived[i] = arrived[j] => i = j
      BY <1>12 DEF FlatList
    <3>2. \A i \in 1 .. Len(arrived) : arrived[i] # id
      BY <1>12, <1>a DEF FlatList
    <3> QED BY <1>12, <2>0, <3>1, <3>2 DEF IsInjective
  <2>2. Range(arrived') = DOMAIN index'
    <3>1. \A i \in DOMAIN arrived' : arrived'[i] \in DOMAIN index'
      BY <1>10, <1>12, <2>0 DEF FlatList
    <3>2. \A x \in DOMAIN index' : \E i \in DOMAIN arrived' : arrived'[i] = x
      <4>1. \A x \in DOMAIN index : \E i \in DOMAIN arrived : arrived[i] = x
        BY <1>12 DEF FlatList
      <4>2. \A i \in DOMAIN arrived : i \in DOMAIN arrived' /\ arrived'[i] = arrived[i]
        BY <1>12, <2>0
      <4>3. Len(arrived) + 1 \in DOMAIN arrived'
        BY <1>12, <2>0
      <4> QED BY <1>10, <1>12, <4>1, <4>2, <4>3
    <3> QED BY <3>1, <3>2 DEF Range
  <2>3. ASSUME NEW s \in Sides, NEW p \in 1 .. MaxPrice
        PROVE  InOrder(Queue(s, p)', arrived')
    <3>0. InOrder(Queue(s, p), arrived)
      BY <1>1 DEF ArrivedInv
    <3>1. \A i \in DOMAIN Queue(s, p) : Queue(s, p)[i].id # id
      BY <1>1, <1>a, RestingIsFound DEF RestingFound
    <3>2. CASE <<s, p>> = <<side, price>>
      <4>1. Queue(s, p)' = orders /\ Queue(s, p) = old
        BY <1>9, <1>b, <3>2
      <4>2. ASSUME NEW i \in DOMAIN orders, NEW j \in DOMAIN orders,
                   NEW a \in DOMAIN arrived', NEW b \in DOMAIN arrived', i < j,
                   arrived'[a] = orders[i].id, arrived'[b] = orders[j].id
            PROVE  a < b
        <5>1. i \in DOMAIN old /\ orders[i] = old[i] /\ old[i].id # id
          BY <1>5, <1>6, <3>1, <4>1, <4>2
        <5>2. a \in 1 .. Len(arrived) /\ arrived[a] = old[i].id
          BY <1>12, <2>0, <4>2, <5>1
        <5>3. CASE j = n + 1
          <6>1. arrived'[b] = id
            BY <1>6, <1>a, <4>2, <5>3
          <6>2. b = Len(arrived) + 1
            BY <1>12, <1>a, <2>0, <6>1 DEF FlatList
          <6> QED BY <2>0, <5>2, <6>2
        <5>4. CASE j # n + 1
          <6>1. j \in DOMAIN old /\ orders[j] = old[j] /\ old[j].id # id
            BY <1>5, <1>6, <3>1, <4>1, <5>4
          <6>2. b \in 1 .. Len(arrived) /\ arrived[b] = old[j].id
            BY <1>12, <2>0, <4>2, <6>1
          <6> QED BY <2>0, <3>0, <4>1, <4>2, <5>1, <5>2, <6>1, <6>2 DEF InOrder
        <5> QED BY <5>3, <5>4
      <4> QED BY <4>1, <4>2 DEF InOrder
    <3>3. CASE <<s, p>> # <<side, price>>
      <4>1. Queue(s, p)' = Queue(s, p)
        BY <1>9, <3>3
      <4>2. \A a \in DOMAIN arrived' : arrived'[a] # id => a \in DOMAIN arrived /\ arrived'[a] = arrived[a]
        BY <1>12, <2>0
      <4> QED BY <3>0, <3>1, <4>1, <4>2 DEF InOrder
    <3> QED BY <3>2, <3>3
  <2> QED BY <1>12, <2>1, <2>2, <2>3 DEF ArrivedInv, InOrder
<1>14. BookInv'
  BY <1>9, <1>11, <1>13 DEF BookInv
<1>15. RestingOrder(id)' = new
  <2>1. n + 1 \in DOMAIN Queue(side, price)' /\ Queue(side, price)'[n + 1] = new
    BY <1>5, <1>6, <1>9
  <2>2. new.id = id /\ BookInv' /\ side \in Sides /\ price \in 1 .. MaxPrice
    BY <1>14, <1>a
  <2> QED BY ONLY <2>1, <2>2, RestingAfter
<1>16. \A x \in DOMAIN index : RestingOrder(x)' = RestingOrder(x)
  <2> SUFFICES ASSUME NEW x \in DOMAIN index PROVE RestingOrder(x)' = RestingOrder(x)
    OBVIOUS
  <2>1. PICK s \in Sides, p \in 1 .. MaxPrice : \E i \in DOMAIN Queue(s, p) : Queue(s, p)[i].id = x
    BY <1>1, RestingIsFound DEF RestingFound
  <2>2. PICK i \in DOMAIN Queue(s, p) : Queue(s, p)[i].id = x
    BY <2>1
  <2>3. RestingOrder(x) = Queue(s, p)[i]
    BY <1>1, <2>2, RestingIsFound DEF RestingFound
  <2>4. i \in DOMAIN Queue(s, p)' /\ Queue(s, p)'[i] = Queue(s, p)[i]
    <3>1. CASE <<s, p>> = <<side, price>>
      BY <1>5, <1>6, <1>9, <1>b, <2>2, <3>1
    <3>2. CASE <<s, p>> # <<side, price>>
      BY <1>9, <2>2, <3>2
    <3> QED BY <3>1, <3>2
  <2> QED BY <1>14, <2>2, <2>3, <2>4, RestingAfter
<1>17. ArrivalOrder' = Append(ArrivalOrder, new)
  <2>1. FlatList'
    BY <1>14, ArrivalIsFlatAfter
  <2> DEFINE r == Append(ArrivalOrder, new)
             w == ArrivalOrder'
             m == Len(ArrivalOrder)
  <2>2. m = Len(arrived) /\ m \in Nat /\ ArrivalOrder \in Seq(Order)
    BY <1>12 DEF FlatList
  <2>3. /\ r \in Seq(Order) /\ Len(r) = m + 1 /\ r[m + 1] = new
        /\ \A i \in 1 .. m : r[i] = ArrivalOrder[i]
    BY <2>2, AppendProperties
  <2>4. w \in Seq(Order) /\ Len(w) = m + 1
    BY <1>12, <2>1, <2>2 DEF FlatList
  <2>5. ASSUME NEW i \in 1 .. m + 1 PROVE w[i] = r[i]
    <3>1. i \in DOMAIN arrived'
      BY <1>12, <2>2
    <3>2. PICK x : x = arrived'[i]
      OBVIOUS
    <3>3. w[i] = RestingOrder(x)'
      BY <2>1, <3>1, <3>2 DEF FlatList
    <3>4. CASE i = m + 1
      BY <1>12, <1>15, <2>2, <2>3, <3>2, <3>3, <3>4
    <3>5. CASE i # m + 1
      <4>1. i \in 1 .. m
        BY <2>2, <3>5
      <4>2. i \in DOMAIN arrived /\ arrived[i] = x /\ x \in DOMAIN index
        BY <1>12, <2>2, <3>2, <4>1 DEF FlatList
      <4>3. ArrivalOrder[i] = RestingOrder(x)
        BY <1>12, <4>2 DEF FlatList
      <4> QED BY <1>16, <2>3, <3>3, <4>1, <4>2, <4>3
    <3> QED BY <3>4, <3>5
  <2> HIDE DEF r, w, m
  <2>6. w = r
    BY <2>3, <2>4, <2>5, SeqEqual
  <2> QED BY <2>6 DEF r, w
<1>18. /\ \A s \in Sides \ {side} : PricesOf(s)' = PricesOf(s)
       /\ PricesOf(side)' = PricesOf(side) \cup {price}
  <2>1. /\ LevelsInv /\ side \in Sides /\ price \in 1 .. MaxPrice /\ orders # <<>>
        /\ levels' = SetLevel(side, price, orders, total)
    BY <1>1, <1>6, <1>a
  <2> QED BY ONLY <2>1, SetLevelTouches
<1>19. \A s \in Sides, p \in 1 .. MaxPrice :
         LevelQty(s, p)' = IF <<s, p>> = <<side, price>> THEN LevelQty(s, p) + new.qty
                           ELSE LevelQty(s, p)
  <2>1. /\ LevelsInv /\ LevelsInv' /\ side \in Sides /\ price \in 1 .. MaxPrice
        /\ Queue(side, price)' = orders
        /\ \A s \in Sides, p \in 1 .. MaxPrice :
             <<s, p>> # <<side, price>> => Queue(s, p)' = Queue(s, p)
    BY <1>1, <1>9
  <2>2. \A s \in Sides, p \in 1 .. MaxPrice :
          LevelQty(s, p)' = IF <<s, p>> = <<side, price>> THEN QueueSum(orders) ELSE LevelQty(s, p)
    BY ONLY <2>1, LevelChanged
  <2>3. QueueSum(orders) = LevelQty(side, price) + new.qty
    BY <1>2, <1>8, <1>b
  <2> QED BY <2>2, <2>3
<1> QED
  BY <1>14, <1>17, <1>18, <1>19

-----------------------------------------------------------------------------
(* One iteration of the matching loop *)

\* The front order of the best level on the other side, the quantity it trades, and
\* what that makes of the book, the flat list, the taker and the fills.
Traded(side, price, maker, qty, at) ==
  /\ side = Opposite(taker.side) /\ PricesOf(side) # {} /\ price = BestPrice(side)
  /\ Accepts(taker, price)
  /\ 1 \in DOMAIN Queue(side, price) /\ maker = Queue(side, price)[1]
  /\ qty = LesserQty(taker.qty, maker.qty)
  /\ arrived[at] = maker.id
  /\ BookInv' /\ DOMAIN index' \subseteq DOMAIN index
  /\ \A s \in Sides : PricesOf(s)' \subseteq PricesOf(s)
  /\ \A s \in Sides, p \in 1 .. MaxPrice :
       LevelQty(s, p)' = IF <<s, p>> = <<side, price>> THEN LevelQty(s, p) - qty ELSE LevelQty(s, p)
  /\ ArrivalOrder' = IF qty = maker.qty THEN RemoveAt(ArrivalOrder, at)
                     ELSE [ArrivalOrder EXCEPT ![at] = Lowered(maker, qty)]
  /\ taker' = [taker EXCEPT !.qty = taker.qty - qty]
  /\ fills' = Append(fills, [maker |-> maker.id, price |-> price, qty |-> qty])
  /\ outcome' = outcome

LEMMA Opposites ==
  ASSUME NEW side \in Sides
  PROVE  /\ Opposite(side) \in Sides /\ Opposite(side) # side /\ Opposite(Opposite(side)) = side
         /\ \A s \in Sides : s # side => s = Opposite(side)
BY DEF Opposite, Sides

LEMMA MatchTrades ==
  ASSUME BookInv, taker \in Order, Match
  PROVE  \E side \in Sides, price \in 1 .. MaxPrice, maker \in Order, qty \in Qty \ {0},
            at \in DOMAIN arrived : Traded(side, price, maker, qty, at)
<1>1. LevelsInv /\ IndexInv
  BY DEF BookInv
<1>2. taker.side \in Sides /\ taker.qty \in Qty /\ taker.qty > 0
  BY DEF Match, CanMatch, Order
<1>3. PICK side \in Sides : side = Opposite(taker.side)
  BY <1>2, Opposites
<1>4. PricesOf(side) \subseteq 1 .. MaxPrice /\ PricesOf(side) # {} /\ Accepts(taker, BestPrice(side))
  BY <1>1, <1>3 DEF LevelsInv, Match, CanMatch
<1>5. PICK price \in 1 .. MaxPrice : price = BestPrice(side) /\ price \in PricesOf(side)
  BY <1>4, BestIsBest
<1>6. PICK old : old = Queue(side, price)
  OBVIOUS
<1>7. /\ old = levels[side][price].orders /\ LevelQty(side, price) = levels[side][price].total_qty
      /\ old # <<>> /\ QueueOK(side, price, old) /\ old \in Seq(Order)
  <2>1. LevelOK(side, price, levels[side][price])
    BY <1>1, <1>5 DEF LevelsInv
  <2> QED BY <1>5, <1>6, <2>1 DEF LevelOK, QueueOK, Queue, LevelQty
<1>8. 1 \in DOMAIN old /\ Head(old) = old[1] /\ Tail(old) \in Seq(Order) /\ TakenOut(Tail(old), old, 1)
  BY <1>7, TailTakesOut
<1>9. PICK maker \in Order : maker = old[1] /\ maker.qty \in Qty \ {0}
  <2>1. old[1] \in Order /\ old[1].qty \in Qty \ {0}
    BY <1>7, <1>8, QueueSums
  <2> QED BY <2>1
<1>10. PICK qty \in Qty \ {0} :
         qty = LesserQty(taker.qty, maker.qty) /\ qty <= taker.qty /\ qty <= maker.qty
  BY <1>2, <1>9, Constants DEF LesserQty, Qty
<1>11. PICK left, total : left = SubQty(maker.qty, qty) /\ total = SubQty(LevelQty(side, price), qty)
  OBVIOUS
<1>12. left = maker.qty - qty
  BY <1>9, <1>10, <1>11, NoWrap
<1>13. /\ levels' = SetLevel(side, price, AfterTrade(old, left), total)
       /\ index' = IndexAfterTrade(maker, left)
       /\ arrived' = IF left = 0 THEN Departed(maker.id) ELSE arrived
       /\ taker' = [taker EXCEPT !.qty = SubQty(taker.qty, qty)]
       /\ fills' = Append(fills, [maker |-> maker.id, price |-> price, qty |-> qty])
       /\ outcome' = outcome
  BY <1>3, <1>5, <1>7, <1>8, <1>9, <1>10, <1>11 DEF Match
<1>14. taker' = [taker EXCEPT !.qty = taker.qty - qty]
  <2>1. SubQty(taker.qty, qty) = taker.qty - qty
    BY <1>2, <1>10, NoWrap
  <2> QED BY <1>13, <2>1
<1>15. \E at \in DOMAIN arrived :
         /\ arrived[at] = maker.id
         /\ BookInv' /\ DOMAIN index' \subseteq DOMAIN index
         /\ \A s \in Sides : PricesOf(s)' \subseteq PricesOf(s)
         /\ \A s \in Sides, p \in 1 .. MaxPrice :
              LevelQty(s, p)' = IF <<s, p>> = <<side, price>> THEN LevelQty(s, p) - qty
                                ELSE LevelQty(s, p)
         /\ ArrivalOrder' = IF qty = maker.qty THEN RemoveAt(ArrivalOrder, at)
                            ELSE [ArrivalOrder EXCEPT ![at] = Lowered(maker, qty)]
  <2>1. CASE left = 0
    <3>1. qty = maker.qty
      BY <1>9, <1>10, <1>12, <2>1, Constants DEF Qty
    <3>2. PICK orders \in Seq(Order) : orders = Tail(old)
      BY <1>8
    <3>3. /\ BookInv /\ side \in Sides /\ price \in 1 .. MaxPrice /\ orders \in Seq(Order)
          /\ 1 \in DOMAIN Queue(side, price) /\ TakenOut(orders, Queue(side, price), 1)
          /\ levels' = SetLevel(side, price, orders,
                                SubQty(LevelQty(side, price), Queue(side, price)[1].qty))
          /\ index' = Without(index, Queue(side, price)[1].id)
          /\ arrived' = Departed(Queue(side, price)[1].id)
      <4>1. AfterTrade(old, left) = orders /\ total = SubQty(LevelQty(side, price), maker.qty)
        BY <1>11, <2>1, <3>1, <3>2 DEF AfterTrade
      <4> QED BY <1>6, <1>8, <1>9, <1>13, <2>1, <3>2, <4>1 DEF IndexAfterTrade
    <3>4. /\ BookInv'
          /\ \A s \in Sides : PricesOf(s)' \subseteq PricesOf(s)
          /\ \A s \in Sides, p \in 1 .. MaxPrice :
               LevelQty(s, p)' = IF <<s, p>> = <<side, price>>
                                 THEN LevelQty(s, p) - Queue(side, price)[1].qty
                                 ELSE LevelQty(s, p)
          /\ \E at \in DOMAIN arrived :
               /\ arrived[at] = Queue(side, price)[1].id
               /\ ArrivalOrder' = RemoveAt(ArrivalOrder, at)
      BY ONLY <3>3, OrderRemoved
    <3>5. DOMAIN index' \subseteq DOMAIN index
      BY <3>3 DEF Without
    <3> QED BY <1>6, <1>9, <3>1, <3>4, <3>5
  <2>2. CASE left # 0
    <3>1. qty < maker.qty /\ qty # maker.qty
      BY <1>9, <1>10, <1>12, <2>2, Constants DEF Qty
    <3>2. PICK orders : orders = AfterTrade(old, left)
      OBVIOUS
    <3>3. /\ BookInv /\ side \in Sides /\ price \in 1 .. MaxPrice /\ qty \in Qty \ {0}
          /\ 1 \in DOMAIN Queue(side, price) /\ qty < Queue(side, price)[1].qty
          /\ Reduced(orders, Queue(side, price), 1, qty)
          /\ levels' = SetLevel(side, price, orders, SubQty(LevelQty(side, price), qty))
          /\ index' = index /\ arrived' = arrived
      <4>1. Reduced(orders, old, 1, qty)
        <5>1. orders = [old EXCEPT ![1] = [old[1] EXCEPT !.qty = left]]
          BY <2>2, <3>2 DEF AfterTrade
        <5> QED BY <1>9, <1>12, <5>1 DEF Reduced, Lowered
      <4> QED BY <1>6, <1>8, <1>9, <1>11, <1>12, <1>13, <2>2, <3>1, <3>2, <4>1 DEF IndexAfterTrade
    <3>4. /\ BookInv'
          /\ \A s \in Sides : PricesOf(s)' \subseteq PricesOf(s)
          /\ \A s \in Sides, p \in 1 .. MaxPrice :
               LevelQty(s, p)' = IF <<s, p>> = <<side, price>> THEN LevelQty(s, p) - qty
                                 ELSE LevelQty(s, p)
          /\ \E at \in DOMAIN arrived :
               /\ arrived[at] = Queue(side, price)[1].id
               /\ ArrivalOrder' = [ArrivalOrder EXCEPT ![at] = Lowered(Queue(side, price)[1], qty)]
      BY ONLY <3>3, OrderReduced
    <3> QED BY <1>6, <1>9, <1>12, <3>1, <3>2, <3>3, <3>4
  <2> QED BY <2>1, <2>2
<1>16. PICK at \in DOMAIN arrived :
         /\ arrived[at] = maker.id
         /\ BookInv' /\ DOMAIN index' \subseteq DOMAIN index
         /\ \A s \in Sides : PricesOf(s)' \subseteq PricesOf(s)
         /\ \A s \in Sides, p \in 1 .. MaxPrice :
              LevelQty(s, p)' = IF <<s, p>> = <<side, price>> THEN LevelQty(s, p) - qty
                                ELSE LevelQty(s, p)
         /\ ArrivalOrder' = IF qty = maker.qty THEN RemoveAt(ArrivalOrder, at)
                            ELSE [ArrivalOrder EXCEPT ![at] = Lowered(maker, qty)]
  BY <1>15
<1>17. Traded(side, price, maker, qty, at)
  BY ONLY <1>3, <1>4, <1>5, <1>6, <1>8, <1>9, <1>10, <1>13, <1>14, <1>16 DEF Traded
<1> QED
  BY <1>17

-----------------------------------------------------------------------------
(* What the levels offer an order *)

Acceptable(order) == {p \in 1 .. MaxPrice : Accepts(order, p)}
SideQty(side) == [p \in 1 .. MaxPrice |-> LevelQty(side, p)]
Reach(order) == SumFunctionOnSet(SideQty(Opposite(order.side)), Acceptable(order))

LEMMA AcceptableFinite ==
  ASSUME NEW order
  PROVE  IsFiniteSet(Acceptable(order)) /\ Acceptable(order) \subseteq 1 .. MaxPrice
<1>1. IsFiniteSet(1 .. MaxPrice)
  BY Constants, FS_Interval
<1> QED BY <1>1, FS_Subset DEF Acceptable

LEMMA SideQtyTyped ==
  ASSUME LevelsInv, NEW side \in Sides
  PROVE  \A p \in 1 .. MaxPrice :
           SideQty(side)[p] = LevelQty(side, p) /\ SideQty(side)[p] \in Qty /\ SideQty(side)[p] \in Nat
BY QueueTypes, Constants DEF QueuesTyped, SideQty, Qty

\* executable_qty is what the acceptable levels hold, capped at the order's size.
LEMMA ExecutableIsReach ==
  ASSUME LevelsInv, NEW order \in Order
  PROVE  Reach(order) \in Nat /\ ExecutableQty(order) = LesserQty(order.qty, Reach(order))
<1>1. PICK side \in Sides : side = Opposite(order.side)
  BY Opposites DEF Order
<1>2. PICK S, T, f, g :
        /\ S = Acceptable(order) /\ T = {p \in DOMAIN levels[side] : Accepts(order, p)}
        /\ f = SideQty(side) /\ g = [p \in T |-> levels[side][p].total_qty]
  OBVIOUS
<1>3. /\ IsFiniteSet(S) /\ T \in SUBSET S /\ IsFiniteSet(T)
      /\ \A p \in S : p \in 1 .. MaxPrice /\ f[p] \in Nat /\ f[p] \in Int
      /\ \A p \in S \ T : f[p] = 0
      /\ \A p \in T : f[p] = g[p]
  <2>1. IsFiniteSet(S) /\ S \subseteq 1 .. MaxPrice
    BY <1>2, AcceptableFinite
  <2>2. T \in SUBSET S
    BY <1>2 DEF LevelsInv, PricesOf, Acceptable
  <2>3. \A p \in S : f[p] = LevelQty(side, p) /\ f[p] \in Nat /\ f[p] \in Int
    BY <1>2, <2>1, SideQtyTyped
  <2>4. \A p \in S \ T : p \notin PricesOf(side)
    BY <1>2 DEF PricesOf, Acceptable
  <2>5. \A p \in T : p \in PricesOf(side) /\ g[p] = levels[side][p].total_qty
    BY <1>2 DEF PricesOf
  <2> QED BY <2>1, <2>2, <2>3, <2>4, <2>5, FS_Subset DEF LevelQty
<1>4. SumFunctionOnSet(f, S) = SumFunctionOnSet(f, T)
  BY ONLY <1>3, SumSupport
<1>5. SumFunctionOnSet(f, T) = SumFunctionOnSet(g, T)
  <2>1. IsFiniteSet(T) /\ \A p \in T : f[p] \in Int /\ f[p] = g[p]
    BY <1>3
  <2> QED BY ONLY <2>1, SumCongruence
<1>6. SumFunctionOnSet(f, S) \in Nat
  BY ONLY <1>3, SumOfNaturals
<1>7. Reach(order) = SumFunctionOnSet(f, S)
  BY <1>1, <1>2 DEF Reach
<1>8. ExecutableQty(order) = LesserQty(order.qty, SumFunctionOnSet(g, T))
  <2>1. DOMAIN g = T
    BY <1>2
  <2>2. ExecutableQty(order) = LesserQty(order.qty, SumFunction(g))
    BY <1>1, <1>2 DEF ExecutableQty
  <2> QED BY <2>1, <2>2 DEF SumFunction
<1> QED
  BY <1>4, <1>5, <1>6, <1>7, <1>8

\* What is out of reach of the best price is out of reach: the taker of an ended loop
\* accepts no price of the other side.
LEMMA NothingAccepted ==
  ASSUME LevelsInv, taker \in Order, taker.limit_price # 0, ~CanMatch, taker.qty > 0,
         NEW price \in PricesOf(Opposite(taker.side))
  PROVE  ~Accepts(taker, price)
<1>1. PICK side \in Sides : side = Opposite(taker.side) /\ taker.side \in Sides
  BY Opposites DEF Order
<1>2. /\ PricesOf(side) # {} /\ PricesOf(side) \subseteq 1 .. MaxPrice /\ price \in PricesOf(side)
      /\ ~Accepts(taker, BestPrice(side))
  BY <1>1 DEF CanMatch, LevelsInv
<1>3. PICK best \in PricesOf(side) :
        /\ best = BestPrice(side)
        /\ side = "Buy" => price <= best
        /\ side = "Sell" => best <= price
  BY <1>2, BestIsBest
<1>4. /\ best \in Int /\ price \in Int /\ taker.limit_price \in Int \cup {NoLimit}
      /\ ~Accepts(taker, best)
  BY <1>2, <1>3, Constants DEF Order
<1> QED
  BY <1>1, <1>3, <1>4 DEF Accepts, Opposite, Sides

-----------------------------------------------------------------------------
(* The inductive invariant *)

\* What the checks of submit_order establish and the loop keeps: the remainder of a
\* GTC order fits its level, and a fill-or-kill order can still trade in full.
TakerInv ==
  /\ taker \in Order \cup {NoTaker} /\ fills \in Seq(FillRecord)
  /\ taker = NoTaker => fills = <<>>
  /\ taker # NoTaker =>
       /\ taker.id \notin DOMAIN index /\ taker.limit_price # 0
       /\ taker.tif = "GTC" => /\ taker.limit_price # NoLimit
                               /\ LevelQty(taker.side, taker.limit_price) + taker.qty \in Qty
       /\ taker.tif = "FOK" => taker.qty <= Reach(taker)

IInv == BookInv /\ TakerInv /\ Uncrossed

LEMMA EmptyBook == Init => IInv
<1> SUFFICES ASSUME Init PROVE IInv
  OBVIOUS
<1>1. /\ \A side \in Sides : PricesOf(side) = {} /\ levels[side] = EmptyMap
      /\ levels = [side \in Sides |-> EmptyMap]
  BY DEF Init, PricesOf, EmptyMap
<1>2. LevelsInv
  <2>1. \A side \in Sides : [price \in PricesOf(side) |-> levels[side][price]] = EmptyMap
    BY <1>1 DEF EmptyMap
  <2> QED BY <1>1, <2>1 DEF LevelsInv
<1>3. \A side, price : side \in Sides => Queue(side, price) = <<>>
  BY <1>1 DEF Queue
<1>4. DOMAIN <<>> = {} /\ DOMAIN index = {} /\ index = [id \in DOMAIN index |-> index[id]]
  BY DEF Init, EmptyMap
<1>5. IndexInv
  BY <1>3, <1>4 DEF IndexInv, Ids, Filed
<1>6. ArrivedInv
  <2>1. arrived = <<>> /\ <<>> \in Seq(OrderIds)
    BY DEF Init
  <2> QED BY <1>3, <1>4, <2>1 DEF ArrivedInv, InOrder, IsInjective, Range
<1>7. TakerInv
  BY DEF Init, TakerInv
<1>8. Uncrossed
  BY <1>1 DEF Uncrossed, Sides
<1> QED BY <1>2, <1>5, <1>6, <1>7, <1>8 DEF IInv, BookInv

\* A step that leaves the book alone.
LEMMA BookUnchanged ==
  ASSUME IInv, UNCHANGED <<levels, index, arrived>>
  PROVE  BookInv' /\ Uncrossed' /\ ArrivalOrder' = ArrivalOrder
<1>1. /\ \A s \in Sides : PricesOf(s)' = PricesOf(s)
      /\ \A s, p : Queue(s, p)' = Queue(s, p)
      /\ levels' = levels /\ index' = index /\ arrived' = arrived
  BY DEF PricesOf, Queue
<1>2. LevelsInv'
  <2>1. levels' = [s \in Sides |-> [p \in PricesOf(s)' |-> levels'[s][p]]]
    BY <1>1 DEF IInv, BookInv, LevelsInv, PricesOf
  <2>2. ASSUME NEW s \in Sides
        PROVE  /\ PricesOf(s)' \subseteq 1 .. MaxPrice
               /\ \A p \in PricesOf(s)' : LevelOK(s, p, levels'[s][p])
    BY <1>1 DEF IInv, BookInv, LevelsInv
  <2> QED BY <2>1, <2>2 DEF LevelsInv, LevelOK, QueueOK, QueueSum, QtyOf, Level, Order, Qty
<1>3. IndexInv'
  BY <1>1 DEF IInv, BookInv, IndexInv, Ids, Filed
<1>4. ArrivedInv'
  BY <1>1 DEF IInv, BookInv, ArrivedInv, InOrder
<1>5. Uncrossed'
  BY <1>1 DEF IInv, Uncrossed, Sides
<1>6. ArrivalOrder' = ArrivalOrder
  BY <1>1 DEF ArrivalOrder, RestingOrder
<1> QED BY <1>2, <1>3, <1>4, <1>5, <1>6 DEF BookInv

LEMMA AcceptChecks ==
  ASSUME IInv, NEW order \in Order, Accept(order)
  PROVE  TakerInv'
<1>1. /\ Validate(order) = "None" /\ ~(order.tif = "FOK" /\ ExecutableQty(order) < order.qty)
      /\ taker' = order /\ UNCHANGED <<levels, index, fills>> /\ taker = NoTaker
  BY DEF Accept
<1>2. /\ order.limit_price # 0 /\ order.id \notin DOMAIN index
      /\ order.tif = "GTC" => /\ order.limit_price # NoLimit
                              /\ LevelQty(order.side, order.limit_price) + order.qty \in Qty
  BY <1>1 DEF Validate, NonPositivePrice, LevelQuantityOverflow
<1>3. order.tif = "FOK" => order.qty <= Reach(order)
  <2>1. Reach(order) \in Nat /\ ExecutableQty(order) = LesserQty(order.qty, Reach(order))
    BY ExecutableIsReach DEF IInv, BookInv
  <2>2. order.qty \in Nat
    BY Constants DEF Order, Qty
  <2> QED BY <1>1, <2>1, <2>2 DEF LesserQty
<1>4. /\ LevelQty(order.side, order.limit_price)' = LevelQty(order.side, order.limit_price)
      /\ Reach(order)' = Reach(order)
  BY <1>1 DEF LevelQty, PricesOf, Reach, SideQty, Acceptable
<1>5. fills' \in Seq(FillRecord) /\ taker' \in Order /\ taker' # NoTaker
  BY <1>1, Constants DEF IInv, TakerInv
<1> QED
  BY <1>1, <1>2, <1>3, <1>4, <1>5 DEF TakerInv, Reach

\* Fewer prices cross no more than before.
LEMMA FewerPrices ==
  ASSUME Uncrossed, \A s \in Sides : PricesOf(s)' \subseteq PricesOf(s)
  PROVE  Uncrossed'
BY DEF Uncrossed, Sides

\* A trade takes its quantity from the taker and from what is in the taker's reach.
LEMMA MatchKeeps ==
  ASSUME IInv, Match
  PROVE  IInv'
<1>1. /\ BookInv /\ LevelsInv /\ taker \in Order /\ taker # NoTaker /\ taker.side \in Sides
      /\ taker.qty \in Qty /\ taker.limit_price \in 0 .. MaxPrice \cup {NoLimit}
      /\ taker.id \notin DOMAIN index /\ taker.limit_price # 0 /\ fills \in Seq(FillRecord)
  BY DEF IInv, BookInv, TakerInv, Match, Order
<1>2. PICK side \in Sides, price \in 1 .. MaxPrice, maker \in Order, qty \in Qty \ {0},
           at \in DOMAIN arrived : Traded(side, price, maker, qty, at)
  BY <1>1, MatchTrades
<1>3. /\ side = Opposite(taker.side) /\ Accepts(taker, price)
      /\ qty = LesserQty(taker.qty, maker.qty) /\ BookInv' /\ LevelsInv'
      /\ DOMAIN index' \subseteq DOMAIN index
      /\ \A s \in Sides : PricesOf(s)' \subseteq PricesOf(s)
      /\ \A s \in Sides, p \in 1 .. MaxPrice :
           LevelQty(s, p)' = IF <<s, p>> = <<side, price>> THEN LevelQty(s, p) - qty ELSE LevelQty(s, p)
      /\ taker' = [taker EXCEPT !.qty = taker.qty - qty]
      /\ fills' = Append(fills, [maker |-> maker.id, price |-> price, qty |-> qty])
  BY <1>2 DEF Traded, BookInv
<1>4. qty <= taker.qty /\ taker.qty - qty \in Qty /\ maker.id \in OrderIds
  BY <1>1, <1>3, Constants DEF LesserQty, Qty, Order
<1>5. PICK rest : rest = taker'
  OBVIOUS
<1>6. /\ rest \in Order /\ rest # NoTaker /\ rest.id = taker.id /\ rest.qty = taker.qty - qty
      /\ rest.side = taker.side /\ rest.limit_price = taker.limit_price /\ rest.tif = taker.tif
  BY <1>1, <1>3, <1>4, <1>5, Constants DEF Order
<1>7. fills' \in Seq(FillRecord)
  BY <1>1, <1>3, <1>4, AppendProperties DEF FillRecord
<1>8. rest.tif = "GTC" => /\ rest.limit_price # NoLimit
                          /\ LevelQty(rest.side, rest.limit_price)' + rest.qty \in Qty
  <2> SUFFICES ASSUME rest.tif = "GTC"
               PROVE  /\ rest.limit_price # NoLimit
                      /\ LevelQty(rest.side, rest.limit_price)' + rest.qty \in Qty
    OBVIOUS
  <2>1. PICK own \in Sides, limit \in 1 .. MaxPrice :
          /\ own = rest.side /\ limit = rest.limit_price /\ own # side /\ limit # NoLimit
          /\ LevelQty(own, limit) + taker.qty \in Qty
    <3>1. /\ rest.limit_price # NoLimit /\ taker.side = rest.side
          /\ LevelQty(taker.side, taker.limit_price) + taker.qty \in Qty
      BY <1>1, <1>6 DEF IInv, TakerInv
    <3>2. rest.limit_price \in 1 .. MaxPrice
      BY <1>1, <1>6, <3>1, Constants
    <3>3. taker.side # side
      BY <1>1, <1>3, Opposites
    <3> QED BY <1>1, <1>6, <3>1, <3>2, <3>3
  <2>2. LevelQty(own, limit)' = LevelQty(own, limit) /\ LevelQty(own, limit) \in Qty
    BY <1>1, <1>3, <2>1, QueueTypes DEF QueuesTyped
  <2>3. LevelQty(own, limit) + rest.qty \in Qty
    BY <1>1, <1>4, <1>6, <2>1, <2>2, Constants DEF Qty
  <2> QED BY <2>1, <2>2, <2>3
<1>9. rest.tif = "FOK" => rest.qty <= Reach(rest)'
  <2> SUFFICES ASSUME rest.tif = "FOK" PROVE rest.qty <= Reach(rest)'
    OBVIOUS
  <2>1. PICK S, f, g : /\ S = Acceptable(rest) /\ f = SideQty(side) /\ g = SideQty(side)'
    OBVIOUS
  <2>2. side = Opposite(rest.side) /\ Acceptable(taker) = S
    BY <1>3, <1>6, <2>1 DEF Acceptable, Accepts
  <2>3. Reach(taker) = SumFunctionOnSet(f, S) /\ Reach(rest)' = SumFunctionOnSet(g, S)
    BY <1>3, <2>1, <2>2 DEF Reach
  <2>4. /\ IsFiniteSet(S) /\ price \in S
        /\ \A p \in S : f[p] \in Int /\ g[p] \in Int
        /\ \A p \in S \ {price} : f[p] = g[p]
    <3>1. IsFiniteSet(S) /\ S \subseteq 1 .. MaxPrice
      BY <2>1, AcceptableFinite
    <3>2. price \in S
      BY <1>3, <2>2 DEF Acceptable
    <3>3. \A p \in 1 .. MaxPrice : f[p] = LevelQty(side, p) /\ f[p] \in Nat
      BY <1>1, <2>1, SideQtyTyped
    <3>4. \A p \in 1 .. MaxPrice : g[p] = LevelQty(side, p)'
      BY <2>1 DEF SideQty
    <3>5. qty \in Int
      BY Constants DEF Qty
    <3> QED BY <1>3, <3>1, <3>2, <3>3, <3>4, <3>5
  <2>5. g[price] = f[price] - qty
    <3>1. f[price] = LevelQty(side, price) /\ g[price] = LevelQty(side, price)'
      BY <2>1 DEF SideQty
    <3> QED BY <1>3, <3>1
  <2>6. SumFunctionOnSet(g, S) = SumFunctionOnSet(f, S) - f[price] + g[price]
    <3>1. PICK x \in S : x = price
      BY <2>4
    <3>2. /\ IsFiniteSet(S) /\ \A y \in S : f[y] \in Int /\ g[y] \in Int
          /\ \A y \in S \ {x} : f[y] = g[y]
      BY <2>4, <3>1
    <3>3. SumFunctionOnSet(g, S) = SumFunctionOnSet(f, S) - f[x] + g[x]
      BY ONLY <3>2, SumUpdate
    <3> QED BY <3>1, <3>3
  <2>7. SumFunctionOnSet(f, S) \in Int
    BY ONLY <2>4, SumType
  <2>8. taker.qty <= SumFunctionOnSet(f, S)
    BY <1>1, <1>6, <2>3 DEF IInv, TakerInv
  <2>9. qty \in Int /\ taker.qty \in Int /\ f[price] \in Int
    BY <1>1, <2>4, Constants DEF Qty
  <2> QED BY <1>6, <2>3, <2>5, <2>6, <2>7, <2>8, <2>9
<1>10. TakerInv'
  BY <1>1, <1>3, <1>5, <1>6, <1>7, <1>8, <1>9 DEF TakerInv, Reach
<1>11. Uncrossed'
  BY <1>3, FewerPrices DEF IInv
<1> QED
  BY <1>3, <1>10, <1>11 DEF IInv

\* The remainder of a GTC order joins the book below every ask, or above every bid.
LEMMA RestAdds ==
  ASSUME IInv, Rest
  PROVE  /\ IInv' /\ ArrivalOrder' = Append(ArrivalOrder, taker)
         /\ \A s \in Sides, p \in 1 .. MaxPrice :
              LevelQty(s, p)' = IF <<s, p>> = <<taker.side, taker.limit_price>>
                                THEN LevelQty(s, p) + taker.qty ELSE LevelQty(s, p)
<1>1. /\ BookInv /\ LevelsInv /\ taker \in Order /\ taker.id \notin DOMAIN index
      /\ taker.limit_price # 0 /\ taker.tif = "GTC" /\ taker.qty > 0 /\ ~CanMatch
      /\ taker.limit_price # NoLimit
      /\ LevelQty(taker.side, taker.limit_price) + taker.qty \in Qty
  BY DEF IInv, BookInv, TakerInv, Rest
<1>2. PICK side \in Sides, price \in 1 .. MaxPrice, new \in Order :
        side = taker.side /\ price = taker.limit_price /\ new = taker
  BY <1>1, Constants DEF Order
<1>3. /\ BookInv /\ side \in Sides /\ price \in 1 .. MaxPrice /\ new \in Order
      /\ new.id \notin DOMAIN index /\ new.qty > 0 /\ new.tif = "GTC"
      /\ new.side = side /\ new.limit_price = price
      /\ LevelQty(side, price) + new.qty \in Qty
      /\ levels' = SetLevel(side, price, Append(Queue(side, price), new),
                            AddQty(LevelQty(side, price), new.qty))
      /\ index' = With(index, new.id, <<side, price>>)
      /\ arrived' = Append(arrived, new.id)
  BY <1>1, <1>2 DEF Rest, Queue
<1>4. /\ BookInv'
      /\ \A s \in Sides \ {side} : PricesOf(s)' = PricesOf(s)
      /\ PricesOf(side)' = PricesOf(side) \cup {price}
      /\ \A s \in Sides, p \in 1 .. MaxPrice :
           LevelQty(s, p)' = IF <<s, p>> = <<side, price>> THEN LevelQty(s, p) + new.qty
                             ELSE LevelQty(s, p)
      /\ ArrivalOrder' = Append(ArrivalOrder, new)
  BY ONLY <1>3, OrderAdded
<1>5. Uncrossed'
  <2>1. \A p \in PricesOf(Opposite(side)) : ~Accepts(new, p)
    BY <1>1, <1>2, NothingAccepted
  <2>2. \A p \in PricesOf(Opposite(side)) : IF side = "Buy" THEN ~(p <= price) ELSE ~(p >= price)
    BY <1>1, <1>2, <2>1 DEF Accepts
  <2>3. \A s \in Sides : PricesOf(s) \subseteq 1 .. MaxPrice
    BY <1>1 DEF LevelsInv
  <2>4. CASE side = "Buy"
    <3>1. Opposite(side) = "Sell" /\ "Sell" \in Sides \ {side}
      BY <2>4 DEF Opposite, Sides
    <3>2. \A ask \in PricesOf("Sell") : price < ask
      BY <2>2, <2>3, <2>4, <3>1
    <3>3. PricesOf("Sell")' = PricesOf("Sell") /\ PricesOf("Buy")' = PricesOf("Buy") \cup {price}
      BY <1>4, <2>4, <3>1
    <3> QED BY <3>2, <3>3 DEF IInv, Uncrossed
  <2>5. CASE side = "Sell"
    <3>1. Opposite(side) = "Buy" /\ "Buy" \in Sides \ {side} /\ side # "Buy"
      BY <2>5 DEF Opposite, Sides
    <3>2. \A bid \in PricesOf("Buy") : bid < price
      BY <2>2, <2>3, <2>5, <3>1
    <3>3. PricesOf("Buy")' = PricesOf("Buy") /\ PricesOf("Sell")' = PricesOf("Sell") \cup {price}
      BY <1>4, <2>5, <3>1
    <3> QED BY <3>2, <3>3 DEF IInv, Uncrossed
  <2> QED BY <2>4, <2>5 DEF Sides
<1>6. TakerInv'
  BY DEF Rest, Return, TakerInv
<1> QED
  BY <1>2, <1>4, <1>5, <1>6 DEF IInv

\* A cancelled order leaves the book.
LEMMA CancelRemoves ==
  ASSUME IInv, NEW id, Cancel(id)
  PROVE  /\ IInv'
         /\ \E at \in DOMAIN arrived :
              arrived[at] = id /\ ArrivalOrder' = RemoveAt(ArrivalOrder, at)
<1>1. BookInv /\ LevelsInv /\ IndexInv /\ id \in DOMAIN index
  BY DEF IInv, BookInv, Cancel
<1>2. /\ index[id][1] \in Sides /\ index[id][2] \in 1 .. MaxPrice
      /\ \E k \in DOMAIN Queue(index[id][1], index[id][2]) :
           Queue(index[id][1], index[id][2])[k].id = id
  BY <1>1, RestingIsFound DEF RestingFound
<1>3. PICK side \in Sides, price \in 1 .. MaxPrice : side = index[id][1] /\ price = index[id][2]
  BY <1>2
<1>4. PICK old : old = Queue(side, price)
  OBVIOUS
<1>5. old \in Seq(Order) /\ LevelQty(side, price) = levels[side][price].total_qty
      /\ old = levels[side][price].orders
  <2>1. price \in PricesOf(side)
    <3>1. DOMAIN <<>> = {}
      OBVIOUS
    <3> QED BY <1>2, <1>3, <3>1 DEF Queue
  <2> QED BY <1>1, <1>4, <2>1, QueueTypes DEF QueuesTyped, Queue, LevelQty
<1>6. PICK k : k = CHOOSE i \in DOMAIN old : old[i].id = id
  OBVIOUS
<1>7. k \in DOMAIN old /\ old[k].id = id
  BY <1>2, <1>3, <1>4, <1>6
<1>8. PICK orders : orders = RemoveAt(old, k)
  OBVIOUS
<1>9. orders \in Seq(Order) /\ TakenOut(orders, old, k)
  BY <1>5, <1>7, <1>8, RemoveAtTakesOut, LenProperties
<1>10. /\ BookInv /\ side \in Sides /\ price \in 1 .. MaxPrice /\ k \in DOMAIN Queue(side, price)
       /\ orders \in Seq(Order) /\ TakenOut(orders, Queue(side, price), k)
       /\ levels' = SetLevel(side, price, orders,
                             SubQty(LevelQty(side, price), Queue(side, price)[k].qty))
       /\ index' = Without(index, Queue(side, price)[k].id)
       /\ arrived' = Departed(Queue(side, price)[k].id)
  <2>1. /\ levels' = SetLevel(side, price, orders, SubQty(LevelQty(side, price), old[k].qty))
        /\ index' = Without(index, id) /\ arrived' = Departed(id)
    BY <1>3, <1>5, <1>6, <1>8 DEF Cancel
  <2> QED BY <1>1, <1>4, <1>7, <1>9, <2>1
<1>11. /\ BookInv' /\ \A s \in Sides : PricesOf(s)' \subseteq PricesOf(s)
       /\ \E at \in DOMAIN arrived :
            /\ arrived[at] = Queue(side, price)[k].id
            /\ ArrivalOrder' = RemoveAt(ArrivalOrder, at)
  BY ONLY <1>10, OrderRemoved
<1>12. Uncrossed'
  BY <1>11, FewerPrices DEF IInv
<1>13. TakerInv'
  BY Constants DEF Cancel, IInv, TakerInv
<1> QED
  BY <1>4, <1>7, <1>11, <1>12, <1>13 DEF IInv

\* The other steps leave the book alone.
LEMMA QuietStep ==
  ASSUME IInv,
         \/ \E order \in Order : Reject(order) \/ Kill(order) \/ Accept(order)
         \/ FinishFilled \/ CancelRemainder
         \/ \E id \in OrderIds : CancelUnknown(id)
         \/ UNCHANGED vars
  PROVE  IInv' /\ ArrivalOrder' = ArrivalOrder
<1>1. UNCHANGED <<levels, index, arrived>>
  BY DEF Reject, Kill, Accept, FinishFilled, CancelRemainder, CancelUnknown, vars
<1>2. BookInv' /\ Uncrossed' /\ ArrivalOrder' = ArrivalOrder
  BY <1>1, BookUnchanged
<1>3. TakerInv'
  <2>1. CASE \E order \in Order : Accept(order)
    BY <2>1, AcceptChecks
  <2>2. CASE FinishFilled \/ CancelRemainder
    <3>1. taker' = NoTaker /\ fills' = <<>>
      BY <2>2 DEF FinishFilled, CancelRemainder, Return
    <3> QED BY <3>1 DEF TakerInv
  <2>3. CASE \/ \E order \in Order : Reject(order) \/ Kill(order)
             \/ \E id \in OrderIds : CancelUnknown(id)
             \/ UNCHANGED vars
    <3>1. UNCHANGED <<levels, index, taker, fills>>
      BY <2>3 DEF Reject, Kill, CancelUnknown, vars
    <3>2. /\ LevelQty(taker.side, taker.limit_price)' = LevelQty(taker.side, taker.limit_price)
          /\ Reach(taker)' = Reach(taker)
      BY <3>1 DEF LevelQty, PricesOf, Reach, SideQty, Acceptable
    <3> QED BY <3>1, <3>2 DEF IInv, TakerInv
  <2> QED BY <2>1, <2>2, <2>3
<1> QED
  BY <1>2, <1>3 DEF IInv

LEMMA NextKeeps == IInv /\ [Next]_vars => IInv'
<1> SUFFICES ASSUME IInv, [Next]_vars PROVE IInv'
  OBVIOUS
<1>1. CASE Match
  BY <1>1, MatchKeeps
<1>2. CASE Rest
  BY <1>2, RestAdds
<1>3. CASE \E id \in OrderIds : Cancel(id)
  BY <1>3, CancelRemoves
<1>4. CASE \/ \E order \in Order : Reject(order) \/ Kill(order) \/ Accept(order)
           \/ FinishFilled \/ CancelRemainder
           \/ \E id \in OrderIds : CancelUnknown(id)
           \/ UNCHANGED vars
  BY <1>4, QuietStep
<1> QED
  BY <1>1, <1>2, <1>3, <1>4 DEF Next

\* The two structures describe the same orders, the list of arrivals has each of them
\* once, every total is the sum of its queue, the book is uncrossed, and the
\* submission in progress keeps what its checks established.
THEOREM BookInvariant == Spec => []IInv
<1>1. IInv /\ [Next]_vars => IInv'
  BY NextKeeps
<1> QED BY <1>1, EmptyBook, PTL DEF Spec

LEMMA BookIsSound == IInv => CheckInvariants
<1> SUFFICES ASSUME IInv PROVE CheckInvariants
  OBVIOUS
<1>1. LevelsInv /\ IndexInv /\ ArrivedInv /\ RestingFound /\ QueuesTyped
  BY RestingIsFound, QueueTypes DEF IInv, BookInv
<1>2. TypeOK
  BY <1>1 DEF IInv, TakerInv, LevelsInv, IndexInv, ArrivedInv, LevelOK, TypeOK
<1>3. ASSUME NEW side \in Sides, NEW price \in PricesOf(side)
      PROVE  /\ price \in 1 .. MaxPrice /\ levels[side][price].orders = Queue(side, price)
             /\ levels[side][price].orders # <<>>
             /\ levels[side][price].total_qty = QueueSum(Queue(side, price))
  BY <1>1 DEF LevelsInv, LevelOK, Queue
<1>4. OrdersIndexed
  <2> SUFFICES ASSUME NEW side \in Sides, NEW price \in PricesOf(side)
               PROVE  LET orders == Queue(side, price)
                      IN  /\ orders # <<>>
                          /\ \A i \in DOMAIN orders :
                               /\ orders[i].qty > 0 /\ orders[i].tif = "GTC"
                               /\ orders[i].side = side /\ orders[i].limit_price = price
                               /\ orders[i].id \in DOMAIN index
                               /\ index[orders[i].id] = <<side, price>>
                          /\ \A i, j \in DOMAIN orders : orders[i].id = orders[j].id => i = j
    BY <1>3 DEF OrdersIndexed
  <2>1. QueueOK(side, price, Queue(side, price)) /\ Queue(side, price) # <<>>
    BY <1>1, <1>3 DEF QueuesTyped
  <2>2. \A i \in DOMAIN Queue(side, price) :
          /\ Queue(side, price)[i].id \in DOMAIN index
          /\ index[Queue(side, price)[i].id] = <<side, price>>
    BY <1>1, <1>3 DEF RestingFound
  <2> QED BY <2>1, <2>2 DEF QueueOK
<1>5. IndexBacked
  <2> SUFFICES ASSUME NEW id \in DOMAIN index
               PROVE  /\ index[id][2] \in PricesOf(index[id][1])
                      /\ \E i \in DOMAIN levels[index[id][1]][index[id][2]].orders :
                           levels[index[id][1]][index[id][2]].orders[i].id = id
    BY DEF IndexBacked
  <2>1. PICK side \in Sides, price \in 1 .. MaxPrice : side = index[id][1] /\ price = index[id][2]
    BY <1>1 DEF RestingFound
  <2>2. \E k \in DOMAIN Queue(side, price) : Queue(side, price)[k].id = id
    BY <1>1, <2>1 DEF RestingFound
  <2>3. price \in PricesOf(side)
    <3>1. DOMAIN <<>> = {}
      OBVIOUS
    <3> QED BY <2>2, <3>1 DEF Queue
  <2> QED BY <1>3, <2>1, <2>2, <2>3
<1>6. TotalsExact
  <2> SUFFICES ASSUME NEW side \in Sides, NEW price \in PricesOf(side)
               PROVE  levels[side][price].total_qty
                        = SumFunction([i \in DOMAIN levels[side][price].orders
                                         |-> levels[side][price].orders[i].qty])
    BY DEF TotalsExact
  <2>1. DOMAIN QtyOf(Queue(side, price)) = DOMAIN Queue(side, price)
    BY DEF QtyOf
  <2>2. SumFunction(QtyOf(Queue(side, price))) = QueueSum(Queue(side, price))
    BY <2>1 DEF SumFunction, QueueSum
  <2> QED BY <1>3, <2>2 DEF QtyOf
<1> QED BY <1>2, <1>4, <1>5, <1>6 DEF CheckInvariants, IndexExact, IInv

\* book.rs:319-375: check_invariants would find nothing wrong, between the operations
\* and between the steps of a submission, whatever the orders and their number.
THEOREM BookIsConsistent == Spec => []CheckInvariants
BY BookIsSound, BookInvariant, PTL

\* book.rs:172-177: a fill-or-kill order that starts to trade is traded in full,
\* however many levels and orders that takes.
THEOREM FillOrKillHolds == Spec => FillOrKill
<1> DEFINE A == taker # NoTaker /\ taker' = NoTaker /\ taker.tif = "FOK" => outcome' = "Filled"
<1>1. IInv /\ [Next]_vars => [A]_vars
  <2> SUFFICES ASSUME IInv, Next, taker # NoTaker, taker' = NoTaker, taker.tif = "FOK"
               PROVE  outcome' = "Filled"
    OBVIOUS
  <2>1. /\ LevelsInv /\ taker \in Order /\ taker.limit_price # 0 /\ taker.qty <= Reach(taker)
    BY DEF IInv, BookInv, TakerInv
  <2>2. CASE CancelRemainder
    <3>1. ~CanMatch /\ taker.qty > 0
      BY <2>2 DEF CancelRemainder
    <3>2. PICK side \in Sides : side = Opposite(taker.side)
      BY <2>1, Opposites DEF Order
    <3>3. PICK S, f : S = Acceptable(taker) /\ f = SideQty(side) /\ Reach(taker) = SumFunctionOnSet(f, S)
      BY <3>2 DEF Reach
    <3>4. \A p \in S : p \notin PricesOf(side) /\ p \in 1 .. MaxPrice
      BY <2>1, <3>1, <3>2, <3>3, NothingAccepted DEF Acceptable
    <3>5. \A p \in S : f[p] = 0
      BY <3>3, <3>4 DEF SideQty, LevelQty
    <3>6. IsFiniteSet(S) /\ \A p \in S : f[p] \in Nat
      BY <3>3, <3>5, AcceptableFinite
    <3>7. SumFunctionOnSet(f, S) = 0
      <4>1. \A p \in S : f[p] = 0
        BY <3>5
      <4> QED BY ONLY <3>6, <4>1, SumOfNaturals
    <3>8. taker.qty \in Int
      BY <2>1, Constants DEF Order, Qty
    <3> QED BY <2>1, <3>1, <3>3, <3>7, <3>8
  <2>3. CASE FinishFilled
    BY <2>3 DEF FinishFilled, Return
  <2>4. CASE Rest
    BY <2>4 DEF Rest
  <2>5. CASE Match
    <3>1. PICK side \in Sides, price \in 1 .. MaxPrice, maker \in Order, qty \in Qty \ {0},
               at \in DOMAIN arrived : Traded(side, price, maker, qty, at)
      BY <2>1, <2>5, MatchTrades DEF IInv
    <3>2. IInv'
      BY <2>5, MatchKeeps
    <3>3. taker' = [taker EXCEPT !.qty = taker.qty - qty] /\ taker' = NoTaker
      BY <3>1 DEF Traded
    <3>4. qty <= taker.qty /\ taker.qty - qty \in Qty
      BY <2>1, <3>1, Constants DEF Traded, LesserQty, Order, Qty
    <3>5. [taker EXCEPT !.qty = taker.qty - qty] \in Order
      BY <2>1, <3>4 DEF Order
    <3> QED BY <3>3, <3>5, Constants
  <2>6. CASE \/ \E order \in Order : Reject(order) \/ Kill(order) \/ Accept(order)
             \/ \E id \in OrderIds : Cancel(id) \/ CancelUnknown(id)
    BY <2>6 DEF Reject, Kill, Accept, Cancel, CancelUnknown
  <2> QED BY <2>2, <2>3, <2>4, <2>5, <2>6 DEF Next
<1>2. Spec => [][A]_vars
  BY <1>1, BookInvariant, PTL DEF Spec
<1> QED BY <1>2 DEF FillOrKill

-----------------------------------------------------------------------------
(* The book and the naive book: what the flat list shows of the levels *)

LEMMA ReferenceSum == \A f : Reference!SumFunction(f) = SumFunction(f)
BY DEF Reference!SumFunction, SumFunction, Reference!SumFunctionOnSet, SumFunctionOnSet,
       Reference!FoldFunctionOnSet, FoldFunctionOnSet, Reference!MapThenFoldSet, MapThenFoldSet

\* Each place of the flat list is a place of the queue of its side and price.
FlatPlaced ==
  \A i \in DOMAIN ArrivalOrder :
    /\ ArrivalOrder[i] \in Order /\ ArrivalOrder[i].id = arrived[i]
    /\ ArrivalOrder[i].side \in Sides /\ ArrivalOrder[i].limit_price \in 1 .. MaxPrice
    /\ ArrivalOrder[i].qty \in Qty \ {0} /\ ArrivalOrder[i].qty \in Nat
    /\ ArrivalOrder[i].limit_price \in PricesOf(ArrivalOrder[i].side)
    /\ \E k \in DOMAIN Queue(ArrivalOrder[i].side, ArrivalOrder[i].limit_price) :
         Queue(ArrivalOrder[i].side, ArrivalOrder[i].limit_price)[k] = ArrivalOrder[i]

LEMMA FlatIsPlaced == BookInv => FlatPlaced
<1> SUFFICES ASSUME BookInv, NEW i \in DOMAIN ArrivalOrder
             PROVE  /\ ArrivalOrder[i] \in Order /\ ArrivalOrder[i].id = arrived[i]
                    /\ ArrivalOrder[i].side \in Sides /\ ArrivalOrder[i].limit_price \in 1 .. MaxPrice
                    /\ ArrivalOrder[i].qty \in Qty \ {0} /\ ArrivalOrder[i].qty \in Nat
                    /\ ArrivalOrder[i].limit_price \in PricesOf(ArrivalOrder[i].side)
                    /\ \E k \in DOMAIN Queue(ArrivalOrder[i].side, ArrivalOrder[i].limit_price) :
                         Queue(ArrivalOrder[i].side, ArrivalOrder[i].limit_price)[k] = ArrivalOrder[i]
  BY DEF FlatPlaced
<1>1. LevelsInv /\ IndexInv /\ FlatList /\ RestingFound
  BY ArrivalIsFlat, RestingIsFound DEF BookInv
<1>2. PICK id \in DOMAIN index : id = arrived[i] /\ ArrivalOrder[i] = RestingOrder(id)
  BY <1>1 DEF FlatList
<1>3. PICK order : order = RestingOrder(id)
  OBVIOUS
<1>4. /\ order \in Order /\ order.id = id /\ order.qty \in Qty \ {0}
      /\ index[id] = <<order.side, order.limit_price>>
      /\ order.side \in Sides /\ order.limit_price \in 1 .. MaxPrice
      /\ order.limit_price \in PricesOf(order.side)
  BY <1>1, <1>3, RestingTypes
<1>5. order.qty \in Nat
  BY <1>4, Constants DEF Qty
<1>6. \E k \in DOMAIN Queue(order.side, order.limit_price) :
        Queue(order.side, order.limit_price)[k] = order
  <2>1. index[id][1] = order.side /\ index[id][2] = order.limit_price
    BY <1>4
  <2>2. PICK k \in DOMAIN Queue(order.side, order.limit_price) :
          Queue(order.side, order.limit_price)[k].id = id
    BY <1>1, <2>1 DEF RestingFound
  <2>3. RestingOrder(id) = Queue(order.side, order.limit_price)[k]
    BY <1>1, <1>4, <2>2 DEF RestingFound
  <2> QED BY <1>3, <2>3
<1> QED
  BY <1>2, <1>3, <1>4, <1>5, <1>6

\* The places of the flat list that hold a side and a price, and what they hold.
FlatQty == [i \in DOMAIN ArrivalOrder |-> ArrivalOrder[i].qty]
PlacesAt(side, price) ==
  {i \in DOMAIN ArrivalOrder : ArrivalOrder[i].side = side /\ ArrivalOrder[i].limit_price = price}

LEMMA FlatSubset ==
  ASSUME BookInv, NEW T \in SUBSET DOMAIN ArrivalOrder
  PROVE  /\ IsFiniteSet(T)
         /\ \A i \in T : /\ FlatQty[i] = ArrivalOrder[i].qty
                         /\ FlatQty[i] \in Int /\ FlatQty[i] \in Nat
<1>1. IsFiniteSet(DOMAIN ArrivalOrder)
  BY ArrivalIsFlat, FS_Interval DEF FlatList
<1>2. \A i \in T : FlatQty[i] = ArrivalOrder[i].qty
  BY DEF FlatQty
<1> QED
  BY <1>1, <1>2, FlatIsPlaced, FS_Subset DEF FlatPlaced

\* A level's cached total is what the flat list has at its side and price.
LEMMA LevelIsFlat ==
  ASSUME BookInv, NEW side \in Sides, NEW price \in 1 .. MaxPrice
  PROVE  SumFunctionOnSet(FlatQty, PlacesAt(side, price)) = LevelQty(side, price)
<1>1. FlatList /\ FlatPlaced /\ RestingFound /\ QueuesTyped
  BY ArrivalIsFlat, FlatIsPlaced, RestingIsFound, QueueTypes DEF BookInv
<1>2. PICK old : old = Queue(side, price)
  OBVIOUS
<1>3. QueueOK(side, price, old) /\ LevelQty(side, price) = QueueSum(old)
  BY <1>1, <1>2 DEF QueuesTyped
<1>4. /\ IsFiniteSet(DOMAIN old)
      /\ \A k \in DOMAIN old : QtyOf(old)[k] = old[k].qty /\ QtyOf(old)[k] \in Int
  BY <1>3, QueueSums, Constants DEF Qty
<1>5. PICK b : b = [k \in DOMAIN old |-> CHOOSE i \in DOMAIN arrived : arrived[i] = old[k].id]
  OBVIOUS
<1>6. ASSUME NEW k \in DOMAIN old
      PROVE  /\ b[k] \in DOMAIN ArrivalOrder /\ arrived[b[k]] = old[k].id
             /\ ArrivalOrder[b[k]] = old[k]
  <2>1. PICK id \in DOMAIN index : id = old[k].id /\ RestingOrder(id) = old[k]
    BY <1>1, <1>2 DEF RestingFound
  <2>2. \E i \in DOMAIN arrived : arrived[i] = old[k].id
    BY <1>1, <2>1 DEF FlatList
  <2>3. b[k] \in DOMAIN arrived /\ arrived[b[k]] = old[k].id
    BY <1>5, <2>2
  <2> QED BY <1>1, <2>1, <2>3 DEF FlatList
<1>7. \A x, y \in DOMAIN old : b[x] = b[y] => x = y
  BY <1>3, <1>6 DEF QueueOK
<1>8. \A k \in DOMAIN old : QtyOf(old)[k] \in Int /\ FlatQty[b[k]] = QtyOf(old)[k]
  BY <1>4, <1>6 DEF FlatQty
<1>9. {b[k] : k \in DOMAIN old} = PlacesAt(side, price)
  <2>1. \A k \in DOMAIN old : b[k] \in PlacesAt(side, price)
    BY <1>3, <1>6 DEF PlacesAt, QueueOK
  <2>2. ASSUME NEW i \in PlacesAt(side, price) PROVE \E k \in DOMAIN old : b[k] = i
    <3>1. PICK k \in DOMAIN old : old[k] = ArrivalOrder[i]
      BY <1>1, <1>2 DEF PlacesAt, FlatPlaced
    <3>2. arrived[b[k]] = arrived[i] /\ i \in DOMAIN arrived /\ b[k] \in DOMAIN arrived
      BY <1>1, <1>6, <3>1 DEF PlacesAt, FlatPlaced, FlatList
    <3> QED BY <1>1, <3>2 DEF FlatList
  <2> QED BY <2>1, <2>2
<1>10. PICK f, g, D : f = QtyOf(old) /\ g = FlatQty /\ D = DOMAIN old
  OBVIOUS
<1>11. /\ IsFiniteSet(D) /\ \A x, y \in D : b[x] = b[y] => x = y
       /\ \A x \in D : f[x] \in Int /\ g[b[x]] = f[x]
  BY <1>4, <1>7, <1>8, <1>10
<1>12. SumFunctionOnSet(f, D) = SumFunctionOnSet(g, {b[x] : x \in D})
  BY ONLY <1>11, SumBijection
<1> QED
  BY <1>3, <1>9, <1>10, <1>12 DEF QueueSum

\* TotalQty adds up what the flat list has at some places.
LEMMA TotalIsSum ==
  ASSUME BookInv, NEW T \in SUBSET DOMAIN ArrivalOrder
  PROVE  Reference!TotalQty(T) = SumFunctionOnSet(FlatQty, T)
<1>1. PICK f : f = [i \in T |-> ArrivalOrder[i].qty]
  OBVIOUS
<1>2. Reference!TotalQty(T) = SumFunctionOnSet(f, T)
  <2>1. DOMAIN f = T
    BY <1>1
  <2> QED BY <1>1, <2>1, ReferenceSum DEF Reference!TotalQty, SumFunction
<1>3. PICK g : g = FlatQty
  OBVIOUS
<1>4. IsFiniteSet(T) /\ \A i \in T : f[i] \in Int /\ f[i] = g[i]
  BY <1>1, <1>3, FlatSubset
<1>5. SumFunctionOnSet(f, T) = SumFunctionOnSet(g, T)
  BY ONLY <1>4, SumCongruence
<1> QED
  BY <1>2, <1>3, <1>5

\* The candidates of the naive book are the orders of the acceptable levels.
LEMMA CandidatesAre ==
  ASSUME BookInv, NEW order \in Order
  PROVE  Reference!Candidates(order) =
           {i \in DOMAIN ArrivalOrder : /\ ArrivalOrder[i].side = Opposite(order.side)
                                        /\ ArrivalOrder[i].limit_price \in Acceptable(order)}
<1>1. order.side \in Sides
  BY DEF Order
<1>2. ASSUME NEW i \in DOMAIN ArrivalOrder
      PROVE  /\ ArrivalOrder[i].side # order.side <=> ArrivalOrder[i].side = Opposite(order.side)
             /\ ArrivalOrder[i].limit_price \in 1 .. MaxPrice
  BY <1>1, FlatIsPlaced, Opposites DEF FlatPlaced
<1> QED
  BY <1>2 DEF Reference!Candidates, Acceptable, Accepts

LEMMA AvailableIsReach ==
  ASSUME BookInv, NEW order \in Order
  PROVE  Reference!Available(order) = Reach(order)
<1>1. PICK side \in Sides : side = Opposite(order.side)
  BY Opposites DEF Order
<1>2. PICK D, P, g, h, key :
        /\ D = Reference!Candidates(order) /\ P = Acceptable(order)
        /\ g = FlatQty /\ h = SideQty(side)
        /\ key = [i \in DOMAIN ArrivalOrder |-> ArrivalOrder[i].limit_price]
  OBVIOUS
<1>3. D = {i \in DOMAIN ArrivalOrder : ArrivalOrder[i].side = side /\ key[i] \in P}
  BY <1>1, <1>2, CandidatesAre
<1>4. D \in SUBSET DOMAIN ArrivalOrder
  BY <1>3
<1>5. /\ IsFiniteSet(D) /\ IsFiniteSet(P)
      /\ \A i \in D : g[i] \in Int /\ key[i] \in P
      /\ \A p \in P : h[p] = SumFunctionOnSet(g, Class(D, key, p))
  <2>1. IsFiniteSet(D) /\ \A i \in D : g[i] \in Int
    BY <1>2, <1>4, FlatSubset
  <2>2. IsFiniteSet(P) /\ P \subseteq 1 .. MaxPrice
    BY <1>2, AcceptableFinite
  <2>3. ASSUME NEW p \in P PROVE h[p] = SumFunctionOnSet(g, Class(D, key, p))
    <3>1. p \in 1 .. MaxPrice
      BY <2>2
    <3>2. Class(D, key, p) = PlacesAt(side, p)
      BY <1>2, <1>3 DEF PlacesAt, Class
    <3>3. SumFunctionOnSet(g, PlacesAt(side, p)) = LevelQty(side, p)
      BY <1>2, <3>1, LevelIsFlat
    <3>4. h[p] = LevelQty(side, p)
      BY <1>2, <3>1 DEF SideQty
    <3> QED BY <3>2, <3>3, <3>4
  <2> QED BY <1>3, <2>1, <2>2, <2>3
<1>6. SumFunctionOnSet(g, D) = SumFunctionOnSet(h, P)
  BY ONLY <1>5, SumPartition
<1>7. Reference!Available(order) = SumFunctionOnSet(g, D)
  BY <1>2, <1>4, TotalIsSum DEF Reference!Available
<1> QED
  BY <1>1, <1>2, <1>6, <1>7 DEF Reach

-----------------------------------------------------------------------------
(* The book and the naive book: step by step *)

\* Both refuse an order for the same reason.
LEMMA SameErrors ==
  ASSUME IInv, NEW order \in Order
  PROVE  Reference!Errors(order) = Validate(order)
<1>1. /\ BookInv /\ LevelsInv /\ FlatList /\ FlatPlaced
      /\ order.qty \in Nat /\ order.side \in Sides
      /\ order.limit_price \in 0 .. MaxPrice \cup {NoLimit} /\ QtyModulus \in Nat
  BY ArrivalIsFlat, FlatIsPlaced, Constants DEF IInv, BookInv, Order, Qty
<1>2. (\E i \in DOMAIN ArrivalOrder : ArrivalOrder[i].id = order.id) <=> order.id \in DOMAIN index
  BY <1>1 DEF FlatList, FlatPlaced
<1>3. /\ order.limit_price \notin {0, NoLimit} <=> order.limit_price \in 1 .. MaxPrice
      /\ order.limit_price = 0 => order.limit_price # NoLimit
  BY <1>1, Constants
<1>4. ASSUME order.limit_price \in 1 .. MaxPrice
      PROVE  Reference!TotalQty(Reference!SameLevel(order)) + order.qty >= QtyModulus
               <=> LevelQty(order.side, order.limit_price) + order.qty \notin Qty
  <2>1. Reference!SameLevel(order) = PlacesAt(order.side, order.limit_price)
    BY DEF Reference!SameLevel, PlacesAt
  <2>2. PlacesAt(order.side, order.limit_price) \in SUBSET DOMAIN ArrivalOrder
    BY DEF PlacesAt
  <2>3. Reference!TotalQty(Reference!SameLevel(order)) = LevelQty(order.side, order.limit_price)
    BY <1>1, <1>4, <2>1, <2>2, TotalIsSum, LevelIsFlat
  <2>4. LevelQty(order.side, order.limit_price) \in Nat
    BY <1>1, <1>4, QueueTypes, Constants DEF QueuesTyped, Qty
  <2> QED BY <1>1, <2>3, <2>4 DEF Qty
<1>5. CASE order.qty = 0
  BY <1>5 DEF Reference!Errors, Validate
<1>6. CASE order.qty # 0 /\ order.limit_price = 0
  BY <1>3, <1>6 DEF Reference!Errors, Validate, NonPositivePrice
<1>7. CASE order.qty # 0 /\ order.limit_price = NoLimit
  BY <1>2, <1>3, <1>7 DEF Reference!Errors, Validate, NonPositivePrice, LevelQuantityOverflow
<1>8. CASE order.qty # 0 /\ order.limit_price \in 1 .. MaxPrice
  BY <1>2, <1>3, <1>4, <1>8 DEF Reference!Errors, Validate, NonPositivePrice, LevelQuantityOverflow
<1> QED
  BY <1>1, <1>5, <1>6, <1>7, <1>8

\* Both find the same quantity for an order.
LEMMA SameExecutable ==
  ASSUME IInv, NEW order \in Order
  PROVE  ExecutableQty(order) < order.qty <=> Reference!Available(order) < order.qty
<1>1. /\ Reach(order) \in Nat /\ ExecutableQty(order) = LesserQty(order.qty, Reach(order))
      /\ Reference!Available(order) = Reach(order) /\ order.qty \in Nat
  BY ExecutableIsReach, AvailableIsReach, Constants DEF IInv, BookInv, Order, Qty
<1> QED
  BY <1>1 DEF LesserQty

LEMMA ReferenceOrders == Reference!Order = Order
BY DEF Reference!Order, Order, Reference!Sides, Sides, Reference!Qty, Qty, TimeInForce

LEMMA InitIsReferenceInit == Init => Reference!Init
<1> SUFFICES ASSUME Init PROVE Reference!Init
  OBVIOUS
<1>1. ArrivalOrder = <<>>
  BY DEF Init, ArrivalOrder
<1> QED
  BY <1>1 DEF Init, Reference!Init

\* The flat list keeps what it has when the book does.
LEMMA SubmitIsReferenceStep ==
  ASSUME IInv, NEW order \in Order, Reject(order) \/ Kill(order) \/ Accept(order)
  PROVE  Reference!Next
<1>1. Reference!Errors(order) = Validate(order) /\ order \in Reference!Order
  BY SameErrors, ReferenceOrders
<1>2. ExecutableQty(order) < order.qty <=> Reference!Available(order) < order.qty
  BY SameExecutable
<1>3. Reference!Available(order) \in Nat /\ order.qty \in Nat
  BY ExecutableIsReach, AvailableIsReach, Constants DEF IInv, BookInv, Order, Qty
<1>4. ArrivalOrder' = ArrivalOrder
  BY QuietStep
<1>5. CASE Reject(order) \/ Kill(order)
  <2>1. Reference!Refuse(order)
    BY <1>1, <1>2, <1>4, <1>5 DEF Reject, Kill, Reference!Refuse
  <2> QED BY <1>1, <2>1 DEF Reference!Next
<1>6. CASE Accept(order)
  <2>1. Reference!Start(order)
    BY <1>1, <1>2, <1>3, <1>4, <1>6 DEF Accept, Reference!Start
  <2> QED BY <1>1, <2>1 DEF Reference!Next
<1> QED
  BY <1>5, <1>6

\* An order that precedes another in the levels precedes it in the naive book: the
\* front of the best level is the best and oldest candidate.
LEMMA FrontPrecedes ==
  ASSUME BookInv, taker \in Order,
         NEW side \in Sides, NEW price \in 1 .. MaxPrice, NEW maker, NEW at \in DOMAIN arrived,
         side = Opposite(taker.side), PricesOf(side) # {}, price = BestPrice(side),
         Accepts(taker, price), 1 \in DOMAIN Queue(side, price), maker = Queue(side, price)[1],
         arrived[at] = maker.id
  PROVE  /\ ArrivalOrder[at] = maker /\ at \in Reference!Candidates(taker)
         /\ \A j \in Reference!Candidates(taker) : Reference!Precedes(taker, at, j)
<1>1. /\ LevelsInv /\ FlatList /\ FlatPlaced /\ RestingFound /\ QueuesTyped
      /\ InOrder(Queue(side, price), arrived) /\ PricesOf(side) \subseteq 1 .. MaxPrice
  BY ArrivalIsFlat, FlatIsPlaced, RestingIsFound, QueueTypes DEF BookInv, ArrivedInv, LevelsInv
<1>2. PICK old : old = Queue(side, price)
  OBVIOUS
<1>3. QueueOK(side, price, old) /\ DOMAIN old = 1 .. Len(old) /\ Len(old) \in Nat
  BY <1>1, <1>2, QueueSums DEF QueuesTyped
<1>4. ArrivalOrder[at] = maker /\ at \in DOMAIN ArrivalOrder
  <2>1. maker.id \in DOMAIN index /\ RestingOrder(maker.id) = maker
    BY <1>1 DEF RestingFound
  <2>2. PICK id : id = maker.id /\ RestingOrder(id) = maker
    BY <2>1
  <2> QED BY <1>1, <2>2 DEF FlatList
<1>5. maker.side = side /\ maker.limit_price = price
  BY <1>2, <1>3 DEF QueueOK
<1>6. at \in Reference!Candidates(taker)
  <2>1. price \in Acceptable(taker)
    BY DEF Acceptable
  <2> QED BY <1>4, <1>5, <2>1, CandidatesAre
<1>7. ASSUME NEW j \in Reference!Candidates(taker) PROVE Reference!Precedes(taker, at, j)
  <2>1. j \in DOMAIN ArrivalOrder /\ ArrivalOrder[j].side = side
    BY CandidatesAre
  <2>a. PICK p \in PricesOf(side) : p = ArrivalOrder[j].limit_price
    BY <1>1, <2>1 DEF FlatPlaced
  <2>2. PICK k \in DOMAIN Queue(side, p) :
          p = ArrivalOrder[j].limit_price /\ Queue(side, p)[k] = ArrivalOrder[j]
    BY <1>1, <2>1, <2>a DEF FlatPlaced
  <2>3. /\ price \in Int /\ p \in Int /\ at \in Int /\ j \in Int /\ j \in DOMAIN arrived
        /\ ArrivalOrder[j].id = arrived[j]
        /\ side = "Buy" => p <= price
        /\ side = "Sell" => price <= p
    BY <1>1, <2>1, <2>2, BestIsBest DEF FlatList, FlatPlaced
  <2>4. p = price => at <= j
    <3> SUFFICES ASSUME p = price PROVE at <= j
      OBVIOUS
    <3>1. k \in DOMAIN old /\ old[k].id = arrived[j] /\ old[1].id = arrived[at]
      BY <1>2, <2>2, <2>3
    <3>2. CASE k = 1
      <4>1. arrived[at] = arrived[j]
        BY <3>1, <3>2
      <4> QED BY <1>1, <2>3, <4>1 DEF FlatList
    <3>3. CASE k # 1
      <4>1. 1 < k /\ 1 \in DOMAIN old
        BY <1>2, <1>3, <3>1, <3>3
      <4>2. at < j
        BY <1>1, <1>2, <2>3, <3>1, <4>1 DEF InOrder
      <4> QED BY <2>3, <4>2
    <3> QED BY <3>2, <3>3
  <2>5. PICK r, q : r = Reference!PriceRank(taker, at) /\ q = Reference!PriceRank(taker, j)
    OBVIOUS
  <2>6. /\ r = IF taker.side = "Buy" THEN price ELSE -price
        /\ q = IF taker.side = "Buy" THEN p ELSE -p
    BY <1>4, <1>5, <2>2, <2>5 DEF Reference!PriceRank
  <2>7. taker.side = "Buy" => side = "Sell"
    BY DEF Opposite
  <2>8. taker.side # "Buy" => side = "Buy"
    BY DEF Opposite
  <2>9. r < q \/ (r = q /\ at <= j)
    BY <2>3, <2>4, <2>6, <2>7, <2>8
  <2> QED BY <2>5, <2>9 DEF Reference!Precedes
<1> QED
  BY <1>4, <1>6, <1>7

LEMMA MatchIsTrade ==
  ASSUME IInv, Match
  PROVE  Reference!Next
<1>1. BookInv /\ taker \in Order /\ taker # NoTaker /\ taker.qty > 0
  BY DEF IInv, TakerInv, Match, CanMatch
<1>2. PICK side \in Sides, price \in 1 .. MaxPrice, maker \in Order, qty \in Qty \ {0},
           at \in DOMAIN arrived : Traded(side, price, maker, qty, at)
  BY <1>1, MatchTrades
<1>3. /\ ArrivalOrder[at] = maker /\ at \in Reference!Candidates(taker)
      /\ \A j \in Reference!Candidates(taker) : Reference!Precedes(taker, at, j)
  <2>1. /\ BookInv /\ taker \in Order
        /\ side \in Sides /\ price \in 1 .. MaxPrice /\ at \in DOMAIN arrived
        /\ side = Opposite(taker.side) /\ PricesOf(side) # {} /\ price = BestPrice(side)
        /\ Accepts(taker, price) /\ 1 \in DOMAIN Queue(side, price)
        /\ maker = Queue(side, price)[1] /\ arrived[at] = maker.id
    BY <1>1, <1>2 DEF Traded
  <2> QED BY ONLY <2>1, FrontPrecedes
<1>4. /\ qty = IF taker.qty <= maker.qty THEN taker.qty ELSE maker.qty
      /\ taker' = [taker EXCEPT !.qty = taker.qty - qty]
      /\ ArrivalOrder' = IF qty = maker.qty THEN RemoveAt(ArrivalOrder, at)
                         ELSE [ArrivalOrder EXCEPT ![at] = Lowered(maker, qty)]
      /\ fills' = Append(fills, [maker |-> maker.id, price |-> price, qty |-> qty])
      /\ outcome' = outcome
  BY <1>2 DEF Traded, LesserQty
<1>5. maker.limit_price = price
  <2>1. QueueOK(side, price, Queue(side, price))
    BY <1>1, QueueTypes DEF BookInv, QueuesTyped
  <2> QED BY <1>2, <2>1 DEF Traded, QueueOK
<1>6. RemoveAt(ArrivalOrder, at) = Reference!RemoveAt(ArrivalOrder, at)
  BY DEF RemoveAt, Reference!RemoveAt
<1>7. [ArrivalOrder EXCEPT ![at] = Lowered(maker, qty)]
        = [ArrivalOrder EXCEPT ![at].qty = @ - qty]
  BY <1>3 DEF Lowered
<1>8. Reference!Trade
  BY <1>1, <1>3, <1>4, <1>5, <1>6, <1>7 DEF Reference!Trade
<1> QED BY <1>8 DEF Reference!Next

\* When the loop has ended, the naive book has no candidate left either.
LEMMA NoCandidates ==
  ASSUME IInv, taker # NoTaker, ~CanMatch, taker.qty > 0
  PROVE  Reference!Candidates(taker) = {}
<1>1. BookInv /\ LevelsInv /\ FlatPlaced /\ taker \in Order /\ taker.limit_price # 0
  BY FlatIsPlaced DEF IInv, BookInv, TakerInv
<1>2. ASSUME NEW j \in Reference!Candidates(taker) PROVE FALSE
  <2>1. /\ j \in DOMAIN ArrivalOrder /\ ArrivalOrder[j].side = Opposite(taker.side)
        /\ Accepts(taker, ArrivalOrder[j].limit_price)
    BY <1>1, CandidatesAre DEF Acceptable
  <2>2. ArrivalOrder[j].limit_price \in PricesOf(Opposite(taker.side))
    BY <1>1, <2>1 DEF FlatPlaced
  <2> QED BY <1>1, <2>1, <2>2, NothingAccepted
<1> QED BY <1>2

LEMMA EndIsFinish ==
  ASSUME IInv, FinishFilled \/ Rest \/ CancelRemainder
  PROVE  Reference!Next
<1>1. taker # NoTaker /\ taker' = NoTaker /\ fills' = <<>>
  BY DEF FinishFilled, Rest, CancelRemainder, Return
<1>2. CASE FinishFilled
  <2>1. ArrivalOrder' = ArrivalOrder
    BY <1>2, QuietStep
  <2>2. Reference!Finish
    BY <1>1, <1>2, <2>1 DEF FinishFilled, Return, Reference!Finish
  <2> QED BY <2>2 DEF Reference!Next
<1>3. CASE CancelRemainder
  <2>1. ArrivalOrder' = ArrivalOrder
    BY <1>3, QuietStep
  <2>2. Reference!Candidates(taker) = {} /\ taker.qty > 0
    BY <1>3, NoCandidates DEF CancelRemainder
  <2>3. taker.tif # "GTC" /\ outcome' = "Cancelled" /\ taker.qty # 0
    BY <1>3, <2>2 DEF CancelRemainder, Return
  <2>4. Reference!Finish
    BY <1>1, <2>1, <2>2, <2>3 DEF Reference!Finish
  <2> QED BY <2>4 DEF Reference!Next
<1>4. CASE Rest
  <2>1. ArrivalOrder' = Append(ArrivalOrder, taker)
    BY <1>4, RestAdds
  <2>2. Reference!Candidates(taker) = {} /\ taker.qty > 0
    BY <1>4, NoCandidates DEF Rest
  <2>3. taker.tif = "GTC" /\ outcome' = "Resting" /\ taker.qty # 0
    BY <1>4, <2>2 DEF Rest, Return
  <2>4. Reference!Finish
    BY <1>1, <2>1, <2>2, <2>3 DEF Reference!Finish
  <2> QED BY <2>4 DEF Reference!Next
<1> QED
  BY <1>2, <1>3, <1>4

LEMMA CancelIsReferenceStep ==
  ASSUME IInv, NEW id \in OrderIds, Cancel(id) \/ CancelUnknown(id)
  PROVE  Reference!Next
<1>1. FlatList /\ FlatPlaced /\ taker = NoTaker /\ UNCHANGED <<taker, fills>>
  BY ArrivalIsFlat, FlatIsPlaced DEF IInv, Cancel, CancelUnknown
<1>2. CASE Cancel(id)
  <2>1. PICK at \in DOMAIN arrived :
          arrived[at] = id /\ ArrivalOrder' = RemoveAt(ArrivalOrder, at)
    BY <1>2, CancelRemoves
  <2>2. at \in DOMAIN ArrivalOrder /\ ArrivalOrder[at].id = id
    BY <1>1, <2>1 DEF FlatList, FlatPlaced
  <2>3. RemoveAt(ArrivalOrder, at) = Reference!RemoveAt(ArrivalOrder, at)
    BY DEF RemoveAt, Reference!RemoveAt
  <2>4. Reference!Cancel(id)
    BY <1>1, <1>2, <2>1, <2>2, <2>3 DEF Cancel, Reference!Cancel
  <2> QED BY <2>4 DEF Reference!Next
<1>3. CASE CancelUnknown(id)
  <2>1. ArrivalOrder' = ArrivalOrder /\ outcome' = "NotResting" /\ id \notin DOMAIN index
    BY <1>3, QuietStep DEF CancelUnknown
  <2>2. \A i \in DOMAIN ArrivalOrder : ArrivalOrder[i].id # id
    BY <1>1, <2>1 DEF FlatList, FlatPlaced
  <2>3. Reference!Cancel(id)
    BY <1>1, <2>1, <2>2 DEF Reference!Cancel
  <2> QED BY <2>3 DEF Reference!Next
<1> QED
  BY <1>2, <1>3

\* reference_model.rs:1-7: for any sequence of calls the book gives the outcomes, the
\* fills in their order and the resting orders of the naive book, which keeps no index
\* and no totals and searches the whole list for the best and oldest order.
THEOREM BookImplementsReference == Spec => ImplementsReference
<1>1. IInv /\ [Next]_vars => [Reference!Next]_(Reference!vars)
  <2> SUFFICES ASSUME IInv, [Next]_vars PROVE [Reference!Next]_(Reference!vars)
    OBVIOUS
  <2>1. CASE \E order \in Order : Reject(order) \/ Kill(order) \/ Accept(order)
    BY <2>1, SubmitIsReferenceStep
  <2>2. CASE Match
    BY <2>2, MatchIsTrade
  <2>3. CASE FinishFilled \/ Rest \/ CancelRemainder
    BY <2>3, EndIsFinish
  <2>4. CASE \E id \in OrderIds : Cancel(id) \/ CancelUnknown(id)
    BY <2>4, CancelIsReferenceStep
  <2>5. CASE UNCHANGED vars
    <3>1. ArrivalOrder' = ArrivalOrder
      BY <2>5, QuietStep
    <3> QED BY <2>5, <3>1 DEF vars, Reference!vars
  <2> QED BY <2>1, <2>2, <2>3, <2>4, <2>5 DEF Next
<1>2. Spec => Reference!Init /\ [][Reference!Next]_(Reference!vars)
  BY <1>1, BookInvariant, InitIsReferenceInit, PTL DEF Spec
<1> QED BY <1>2 DEF ImplementsReference, Reference!Spec

-----------------------------------------------------------------------------
(* The venue: the prices of a ladder *)

LEMMA MaxOfTwo ==
  ASSUME NEW a \in Int, NEW b \in Int
  PROVE  Max({a, b}) \in {a, b} /\ Max({a, b}) >= a /\ Max({a, b}) >= b
<1>1. \E x \in {a, b} : \A y \in {a, b} : x >= y
  OBVIOUS
<1> QED BY <1>1 DEF Max

LEMMA MinOfTwo ==
  ASSUME NEW a \in Int, NEW b \in Int
  PROVE  Min({a, b}) \in {a, b} /\ Min({a, b}) <= a /\ Min({a, b}) <= b
<1>1. \E x \in {a, b} : \A y \in {a, b} : x <= y
  OBVIOUS
<1> QED BY <1>1 DEF Min

LEMMA ProductGrows ==
  ASSUME NEW a \in Nat, NEW b \in Nat, NEW n \in Nat \ {0}
  PROVE  /\ a * n \in Nat /\ n * a \in Nat /\ n * a = a * n
         /\ a <= b => a * n <= b * n
         /\ a < b => a * n + n <= b * n
<1>1. a * n \in Nat /\ n * a \in Nat /\ n * a = a * n
  OBVIOUS
<1>2. a <= b => a * n <= b * n
  OBVIOUS
<1>3. a < b => (a + 1) * n <= b * n
  OBVIOUS
<1>4. (a + 1) * n = a * n + n
  OBVIOUS
<1>5. b * n \in Nat
  OBVIOUS
<1> QED BY <1>1, <1>2, <1>3, <1>4, <1>5

Levels == 1 .. market.levels

\* The market is one of those given, and level_step accepts it.
MarketInv == market \in Markets /\ LadderFits(market, Step)

LEMMA SeqMonotone ==
  ASSUME NEW S, NEW T, S \subseteq T, NEW s \in Seq(S)
  PROVE  s \in Seq(T)
OBVIOUS

LEMMA MarketTypes ==
  ASSUME VenueAssumption, MarketInv
  PROVE  /\ market.reference \in 1 .. MaxPrice /\ market.reference \in Nat
         /\ market.levels \in Nat \ {0} /\ market.levels \in Nat
         /\ market.qty \in Qty \ {0} /\ market.qty \in Nat \ {0}
         /\ Step \in Nat \ {0}
         /\ Levels \subseteq Nat \ {0} /\ 1 \in Levels
<1>1. market \in [reference : 1 .. MaxPrice, levels : Nat \ {0},
                  qty : 1 .. QtyModulus - 1, bps : Nat \ {0}]
  BY DEF VenueAssumption, MarketInv
<1>2. MaxPrice \in Nat /\ QtyModulus \in Nat
  BY Constants
<1>3. /\ market.reference \in Nat /\ market.levels \in Nat \ {0} /\ market.bps \in Nat \ {0}
      /\ market.qty \in Nat \ {0} /\ market.qty \in Qty \ {0}
  BY <1>1, <1>2 DEF Qty
<1>4. PICK n \in Nat : n = market.reference * market.bps
  BY <1>3
<1>5. n \div 10000 \in Nat
  BY <1>4
<1>6. Step \in Nat \ {0}
  <2>1. Step = Max({1, n \div 10000})
    BY <1>4 DEF Step, LevelStep
  <2> QED BY <1>5, <2>1, MaxOfTwo
<1> QED BY <1>1, <1>3, <1>6 DEF Levels

\* The prices of the ladder are prices of the book, in order from the reference price
\* outwards, asks above it and bids below.
LEMMA LadderPrices ==
  ASSUME VenueAssumption, MarketInv
  PROVE  /\ \A side \in Sides, k \in Levels : QuotePrice(side, k) \in 1 .. MaxPrice
         /\ \A k \in Levels : /\ QuotePrice("Sell", k) > market.reference
                              /\ QuotePrice("Buy", k) < market.reference
         /\ \A side \in Sides, j, k \in Levels :
              /\ j < k <=> Better(side, QuotePrice(side, j), QuotePrice(side, k))
              /\ QuotePrice(side, j) = QuotePrice(side, k) => j = k
         /\ QuotePrice("Sell", 1) = market.reference + Step
         /\ QuotePrice("Buy", 1) = market.reference - Step
<1>1. PICK r, s, n : r = market.reference /\ s = Step /\ n = market.levels
  OBVIOUS
<1>2. /\ r \in Nat /\ s \in Nat \ {0} /\ n \in Nat \ {0} /\ MaxPrice \in Nat /\ Levels = 1 .. n
      /\ r - s * n > 0 /\ r + s * n <= MaxPrice
  BY <1>1, MarketTypes, Constants DEF MarketInv, LadderFits, Levels
<1>3. ASSUME NEW k \in Levels
      PROVE  /\ QuotePrice("Sell", k) = r + s * k /\ QuotePrice("Buy", k) = r - s * k
             /\ s * k \in Nat /\ s * k > 0 /\ s * k <= s * n
  <2>1. k \in Nat \ {0} /\ k <= n
    BY <1>2
  <2>2. s * k \in Nat /\ s * k <= s * n /\ s * n \in Nat
    BY <1>2, <2>1, ProductGrows
  <2>3. 0 * s + s <= k * s /\ k * s = s * k /\ 0 * s = 0
    BY <1>2, <2>1, ProductGrows
  <2>4. s * k > 0
    BY <1>2, <2>2, <2>3
  <2>5. r - s * k > 0
    BY <1>2, <2>2
  <2>6. Max({0, r - s * k}) = r - s * k
    <3>1. PICK x \in Int : x = r - s * k
      BY <1>2, <2>2
    <3>2. x > 0
      BY <2>5, <3>1
    <3>3. Max({0, x}) \in {0, x} /\ Max({0, x}) >= x
      BY ONLY <3>1, MaxOfTwo
    <3>4. Max({0, x}) = x
      BY ONLY <3>1, <3>2, <3>3
    <3> QED BY <3>1, <3>4
  <2> QED BY <1>1, <2>2, <2>4, <2>6 DEF QuotePrice
<1>4. \A k \in Levels : /\ QuotePrice("Sell", k) \in 1 .. MaxPrice /\ QuotePrice("Sell", k) > r
                        /\ QuotePrice("Buy", k) \in 1 .. MaxPrice /\ QuotePrice("Buy", k) < r
  <2> SUFFICES ASSUME NEW k \in Levels
               PROVE  /\ QuotePrice("Sell", k) \in 1 .. MaxPrice /\ QuotePrice("Sell", k) > r
                      /\ QuotePrice("Buy", k) \in 1 .. MaxPrice /\ QuotePrice("Buy", k) < r
    OBVIOUS
  <2>1. PICK x, y \in Nat : x = s * k /\ y = s * n
    BY <1>2, <1>3, ProductGrows
  <2>2. x > 0 /\ x <= y /\ r - y > 0 /\ r + y <= MaxPrice
    BY <1>2, <1>3, <2>1
  <2>3. r <= MaxPrice /\ r + x \in 1 .. MaxPrice /\ r - x \in 1 .. MaxPrice
    BY <1>2, <2>1, <2>2
  <2> QED BY <1>2, <1>3, <2>1, <2>2, <2>3
<1>5. ASSUME NEW j \in Levels, NEW k \in Levels
      PROVE  /\ j < k <=> s * j < s * k
             /\ s * j = s * k => j = k
  <2>1. j \in Nat /\ k \in Nat
    BY <1>2
  <2>2. j < k => j * s + s <= k * s
    BY <1>2, <2>1, ProductGrows
  <2>3. k < j => k * s + s <= j * s
    BY <1>2, <2>1, ProductGrows
  <2>4. PICK x, y \in Nat : x = s * j /\ y = s * k
    BY <1>3
  <2>5. j * s = x /\ k * s = y
    BY <1>2, <2>1, <2>4, ProductGrows
  <2>6. (j < k => x + s <= y) /\ (k < j => y + s <= x)
    BY <2>2, <2>3, <2>5
  <2> QED BY <1>2, <2>1, <2>4, <2>6
<1>6. ASSUME NEW side \in Sides, NEW j \in Levels, NEW k \in Levels
      PROVE  /\ j < k <=> Better(side, QuotePrice(side, j), QuotePrice(side, k))
             /\ QuotePrice(side, j) = QuotePrice(side, k) => j = k
  <2>1. PICK x, y \in Nat : x = s * j /\ y = s * k
    BY <1>3
  <2>2. (j < k <=> x < y) /\ (x = y => j = k)
    BY <1>5, <2>1
  <2>3. CASE side = "Buy"
    <3>1. QuotePrice(side, j) = r - x /\ QuotePrice(side, k) = r - y
      BY <1>3, <2>1, <2>3
    <3> QED BY <1>2, <2>1, <2>2, <2>3, <3>1 DEF Better
  <2>4. CASE side = "Sell"
    <3>1. QuotePrice(side, j) = r + x /\ QuotePrice(side, k) = r + y
      BY <1>3, <2>1, <2>4
    <3> QED BY <1>2, <2>1, <2>2, <2>4, <3>1 DEF Better
  <2> QED BY <2>3, <2>4 DEF Sides
<1>7. QuotePrice("Sell", 1) = r + s /\ QuotePrice("Buy", 1) = r - s
  <2>1. 1 \in Levels /\ s * 1 = s
    BY <1>2
  <2> QED BY <1>3, <2>1
<1>8. \A side \in Sides, k \in Levels : QuotePrice(side, k) \in 1 .. MaxPrice
  BY <1>4 DEF Sides
<1> QED BY <1>1, <1>4, <1>6, <1>7, <1>8

-----------------------------------------------------------------------------
(* What holds of a market at every step *)

\* The place of a level in the order the quotes are submitted, the number of quotes
\* that rest, and what the level holds: while the ladder is built, all or nothing;
\* else what the children left of it.
Number(side, k) == 2 * (k - 1) + IF side = "Sell" THEN 0 ELSE 1
Placed == IF taker = NoTaker THEN rung ELSE rung - 1
Depth(side, k) ==
  IF phase = "Quoting" THEN IF Number(side, k) < Placed THEN market.qty ELSE 0
                       ELSE LevelLeft(side, k)

LadderInv ==
  phase # "Cancelling" =>
    \A side \in Sides :
      /\ \A k \in Levels : LevelQty(side, QuotePrice(side, k)) = Depth(side, k)
      /\ \A price \in PricesOf(side) : \E k \in Levels : price = QuotePrice(side, k)

LadderIds == Max({2 * m.levels : m \in Markets})
Refreshes == IF phase = "Idle" THEN ticks + 1 ELSE ticks

CountersInv ==
  /\ phase \in {"Idle", "Trading", "Cancelling", "Quoting"}
  /\ rung \in 0 .. 2 * market.levels /\ ticks \in 0 .. MaxTicks
  /\ next_child_id \in 1 .. MaxChildren + 1
  /\ next_quote_id \in Nat /\ QuoteIdBase <= next_quote_id
  /\ next_quote_id <= QuoteIdBase + Refreshes * (LadderIds + OtherQuotes)
                        + IF phase = "Quoting" THEN rung ELSE 0
  /\ traded \in [Sides -> 0 .. market.levels * market.qty]
  /\ phase = "Idle" => \A side \in Sides : traded[side] = 0

\* Only quotes rest, all known to the next refresh, and one to a level.
QuotesInv ==
  /\ quote_ids \in Seq(QuoteIdBase .. next_quote_id - 1)
  /\ DOMAIN index \subseteq ToSet(quote_ids)
  /\ \A a, b \in DOMAIN index : index[a] = index[b] => a = b

\* The submission in progress is a child's, or that of the last quote.
SubmissionInv ==
  /\ taker # NoTaker => phase \in {"Trading", "Quoting"}
  /\ taker # NoTaker /\ phase = "Trading" =>
       taker.tif = "IOC" /\ taker.id \in 1 .. next_child_id - 1
  /\ taker # NoTaker /\ phase = "Quoting" =>
       /\ rung > 0 /\ fills = <<>>
       /\ taker.id \in ToSet(quote_ids) /\ taker.tif = "GTC" /\ taker.qty = market.qty
       /\ \E side \in Sides, k \in Levels :
            /\ Number(side, k) = rung - 1
            /\ taker.side = side /\ taker.limit_price = QuotePrice(side, k)
  /\ NothingRejected

VenueInv == IInv /\ MarketInv /\ CountersInv /\ QuotesInv /\ SubmissionInv /\ LadderInv

-----------------------------------------------------------------------------
(* Numbers of quotes *)

\* Every finite set of naturals has a greatest member.
LEMMA GreatestNat ==
  ASSUME NEW S \in SUBSET Nat, IsFiniteSet(S), S # {}
  PROVE  Max(S) \in S /\ \A x \in S : Max(S) >= x
<1> DEFINE F == {T \in SUBSET S : T = {} \/ \E x \in T : \A y \in T : x >= y}
<1>1. {} \in F
  OBVIOUS
<1>2. ASSUME NEW T \in SUBSET S, NEW x \in S \ T, T \in F PROVE T \cup {x} \in F
  <2>1. \E z \in T \cup {x} : \A y \in T \cup {x} : z >= y
    <3>1. CASE T = {}
      BY <3>1
    <3>2. CASE T # {}
      <4>1. PICK z \in T : \A y \in T : z >= y
        BY <1>2, <3>2
      <4>2. z \in Nat /\ x \in Nat /\ \A y \in T : y \in Nat
        BY <1>2
      <4>3. CASE z >= x
        BY <4>1, <4>2, <4>3
      <4>4. CASE x > z
        BY <4>1, <4>2, <4>4
      <4> QED BY <4>2, <4>3, <4>4
    <3> QED BY <3>1, <3>2
  <2> QED BY <1>2, <2>1
<1> HIDE DEF F
<1>3. S \in F
  BY <1>1, <1>2, FiniteInduction
<1>4. \E x \in S : \A y \in S : x >= y
  BY <1>3 DEF F
<1> QED BY <1>4 DEF Max

LEMMA LadderIdsBound ==
  ASSUME VenueAssumption, MarketInv
  PROVE  LadderIds \in Nat /\ 2 * market.levels <= LadderIds
<1> DEFINE S == {2 * m.levels : m \in Markets}
           f == [m \in Markets |-> 2 * m.levels]
<1>1. \A m \in Markets : m.levels \in Nat
  BY DEF VenueAssumption
<1>2. S \in SUBSET Nat /\ 2 * market.levels \in S
  BY <1>1 DEF MarketInv
<1>3. f \in Surjection(Markets, S)
  BY DEF Surjection
<1>4. IsFiniteSet(S)
  BY <1>3, FS_Surjection DEF VenueAssumption
<1>5. LadderIds = Max(S)
  BY DEF LadderIds
<1> HIDE DEF S, f
<1>6. Max(S) \in S /\ \A x \in S : Max(S) >= x
  BY <1>2, <1>4, GreatestNat
<1> QED BY <1>2, <1>5, <1>6

\* The ids of quotes are order ids, and no child's.
LEMMA QuoteIds ==
  ASSUME VenueAssumption, MarketInv, CountersInv
  PROVE  /\ next_quote_id \in QuoteIdBase .. MaxQuoteId /\ next_quote_id \in OrderIds
         /\ MaxQuoteId \in Nat
         /\ next_child_id <= MaxChildren => next_child_id \in OrderIds
         /\ next_child_id - 1 < QuoteIdBase
<1>1. PICK w, c, t, n, base :
        /\ w = LadderIds + OtherQuotes /\ c = Refreshes /\ t = MaxTicks + 1 /\ n = next_quote_id
        /\ base = QuoteIdBase
  OBVIOUS
<1>2. /\ LadderIds \in Nat /\ OtherQuotes \in Nat /\ w \in Nat /\ 2 * market.levels <= w
      /\ t \in Nat /\ base \in Nat /\ market.levels \in Nat
  BY <1>1, LadderIdsBound, MarketTypes DEF VenueAssumption
<1>3. /\ n \in Nat /\ base <= n
      /\ n <= base + c * w + (IF phase = "Quoting" THEN rung ELSE 0)
      /\ rung \in Nat /\ rung <= 2 * market.levels
  BY <1>1, <1>2 DEF CountersInv
<1>4. c \in Nat /\ c <= t /\ phase = "Quoting" => c + 1 <= t
  BY <1>1 DEF CountersInv, VenueAssumption, Refreshes
<1>5. c \in Nat /\ c <= t
  BY <1>1 DEF CountersInv, VenueAssumption, Refreshes
<1>6. MaxQuoteId = base + t * w
  BY <1>1 DEF MaxQuoteId, LadderIds
<1>7. PICK x, y \in Nat : x = c * w /\ y = t * w
  BY <1>2, <1>5
<1>8. x <= y
  BY <1>2, <1>5, <1>7
<1>9. phase = "Quoting" => x + w <= y
  <2> SUFFICES ASSUME phase = "Quoting" PROVE x + w <= y
    OBVIOUS
  <2>1. c < t
    BY <1>2, <1>4, <1>5
  <2>2. CASE w = 0
    BY <1>8, <2>2
  <2>3. CASE w # 0
    BY <1>2, <1>5, <1>7, <2>1, <2>3, ProductGrows
  <2> QED BY <2>2, <2>3
<1>10. n <= base + y
  BY <1>2, <1>3, <1>7, <1>8, <1>9
<1>11. next_quote_id \in QuoteIdBase .. MaxQuoteId
  BY <1>1, <1>2, <1>3, <1>6, <1>7, <1>10
<1>12. MaxQuoteId \in Nat
  BY <1>2, <1>6, <1>7
<1> QED
  BY <1>11, <1>12 DEF VenueAssumption, CountersInv

\* The quotes are numbered level by level, the sell before the buy.
LEMMA Numbering ==
  ASSUME VenueAssumption, MarketInv
  PROVE  /\ \A n \in 0 .. 2 * market.levels - 1 :
              /\ QuoteSide(n) \in Sides /\ n \div 2 + 1 \in Levels
              /\ Number(QuoteSide(n), n \div 2 + 1) = n
         /\ \A side \in Sides, k \in Levels :
              /\ Number(side, k) \in 0 .. 2 * market.levels - 1
              /\ side = QuoteSide(Number(side, k)) /\ k = Number(side, k) \div 2 + 1
<1>1. PICK l \in Nat \ {0} : l = market.levels /\ Levels = 1 .. l
  BY MarketTypes DEF Levels
<1>2. ASSUME NEW n \in 0 .. 2 * l - 1
      PROVE  /\ QuoteSide(n) \in Sides /\ n \div 2 + 1 \in 1 .. l
             /\ Number(QuoteSide(n), n \div 2 + 1) = n
  <2>1. CASE n % 2 = 0
    <3>1. QuoteSide(n) = "Sell" /\ n = 2 * (n \div 2) /\ n \div 2 \in Nat
      BY <2>1 DEF QuoteSide
    <3> QED BY <3>1 DEF Sides, Number
  <2>2. CASE n % 2 # 0
    <3>1. QuoteSide(n) = "Buy" /\ n = 2 * (n \div 2) + 1 /\ n \div 2 \in Nat
      BY <2>2 DEF QuoteSide
    <3> QED BY <3>1 DEF Sides, Number
  <2> QED BY <2>1, <2>2
<1>3. ASSUME NEW side \in Sides, NEW k \in 1 .. l
      PROVE  /\ Number(side, k) \in 0 .. 2 * l - 1
             /\ side = QuoteSide(Number(side, k)) /\ k = Number(side, k) \div 2 + 1
  <2>1. CASE side = "Sell"
    <3>1. Number(side, k) = 2 * (k - 1)
      BY <2>1 DEF Number
    <3>2. (2 * (k - 1)) % 2 = 0 /\ (2 * (k - 1)) \div 2 = k - 1
      OBVIOUS
    <3> QED BY <2>1, <3>1, <3>2 DEF QuoteSide
  <2>2. CASE side = "Buy"
    <3>1. Number(side, k) = 2 * (k - 1) + 1
      BY <2>2 DEF Number
    <3>2. (2 * (k - 1) + 1) % 2 = 1 /\ (2 * (k - 1) + 1) \div 2 = k - 1
      OBVIOUS
    <3> QED BY <2>2, <3>1, <3>2 DEF QuoteSide
  <2> QED BY <2>1, <2>2 DEF Sides
<1> QED BY <1>1, <1>2, <1>3

-----------------------------------------------------------------------------
(* Levels and what rests there *)

\* A price is a level if orders with something left rest there, and then only.
LevelsKnown ==
  \A side \in Sides, price \in 1 .. MaxPrice :
    /\ LevelQty(side, price) \in Nat
    /\ price \in PricesOf(side) <=> LevelQty(side, price) > 0
    /\ price \in PricesOf(side) <=> \E id \in DOMAIN index : index[id] = <<side, price>>

LEMMA LevelsHold == BookInv => LevelsKnown
<1> SUFFICES ASSUME BookInv, NEW side \in Sides, NEW price \in 1 .. MaxPrice
             PROVE  /\ LevelQty(side, price) \in Nat
                    /\ price \in PricesOf(side) <=> LevelQty(side, price) > 0
                    /\ price \in PricesOf(side) <=>
                         \E id \in DOMAIN index : index[id] = <<side, price>>
  BY DEF LevelsKnown
<1>1. LevelsInv /\ IndexInv /\ RestingFound
  BY RestingIsFound DEF BookInv
<1>2. LevelQty(side, price) \in Qty /\ LevelQty(side, price) \in Nat
  BY <1>1, QueueTypes, Constants DEF QueuesTyped, Qty
<1>3. PICK orders : orders = Queue(side, price)
  OBVIOUS
<1>4. Ids(orders) = {id \in DOMAIN index : index[id] = <<side, price>>}
  BY <1>1, <1>3 DEF IndexInv, Filed
<1>5. CASE price \in PricesOf(side)
  <2>1. /\ orders # <<>> /\ QueueOK(side, price, orders) /\ LevelQty(side, price) = QueueSum(orders)
    BY <1>1, <1>3, <1>5, QueueTypes DEF QueuesTyped, LevelsInv, LevelOK, Queue
  <2>2. 1 \in DOMAIN orders
    BY <2>1, TailTakesOut DEF QueueOK
  <2>3. orders[1].qty \in Qty \ {0} /\ orders[1].qty <= QueueSum(orders)
    BY <2>1, <2>2, QueueSums
  <2>4. LevelQty(side, price) > 0
    BY <1>2, <2>1, <2>3, Constants DEF Qty
  <2>5. orders[1].id \in Ids(orders)
    BY <2>2 DEF Ids
  <2> QED BY <1>2, <1>4, <1>5, <2>4, <2>5
<1>6. CASE price \notin PricesOf(side)
  <2>1. LevelQty(side, price) = 0 /\ orders = <<>>
    BY <1>3, <1>6 DEF LevelQty, Queue
  <2>2. Ids(orders) = {}
    BY <2>1 DEF Ids
  <2> QED BY <1>2, <1>4, <1>6, <2>1, <2>2
<1> QED BY <1>5, <1>6

LEMMA LevelsHoldAfter == BookInv' => LevelsKnown'
BY LevelsHold, PTL

\* The book and the market as they were.
LEMMA BookSame ==
  ASSUME UNCHANGED levels
  PROVE  /\ \A s : PricesOf(s)' = PricesOf(s)
         /\ \A s, p : LevelQty(s, p)' = LevelQty(s, p)
BY DEF PricesOf, LevelQty

LEMMA MarketSame ==
  ASSUME MarketInv, UNCHANGED market
  PROVE  /\ MarketInv' /\ Levels' = Levels
         /\ \A side, k : QuotePrice(side, k)' = QuotePrice(side, k)
BY DEF MarketInv, LadderFits, LevelStep, Step, Levels, QuotePrice

LEMMA LeftSame ==
  ASSUME UNCHANGED <<market, traded>>
  PROVE  \A side, k : LevelLeft(side, k)' = LevelLeft(side, k)
BY DEF LevelLeft

-----------------------------------------------------------------------------
(* The steps *)

\* Between the ticks, and between the parts of one, the book stands still.
LEMMA QuietTickKeeps ==
  ASSUME VenueAssumption, VenueInv, TickBegin \/ RefreshBegin
  PROVE  VenueInv'
<1>1. /\ UNCHANGED vars /\ UNCHANGED market
      /\ UNCHANGED <<quote_ids, next_quote_id, next_child_id, rung, traded>>
      /\ phase' \in {"Trading", "Cancelling"} /\ taker' = NoTaker
  <2>1. taker = NoTaker
    BY DEF TickBegin, RefreshBegin, VenueInv, SubmissionInv
  <2> QED BY <2>1 DEF TickBegin, RefreshBegin, vars
<1>2. /\ IInv /\ MarketInv /\ CountersInv /\ QuotesInv /\ SubmissionInv /\ LadderInv
      /\ UNCHANGED <<levels, index, taker, fills, outcome, arrived>>
  BY <1>1 DEF VenueInv, vars
<1>3. IInv'
  BY <1>1, <1>2, NextKeeps
<1>4. /\ MarketInv' /\ Levels' = Levels
      /\ \A side, k : QuotePrice(side, k)' = QuotePrice(side, k)
      /\ \A s : PricesOf(s)' = PricesOf(s)
      /\ \A s, p : LevelQty(s, p)' = LevelQty(s, p)
      /\ \A side, k : LevelLeft(side, k)' = LevelLeft(side, k)
  BY <1>1, <1>2, MarketSame, BookSame, LeftSame
<1>5. CountersInv'
  <2>1. Refreshes' = Refreshes /\ ticks' \in 0 .. MaxTicks /\ phase # "Quoting"
    BY <1>2 DEF TickBegin, RefreshBegin, Refreshes, CountersInv, VenueAssumption
  <2> QED BY <1>1, <1>2, <2>1 DEF CountersInv, TickBegin, RefreshBegin
<1>6. QuotesInv'
  BY <1>1, <1>2 DEF QuotesInv
<1>7. SubmissionInv'
  BY <1>1, <1>2 DEF SubmissionInv, NothingRejected
<1>8. LadderInv'
  <2>1. CASE RefreshBegin
    BY <2>1 DEF RefreshBegin, LadderInv
  <2>2. CASE TickBegin
    <3>1. phase = "Idle" /\ phase' = "Trading"
      BY <2>2 DEF TickBegin
    <3> QED BY <1>2, <1>4, <3>1 DEF LadderInv, Depth
  <2> QED BY <2>1, <2>2
<1> QED BY <1>3, <1>4, <1>5, <1>6, <1>7, <1>8 DEF VenueInv

\* The old ladder leaves the book quote by quote; what rests stays on the list.
LEMMA CancelQuoteKeeps ==
  ASSUME VenueAssumption, VenueInv, CancelQuote
  PROVE  VenueInv'
<1>1. /\ UNCHANGED <<market, next_quote_id, next_child_id, phase, rung, ticks, traded>>
      /\ quote_ids # <<>> /\ quote_ids' = Tail(quote_ids) /\ phase = "Cancelling"
      /\ Cancel(Head(quote_ids)) \/ CancelUnknown(Head(quote_ids))
  BY DEF CancelQuote, IdsLeft
<1>2. IInv /\ MarketInv /\ CountersInv /\ QuotesInv /\ SubmissionInv /\ LadderInv
  BY DEF VenueInv
<1>3. PICK id, last : id = Head(quote_ids) /\ last = next_quote_id - 1
  OBVIOUS
<1>4. /\ quote_ids \in Seq(QuoteIdBase .. last) /\ Tail(quote_ids) \in Seq(QuoteIdBase .. last)
      /\ ToSet(quote_ids) \ {id} \subseteq ToSet(Tail(quote_ids))
  <2>1. quote_ids \in Seq(QuoteIdBase .. last)
    BY <1>2, <1>3 DEF QuotesInv
  <2>2. /\ Tail(quote_ids) \in Seq(QuoteIdBase .. last) /\ Len(Tail(quote_ids)) = Len(quote_ids) - 1
        /\ Len(quote_ids) \in Nat \ {0} /\ Head(quote_ids) = quote_ids[1]
        /\ \A i \in 1 .. Len(Tail(quote_ids)) : Tail(quote_ids)[i] = quote_ids[i + 1]
    BY <1>1, <2>1, HeadTailProperties, LenProperties, EmptySeq
  <2>3. /\ DOMAIN quote_ids = 1 .. Len(quote_ids)
        /\ DOMAIN Tail(quote_ids) = 1 .. Len(quote_ids) - 1
    BY <2>1, <2>2, LenProperties
  <2>4. ASSUME NEW i \in DOMAIN quote_ids, quote_ids[i] # id
        PROVE  \E j \in DOMAIN Tail(quote_ids) : Tail(quote_ids)[j] = quote_ids[i]
    <3>1. i # 1 /\ i - 1 \in DOMAIN Tail(quote_ids)
      BY <1>3, <2>2, <2>3, <2>4
    <3>2. Tail(quote_ids)[i - 1] = quote_ids[(i - 1) + 1] /\ (i - 1) + 1 = i
      BY <2>2, <2>3, <3>1
    <3> QED BY <3>1, <3>2
  <2> QED BY <2>1, <2>2, <2>4 DEF ToSet
<1>5. /\ DOMAIN index' \subseteq DOMAIN index \ {id}
      /\ \A a \in DOMAIN index' : index'[a] = index[a]
      /\ taker = NoTaker /\ UNCHANGED <<taker, fills>>
      /\ outcome' \in {"CancelledResting", "NotResting"}
  BY <1>1, <1>3 DEF Cancel, CancelUnknown, Without
<1>6. IInv'
  <2>1. CASE Cancel(id)
    BY <1>2, <2>1, CancelRemoves
  <2>2. CASE CancelUnknown(id)
    <3>1. UNCHANGED <<levels, index, arrived>>
      BY <2>2 DEF CancelUnknown
    <3>2. BookInv' /\ Uncrossed'
      BY <1>2, <3>1, BookUnchanged
    <3>3. TakerInv'
      BY <1>2, <1>5, Constants DEF IInv, TakerInv
    <3> QED BY <3>2, <3>3 DEF IInv
  <2> QED BY <1>1, <1>3, <2>1, <2>2
<1>7. MarketInv'
  BY <1>1, <1>2, MarketSame
<1>8. CountersInv'
  BY <1>1, <1>2 DEF CountersInv, Refreshes
<1>9. QuotesInv'
  BY <1>1, <1>2, <1>3, <1>4, <1>5 DEF QuotesInv
<1>10. SubmissionInv'
  BY <1>5 DEF SubmissionInv, NothingRejected
<1>11. LadderInv'
  BY <1>1 DEF LadderInv
<1> QED BY <1>6, <1>7, <1>8, <1>9, <1>10, <1>11 DEF VenueInv

\* Once the list is empty so is the book.
LEMMA CancelEndKeeps ==
  ASSUME VenueAssumption, VenueInv, CancelEnd
  PROVE  VenueInv'
<1>1. /\ UNCHANGED <<levels, index, taker, fills, outcome, arrived>>
      /\ UNCHANGED <<market, quote_ids, next_quote_id, next_child_id, ticks, traded>>
      /\ phase = "Cancelling" /\ quote_ids = <<>> /\ phase' = "Quoting" /\ rung' = 0
  BY DEF CancelEnd, vars
<1>2. IInv /\ MarketInv /\ CountersInv /\ QuotesInv /\ SubmissionInv /\ LadderInv
  BY DEF VenueInv
<1>3. taker = NoTaker
  BY <1>1, <1>2 DEF SubmissionInv
<1>4. IInv'
  BY <1>1, <1>2, NextKeeps DEF vars
<1>5. /\ MarketInv' /\ Levels' = Levels
      /\ \A side, k : QuotePrice(side, k)' = QuotePrice(side, k)
      /\ \A s : PricesOf(s)' = PricesOf(s)
      /\ \A s, p : LevelQty(s, p)' = LevelQty(s, p)
  BY <1>1, <1>2, MarketSame, BookSame
<1>6. CountersInv'
  <2>1. market.levels \in Nat
    BY <1>2, MarketTypes
  <2> QED BY <1>1, <1>2, <2>1 DEF CountersInv, Refreshes
<1>7. QuotesInv' /\ SubmissionInv'
  BY <1>1, <1>2, <1>3 DEF QuotesInv, SubmissionInv, NothingRejected
<1>8. DOMAIN index = {}
  <2>1. ToSet(quote_ids) = {}
    BY <1>1 DEF ToSet
  <2> QED BY <1>2, <2>1 DEF QuotesInv
<1>9. \A s \in Sides, p \in 1 .. MaxPrice : LevelQty(s, p) = 0 /\ p \notin PricesOf(s)
  <2>1. LevelsKnown
    BY <1>2, LevelsHold DEF IInv
  <2> QED BY <1>8, <2>1 DEF LevelsKnown
<1>10. LadderInv'
  <2> SUFFICES ASSUME NEW side \in Sides
               PROVE  /\ \A k \in Levels' : LevelQty(side, QuotePrice(side, k))' = Depth(side, k)'
                      /\ \A price \in PricesOf(side)' :
                           \E k \in Levels' : price = QuotePrice(side, k)'
    BY DEF LadderInv
  <2>1. ASSUME NEW k \in Levels PROVE LevelQty(side, QuotePrice(side, k))' = Depth(side, k)'
    <3>1. QuotePrice(side, k) \in 1 .. MaxPrice
      BY <1>2, LadderPrices
    <3>2. LevelQty(side, QuotePrice(side, k))' = 0
      BY <1>1, <1>5, <1>9, <3>1 DEF LevelQty, PricesOf
    <3>3. Placed' = 0 /\ Number(side, k) \in Nat
      BY <1>1, <1>2, <1>3, Numbering, MarketTypes DEF Placed
    <3>4. PICK n \in Nat : n = Number(side, k) /\ Number(side, k)' = n
      BY <3>3 DEF Number
    <3>5. Depth(side, k)' = 0
      BY <1>1, <3>3, <3>4 DEF Depth
    <3> QED BY <3>2, <3>5
  <2>2. PricesOf(side)' = {}
    <3>1. PricesOf(side) \subseteq 1 .. MaxPrice
      BY <1>2 DEF IInv, BookInv, LevelsInv
    <3> QED BY <1>5, <1>9, <3>1
  <2> QED BY <1>5, <2>1, <2>2
<1> QED BY <1>4, <1>5, <1>6, <1>7, <1>10 DEF VenueInv

\* The ids of what rests are below the next quote's and above every child's.
LEMMA RestingIds ==
  ASSUME QuotesInv
  PROVE  DOMAIN index \subseteq QuoteIdBase .. next_quote_id - 1
<1>1. \A i \in DOMAIN quote_ids : quote_ids[i] \in QuoteIdBase .. next_quote_id - 1
  BY ElementOfSeq, LenProperties DEF QuotesInv
<1> QED BY <1>1 DEF QuotesInv, ToSet

\* The next quote passes the checks of submit_order, for its level is empty.
LEMMA QuoteIsValid ==
  ASSUME VenueAssumption, VenueInv, phase = "Quoting", rung < 2 * market.levels,
         taker = NoTaker
  PROVE  /\ Quote \in Order /\ Validate(Quote) = "None" /\ Quote.tif = "GTC"
         /\ Quote.id = next_quote_id /\ Quote.qty = market.qty
         /\ \E side \in Sides, k \in Levels :
              /\ Number(side, k) = rung
              /\ Quote.side = side /\ Quote.limit_price = QuotePrice(side, k)
<1>1. IInv /\ MarketInv /\ CountersInv /\ QuotesInv /\ SubmissionInv /\ LadderInv
  BY DEF VenueInv
<1>2. rung \in 0 .. 2 * market.levels - 1
  BY <1>1, MarketTypes DEF CountersInv
<1>3. PICK side \in Sides, k \in Levels :
        side = QuoteSide(rung) /\ k = rung \div 2 + 1 /\ Number(side, k) = rung
  BY <1>1, <1>2, Numbering
<1>4. PICK price \in 1 .. MaxPrice : price = QuotePrice(side, k)
  BY <1>1, LadderPrices
<1>5. PICK id \in OrderIds : id = next_quote_id
  BY <1>1, QuoteIds
<1>6. PICK qty \in Qty \ {0} : qty = market.qty
  BY <1>1, MarketTypes
<1>7. Quote = [id |-> id, side |-> side, limit_price |-> price, qty |-> qty, tif |-> "GTC"]
  BY <1>3, <1>4, <1>5, <1>6 DEF Quote
<1>8. Quote \in Order
  <2>1. price \in 0 .. MaxPrice \cup {NoLimit}
    BY Constants
  <2> QED BY <1>7, <2>1 DEF Order, TimeInForce
<1>9. LevelQty(side, price) = 0
  <2>1. LevelQty(side, price) = Depth(side, k)
    BY <1>1, <1>4 DEF LadderInv
  <2>2. Placed = rung /\ ~(rung < rung)
    BY <1>2 DEF Placed
  <2> QED BY <1>3, <2>1, <2>2 DEF Depth
<1>10. id \notin DOMAIN index
  BY <1>1, <1>5, RestingIds DEF CountersInv
<1>11. Validate(Quote) = "None"
  <2>1. price # 0 /\ price # NoLimit /\ qty # 0 /\ LevelQty(side, price) + qty \in Qty
    BY <1>9, Constants DEF Qty
  <2> QED BY <1>7, <1>10, <2>1 DEF Validate, NonPositivePrice, LevelQuantityOverflow
<1> QED BY <1>3, <1>4, <1>5, <1>6, <1>7, <1>8, <1>11

LEMMA SubmitQuoteKeeps ==
  ASSUME VenueAssumption, VenueInv, SubmitQuote
  PROVE  VenueInv'
<1>1. /\ UNCHANGED <<market, next_child_id, phase, ticks, traded>>
      /\ phase = "Quoting" /\ rung < 2 * market.levels
      /\ next_quote_id' = next_quote_id + 1 /\ rung' = rung + 1
      /\ \/ Accept(Quote) /\ quote_ids' = Append(quote_ids, next_quote_id)
         \/ Reject(Quote) /\ UNCHANGED quote_ids
  BY DEF SubmitQuote
<1>2. IInv /\ MarketInv /\ CountersInv /\ QuotesInv /\ SubmissionInv /\ LadderInv
  BY DEF VenueInv
<1>3. taker = NoTaker /\ UNCHANGED <<levels, index>> /\ UNCHANGED fills
  BY <1>1 DEF Accept, Reject
<1>4. PICK order \in Order :
        /\ order = Quote /\ Validate(order) = "None" /\ order.tif = "GTC"
        /\ order.id = next_quote_id /\ order.qty = market.qty
        /\ \E side \in Sides, k \in Levels :
             /\ Number(side, k) = rung
             /\ order.side = side /\ order.limit_price = QuotePrice(side, k)
  BY <1>1, <1>3, QuoteIsValid
<1>5. /\ Accept(order) /\ quote_ids' = Append(quote_ids, next_quote_id)
      /\ taker' = order /\ outcome' = "None"
  BY <1>1, <1>4 DEF Accept, Reject
<1>6. IInv'
  BY <1>2, <1>5, QuietStep
<1>7. /\ MarketInv' /\ Levels' = Levels
      /\ \A side, k : QuotePrice(side, k)' = QuotePrice(side, k)
      /\ \A s : PricesOf(s)' = PricesOf(s)
      /\ \A s, p : LevelQty(s, p)' = LevelQty(s, p)
  BY <1>1, <1>2, <1>3, MarketSame, BookSame
<1>8. CountersInv'
  <2>1. /\ market.levels \in Nat /\ rung \in Nat /\ next_quote_id \in Nat
        /\ Refreshes' = Refreshes /\ QuoteIdBase \in Nat
    BY <1>1, <1>2, MarketTypes DEF CountersInv, Refreshes, VenueAssumption
  <2>2. PICK x \in Nat : x = Refreshes * (LadderIds + OtherQuotes)
    BY <1>2, LadderIdsBound DEF CountersInv, Refreshes, VenueAssumption
  <2>3. /\ next_quote_id' \in Nat /\ QuoteIdBase <= next_quote_id'
        /\ next_quote_id' <= QuoteIdBase + x + (IF phase' = "Quoting" THEN rung' ELSE 0)
    BY <1>1, <1>2, <2>1, <2>2 DEF CountersInv
  <2>4. rung' \in 0 .. 2 * market.levels
    BY <1>1, <2>1
  <2> QED BY <1>1, <1>2, <2>1, <2>2, <2>3, <2>4 DEF CountersInv
<1>9. QuotesInv' /\ next_quote_id \in ToSet(quote_ids')
  <2>1. PICK id, base : id = next_quote_id /\ base = QuoteIdBase
    OBVIOUS
  <2>2. /\ id \in Nat /\ base \in Nat /\ base <= id /\ next_quote_id' - 1 = id
        /\ quote_ids \in Seq(base .. id - 1)
    BY <1>1, <1>2, <2>1 DEF CountersInv, QuotesInv, VenueAssumption
  <2>3. quote_ids \in Seq(base .. id) /\ id \in base .. id
    BY <2>2
  <2>4. /\ quote_ids' \in Seq(base .. id)
        /\ Len(quote_ids') = Len(quote_ids) + 1 /\ Len(quote_ids) \in Nat
        /\ \A i \in 1 .. Len(quote_ids) : quote_ids'[i] = quote_ids[i]
        /\ quote_ids'[Len(quote_ids) + 1] = id
    BY <1>5, <2>1, <2>3, AppendProperties, LenProperties
  <2>5. DOMAIN quote_ids = 1 .. Len(quote_ids) /\ DOMAIN quote_ids' = 1 .. Len(quote_ids) + 1
    BY <2>3, <2>4, LenProperties
  <2>6. ToSet(quote_ids) \subseteq ToSet(quote_ids') /\ id \in ToSet(quote_ids')
    BY <2>4, <2>5 DEF ToSet
  <2> QED BY <1>2, <1>3, <2>1, <2>2, <2>4, <2>6 DEF QuotesInv
<1>10. SubmissionInv'
  <2>1. rung' - 1 = rung /\ rung' > 0
    BY <1>1, <1>2 DEF CountersInv
  <2>2. fills' = <<>>
    BY <1>2, <1>3 DEF IInv, TakerInv
  <2>3. \E side \in Sides, k \in Levels' :
          /\ Number(side, k)' = rung' - 1
          /\ taker'.side = side /\ taker'.limit_price = QuotePrice(side, k)'
    BY <1>4, <1>5, <1>7, <2>1 DEF Number
  <2> QED
    BY <1>1, <1>4, <1>5, <1>9, <2>1, <2>2, <2>3 DEF SubmissionInv, NothingRejected
<1>11. LadderInv'
  <2>1. Placed' = Placed
    BY <1>1, <1>2, <1>3, <1>4, <1>5, Constants DEF Placed, CountersInv
  <2>2. \A side, k : Depth(side, k)' = Depth(side, k)
    BY <1>1, <2>1 DEF Depth, Number
  <2> QED BY <1>1, <1>2, <1>7, <2>2 DEF LadderInv
<1> QED BY <1>6, <1>7, <1>8, <1>9, <1>10, <1>11 DEF VenueInv

\* A child passes the checks of submit_order whatever the children before it took.
LEMMA ChildIsValid ==
  ASSUME VenueAssumption, VenueInv, next_child_id <= MaxChildren,
         NEW side \in Sides, NEW limit \in (1 .. MaxPrice) \cup {NoLimit}, NEW qty \in ChildQtys
  PROVE  /\ Child(side, limit, qty) \in Order /\ Validate(Child(side, limit, qty)) = "None"
         /\ Child(side, limit, qty) = [id |-> next_child_id, side |-> side, limit_price |-> limit,
                                       qty |-> qty, tif |-> "IOC"]
<1>1. MarketInv /\ CountersInv /\ QuotesInv
  BY DEF VenueInv
<1>2. PICK id \in OrderIds : id = next_child_id /\ id \in Nat /\ id <= MaxChildren
  BY <1>1, QuoteIds DEF CountersInv, VenueAssumption
<1>3. Child(side, limit, qty) = [id |-> id, side |-> side, limit_price |-> limit, qty |-> qty,
                                 tif |-> "IOC"]
  BY <1>2 DEF Child
<1>4. limit \in 0 .. MaxPrice \cup {NoLimit} /\ limit # 0 /\ qty \in Qty /\ qty # 0
  BY Constants DEF VenueAssumption, Qty
<1>5. Child(side, limit, qty) \in Order
  BY <1>3, <1>4 DEF Order, TimeInForce
<1>6. id \notin DOMAIN index
  BY <1>1, <1>2, RestingIds DEF VenueAssumption
<1>7. Validate(Child(side, limit, qty)) = "None"
  BY <1>3, <1>4, <1>6 DEF Validate, NonPositivePrice, LevelQuantityOverflow
<1> QED BY <1>2, <1>3, <1>5, <1>7

LEMMA ExecuteKeeps ==
  ASSUME VenueAssumption, VenueInv,
         NEW side \in Sides, NEW limit \in (1 .. MaxPrice) \cup {NoLimit}, NEW qty \in ChildQtys,
         Execute(side, limit, qty)
  PROVE  VenueInv' /\ Accept(Child(side, limit, qty))
<1>1. /\ phase = "Trading" /\ next_child_id <= MaxChildren
      /\ Accept(Child(side, limit, qty)) \/ Reject(Child(side, limit, qty))
      /\ next_child_id' = next_child_id + 1
      /\ UNCHANGED <<market, quote_ids, next_quote_id, phase, rung, ticks, traded>>
  BY DEF Execute
<1>2. IInv /\ MarketInv /\ CountersInv /\ QuotesInv /\ SubmissionInv /\ LadderInv
  BY DEF VenueInv
<1>3. PICK order \in Order :
        /\ order = Child(side, limit, qty) /\ Validate(order) = "None"
        /\ order.tif = "IOC" /\ order.id = next_child_id
  BY <1>1, ChildIsValid
<1>4. Accept(order)
  BY <1>1, <1>3 DEF Reject
<1>5. taker = NoTaker /\ taker' = order /\ outcome' = "None" /\ UNCHANGED <<levels, index>>
  BY <1>4 DEF Accept
<1>6. IInv'
  BY <1>2, <1>4, QuietStep
<1>7. /\ MarketInv' /\ Levels' = Levels
      /\ \A s, k : QuotePrice(s, k)' = QuotePrice(s, k)
      /\ \A s : PricesOf(s)' = PricesOf(s)
      /\ \A s, p : LevelQty(s, p)' = LevelQty(s, p)
      /\ \A s, k : LevelLeft(s, k)' = LevelLeft(s, k)
  BY <1>1, <1>2, <1>5, MarketSame, BookSame, LeftSame
<1>8. CountersInv'
  <2>1. next_child_id' \in 1 .. MaxChildren + 1
    BY <1>1, <1>2 DEF CountersInv, VenueAssumption
  <2> QED BY <1>1, <1>2, <2>1 DEF CountersInv, Refreshes
<1>9. QuotesInv'
  BY <1>1, <1>2, <1>5 DEF QuotesInv
<1>10. SubmissionInv'
  BY <1>1, <1>2, <1>3, <1>5 DEF SubmissionInv, NothingRejected, CountersInv
<1>11. LadderInv'
  BY <1>1, <1>2, <1>7 DEF LadderInv, Depth
<1> QED BY <1>3, <1>4, <1>6, <1>7, <1>8, <1>9, <1>10, <1>11 DEF VenueInv

\* A child that matches no more is over.
LEMMA ChildEnds ==
  ASSUME VenueAssumption, VenueInv, Matched, phase = "Trading"
  PROVE  VenueInv' /\ taker # NoTaker /\ taker' = NoTaker /\ fills' = <<>>
<1>1. UNCHANGED <<market, quote_ids, next_quote_id, next_child_id, phase, rung, ticks, traded>>
  BY DEF Matched
<1>2. IInv /\ MarketInv /\ CountersInv /\ QuotesInv /\ SubmissionInv /\ LadderInv
  BY DEF VenueInv
<1>3. taker # NoTaker /\ taker.tif = "IOC"
  BY <1>2 DEF Matched, FinishFilled, Rest, CancelRemainder, SubmissionInv
<1>4. FinishFilled \/ CancelRemainder
  BY <1>3 DEF Matched, Rest
<1>5. /\ taker' = NoTaker /\ fills' = <<>> /\ outcome' \in {"Filled", "Cancelled"}
      /\ UNCHANGED <<levels, index>>
  BY <1>4 DEF FinishFilled, CancelRemainder, Return
<1>6. IInv'
  BY <1>2, <1>4, QuietStep
<1>7. /\ MarketInv' /\ Levels' = Levels
      /\ \A s, k : QuotePrice(s, k)' = QuotePrice(s, k)
      /\ \A s : PricesOf(s)' = PricesOf(s)
      /\ \A s, p : LevelQty(s, p)' = LevelQty(s, p)
      /\ \A s, k : LevelLeft(s, k)' = LevelLeft(s, k)
  BY <1>1, <1>2, <1>5, MarketSame, BookSame, LeftSame
<1>8. CountersInv' /\ QuotesInv'
  BY <1>1, <1>2, <1>5 DEF CountersInv, Refreshes, QuotesInv
<1>9. SubmissionInv'
  BY <1>5 DEF SubmissionInv, NothingRejected
<1>10. LadderInv'
  BY <1>1, <1>2, <1>7 DEF LadderInv, Depth
<1> QED BY <1>3, <1>5, <1>6, <1>7, <1>8, <1>9, <1>10 DEF VenueInv

\* Asks are above the reference price and bids below it, so a quote never trades.
LEMMA QuoteDoesNotMatch ==
  ASSUME VenueAssumption, VenueInv, taker # NoTaker, phase = "Quoting"
  PROVE  ~CanMatch
<1>1. IInv /\ MarketInv /\ SubmissionInv /\ LadderInv
  BY DEF VenueInv
<1>2. PICK side \in Sides, k \in Levels : taker.side = side /\ taker.limit_price = QuotePrice(side, k)
  BY <1>1 DEF SubmissionInv
<1>3. PICK other \in Sides : other = Opposite(side) /\ other # side
  BY Opposites
<1> SUFFICES ASSUME CanMatch PROVE FALSE
  OBVIOUS
<1>4. /\ PricesOf(other) # {} /\ PricesOf(other) \subseteq 1 .. MaxPrice
      /\ Accepts(taker, BestPrice(other))
  BY <1>1, <1>2, <1>3 DEF CanMatch, IInv, BookInv, LevelsInv
<1>5. PICK best \in PricesOf(other) : best = BestPrice(other)
  BY <1>4, BestIsBest
<1>6. PICK j \in Levels : best = QuotePrice(other, j)
  BY <1>1, <1>5 DEF LadderInv
<1>7. PICK r, mine, theirs \in Int :
        r = market.reference /\ mine = QuotePrice(side, k) /\ theirs = QuotePrice(other, j)
  <2>1. market.reference \in Int /\ QuotePrice(side, k) \in Int /\ QuotePrice(other, j) \in Int
    BY <1>1, MarketTypes, LadderPrices
  <2> QED BY <2>1
<1>8. mine # NoLimit /\ IF side = "Buy" THEN theirs <= mine ELSE theirs >= mine
  BY <1>2, <1>4, <1>5, <1>6, <1>7, Constants DEF Accepts
<1>9. IF side = "Buy" THEN mine < r /\ theirs > r ELSE mine > r /\ theirs < r
  BY <1>1, <1>3, <1>7, LadderPrices DEF Sides
<1> QED BY <1>7, <1>8, <1>9

\* The quote rests at the empty level that is its own.
LEMMA QuoteRests ==
  ASSUME VenueAssumption, VenueInv, Matched, phase = "Quoting"
  PROVE  VenueInv' /\ taker' = NoTaker
<1>1. UNCHANGED <<market, quote_ids, next_quote_id, next_child_id, phase, rung, ticks, traded>>
  BY DEF Matched
<1>2. IInv /\ MarketInv /\ CountersInv /\ QuotesInv /\ SubmissionInv /\ LadderInv
  BY DEF VenueInv
<1>3. /\ taker # NoTaker /\ rung > 0 /\ taker.id \in ToSet(quote_ids)
      /\ taker.tif = "GTC" /\ taker.qty = market.qty /\ taker.qty \in Nat \ {0}
  BY <1>2, MarketTypes DEF Matched, FinishFilled, Rest, CancelRemainder, SubmissionInv
<1>4. PICK side \in Sides, k \in Levels :
        Number(side, k) = rung - 1 /\ taker.side = side /\ taker.limit_price = QuotePrice(side, k)
  BY <1>2, <1>3 DEF Matched, FinishFilled, Rest, CancelRemainder, SubmissionInv
<1>5. Rest
  BY <1>3 DEF Matched, FinishFilled, CancelRemainder
<1>6. PICK price \in 1 .. MaxPrice : price = QuotePrice(side, k)
  BY <1>2, LadderPrices
<1>7. /\ IInv'
      /\ \A s \in Sides, p \in 1 .. MaxPrice :
           LevelQty(s, p)' = IF <<s, p>> = <<side, price>> THEN LevelQty(s, p) + market.qty
                             ELSE LevelQty(s, p)
  BY <1>2, <1>3, <1>4, <1>5, <1>6, RestAdds
<1>8. /\ taker' = NoTaker /\ fills' = <<>> /\ outcome' = "Resting"
      /\ index' = With(index, taker.id, <<side, price>>)
  BY <1>4, <1>5, <1>6 DEF Rest, Return
<1>9. /\ MarketInv' /\ Levels' = Levels
      /\ \A s, j : QuotePrice(s, j)' = QuotePrice(s, j)
  BY <1>1, <1>2, MarketSame
<1>10. LevelsKnown /\ LevelsKnown'
  BY <1>2, <1>7, LevelsHold, LevelsHoldAfter DEF IInv
<1>11. rung \in Nat /\ Placed = rung - 1 /\ Placed' = rung
  BY <1>1, <1>2, <1>3, <1>8, MarketTypes DEF Placed, CountersInv
<1>12. LevelQty(side, price) = 0
  <2>1. LevelQty(side, price) = Depth(side, k)
    BY <1>1, <1>2, <1>6 DEF LadderInv
  <2>2. PICK n \in Nat : n = rung - 1 /\ Number(side, k) = n /\ Placed = n
    BY <1>3, <1>4, <1>11
  <2> QED BY <2>1, <2>2 DEF Depth
<1>13. CountersInv'
  BY <1>1, <1>2 DEF CountersInv, Refreshes
<1>14. QuotesInv'
  <2>1. \A a \in DOMAIN index : index[a] # <<side, price>>
    BY <1>10, <1>12 DEF LevelsKnown
  <2>2. /\ DOMAIN index' = DOMAIN index \cup {taker.id}
        /\ \A a \in DOMAIN index' : index'[a] = IF a = taker.id THEN <<side, price>> ELSE index[a]
    BY <1>8 DEF With
  <2>3. \A a, b \in DOMAIN index' : index'[a] = index'[b] => a = b
    BY <1>2, <2>1, <2>2 DEF QuotesInv
  <2> QED BY <1>1, <1>2, <1>3, <2>2, <2>3 DEF QuotesInv
<1>15. SubmissionInv'
  BY <1>8 DEF SubmissionInv, NothingRejected
<1>16. ASSUME NEW s \in Sides, NEW j \in Levels
       PROVE  LevelQty(s, QuotePrice(s, j))' = Depth(s, j)'
  <2>1. PICK p \in 1 .. MaxPrice : p = QuotePrice(s, j) /\ QuotePrice(s, j)' = p
    BY <1>2, <1>9, LadderPrices
  <2>2. LevelQty(s, p) = Depth(s, j)
    BY <1>1, <1>2, <2>1 DEF LadderInv
  <2>3. PICK n \in Nat : n = Number(s, j) /\ Number(s, j)' = n
    <3>1. Number(s, j) \in Nat
      BY <1>2, Numbering, MarketTypes
    <3> QED BY <3>1 DEF Number
  <2>4. Depth(s, j) = (IF n < rung - 1 THEN market.qty ELSE 0)
    BY <1>1, <1>11, <2>3 DEF Depth
  <2>5. Depth(s, j)' = (IF n < rung THEN market.qty ELSE 0)
    BY <1>1, <1>11, <2>3 DEF Depth
  <2>6. LevelQty(s, QuotePrice(s, j))' = LevelQty(s, p)'
    BY <2>1 DEF LevelQty, PricesOf
  <2>7. CASE n = rung - 1
    <3>1. s = side /\ j = k
      <4>1. Number(s, j) = Number(side, k)
        BY <1>4, <2>3, <2>7
      <4>2. \A t \in Sides, i \in Levels :
              t = QuoteSide(Number(t, i)) /\ i = Number(t, i) \div 2 + 1
        BY <1>2, Numbering
      <4>3. /\ s = QuoteSide(Number(s, j)) /\ j = Number(s, j) \div 2 + 1
            /\ side = QuoteSide(Number(side, k)) /\ k = Number(side, k) \div 2 + 1
        BY <4>2
      <4> QED BY ONLY <4>1, <4>3
    <3>2. LevelQty(s, p)' = 0 + market.qty
      BY <1>6, <1>7, <1>12, <2>1, <3>1
    <3> QED BY <1>2, <1>11, <2>5, <2>6, <2>7, <3>2, MarketTypes
  <2>8. CASE n # rung - 1
    <3>1. ~(s = side /\ j = k)
      BY <1>4, <2>3, <2>8
    <3>2. <<s, p>> # <<side, price>>
      BY <1>2, <1>6, <2>1, <3>1, LadderPrices
    <3>3. LevelQty(s, p)' = LevelQty(s, p)
      BY <1>7, <3>2
    <3>4. n < rung - 1 <=> n < rung
      BY <1>11, <2>8
    <3> QED BY <2>2, <2>4, <2>5, <2>6, <3>3, <3>4
  <2> QED BY <2>7, <2>8
<1>17. ASSUME NEW s \in Sides, NEW p \in PricesOf(s)'
       PROVE  \E j \in Levels : p = QuotePrice(s, j)
  <2>1. p \in 1 .. MaxPrice
    BY <1>7 DEF IInv, BookInv, LevelsInv
  <2>2. LevelQty(s, p)' > 0
    BY <1>10, <1>17, <2>1 DEF LevelsKnown
  <2>3. CASE <<s, p>> = <<side, price>>
    BY <1>6, <2>3
  <2>4. CASE <<s, p>> # <<side, price>>
    <3>1. LevelQty(s, p) > 0
      BY <1>7, <2>1, <2>2, <2>4
    <3>2. p \in PricesOf(s)
      BY <1>10, <2>1, <3>1 DEF LevelsKnown
    <3> QED BY <1>1, <1>2, <3>2 DEF LadderInv
  <2> QED BY <2>3, <2>4
<1>18. LadderInv'
  BY <1>9, <1>16, <1>17 DEF LadderInv
<1> QED BY <1>7, <1>8, <1>9, <1>13, <1>14, <1>15, <1>18 DEF VenueInv

\* What is left of the j-th level of q each, when t were taken from the first level on.
Left(q, t, j) ==
  LET reach == j * q - t
  IN  IF reach <= 0 THEN 0 ELSE IF reach >= q THEN q ELSE reach

LEMMA LeftAfter ==
  ASSUME NEW q \in Nat \ {0}, NEW t \in Nat, NEW k \in Nat \ {0}, NEW x \in Nat,
         k > 1 => Left(q, t, k - 1) = 0, Left(q, t, k) > 0, x <= Left(q, t, k)
  PROVE  /\ t + x <= k * q
         /\ \A j \in Nat \ {0} :
              Left(q, t + x, j) = IF j = k THEN Left(q, t, j) - x ELSE Left(q, t, j)
<1>1. PICK z \in Nat : z = k * q
  BY ProductGrows
<1>2. (k - 1) * q \in Nat /\ (k - 1) * q + q = z /\ (k - 1) * q <= t
  <2>1. (k - 1) * q + q = z
    BY <1>1
  <2>2. k - 1 \in Nat /\ (k - 1) * q \in Nat
    BY ProductGrows
  <2>3. (k - 1) * q <= t
    <3>1. CASE k = 1
      <4>1. (k - 1) * q = 0
        BY <3>1
      <4> QED BY <4>1
    <3>2. CASE k > 1
      <4>1. PICK y \in Nat : y = (k - 1) * q
        BY <2>2
      <4>2. ~(y - t > 0)
        BY <3>2, <4>1 DEF Left
      <4> QED BY <4>1, <4>2
    <3> QED BY <3>1, <3>2
  <2> QED BY <2>1, <2>2, <2>3
<1>3. z - t <= q /\ z - t > 0 /\ Left(q, t, k) = z - t
  <2>1. z - t <= q
    BY <1>1, <1>2
  <2> QED BY <1>1, <2>1 DEF Left
<1>4. t + x <= z
  BY <1>1, <1>3
<1>5. ASSUME NEW j \in Nat \ {0}
      PROVE  Left(q, t + x, j) = IF j = k THEN Left(q, t, j) - x ELSE Left(q, t, j)
  <2>1. PICK y \in Nat : y = j * q
    BY ProductGrows
  <2>2. CASE j = k
    <3>1. Left(q, t + x, j) = z - (t + x)
      BY <1>1, <1>3, <1>4, <2>2 DEF Left
    <3> QED BY <1>1, <1>3, <2>2, <3>1
  <2>3. CASE j < k
    <3>1. y + q <= z
      BY <1>1, <2>1, <2>3, ProductGrows
    <3>2. y <= t
      BY <1>1, <1>2, <2>1, <3>1
    <3> QED BY <2>1, <2>3, <3>2 DEF Left
  <2>4. CASE k < j
    <3>1. z + q <= y
      BY <1>1, <2>1, <2>4, ProductGrows
    <3>2. y - (t + x) >= q /\ y - t >= q
      BY <1>1, <1>4, <2>1, <3>1
    <3> QED BY <2>1, <2>4, <3>2 DEF Left
  <2> QED BY <2>2, <2>3, <2>4
<1> QED BY <1>1, <1>4, <1>5

LEMMA LevelLeftIs == \A side, k : LevelLeft(side, k) = Left(market.qty, traded[side], k)
BY DEF LevelLeft, Left

\* A child meets the nearest level with something left, and takes from that one only.
LEMMA TradeKeeps ==
  ASSUME VenueAssumption, VenueInv, Trade
  PROVE  VenueInv' /\ phase = "Trading"
<1>1. /\ Match /\ CanMatch /\ taker # NoTaker
      /\ UNCHANGED <<market, quote_ids, next_quote_id, next_child_id, phase, rung, ticks>>
      /\ traded' = [traded EXCEPT ![Opposite(taker.side)] = @ + taker.qty - taker'.qty]
  BY DEF Trade, Match
<1>2. IInv /\ MarketInv /\ CountersInv /\ QuotesInv /\ SubmissionInv /\ LadderInv
  BY DEF VenueInv
<1>3. phase = "Trading"
  BY <1>1, <1>2, QuoteDoesNotMatch DEF SubmissionInv
<1>4. IInv' /\ BookInv /\ BookInv' /\ taker \in Order /\ taker.qty \in Nat
  BY <1>1, <1>2, MatchKeeps, Constants DEF IInv, TakerInv, Order, Qty
<1>5. LevelsKnown /\ LevelsKnown'
  BY <1>4, LevelsHold, LevelsHoldAfter
<1>6. PICK side \in Sides, price \in 1 .. MaxPrice, x \in Qty \ {0} :
        /\ side = Opposite(taker.side) /\ PricesOf(side) # {} /\ price = BestPrice(side)
        /\ \A s \in Sides : PricesOf(s)' \subseteq PricesOf(s)
        /\ \A s \in Sides, p \in 1 .. MaxPrice :
             LevelQty(s, p)' = IF <<s, p>> = <<side, price>> THEN LevelQty(s, p) - x
                               ELSE LevelQty(s, p)
        /\ taker' = [taker EXCEPT !.qty = taker.qty - x] /\ outcome' = outcome
  <2>1. PICK side \in Sides, price \in 1 .. MaxPrice, maker \in Order, x \in Qty \ {0},
             at \in DOMAIN arrived : Traded(side, price, maker, x, at)
    BY <1>1, <1>4, MatchTrades
  <2> QED BY <2>1 DEF Traded
<1>7. x \in Nat \ {0} /\ taker'.qty = taker.qty - x /\ taker'.id = taker.id /\ taker'.tif = taker.tif
  BY <1>4, <1>6, Constants DEF Order, Qty
<1>8. PICK q \in Nat \ {0}, t \in Nat : q = market.qty /\ t = traded[side]
  <2>1. market.levels * market.qty \in Nat
    BY <1>2, MarketTypes, ProductGrows
  <2>2. traded[side] \in Nat
    BY <1>2, <2>1 DEF CountersInv
  <2> QED BY <1>2, <2>2, MarketTypes
<1>9. price \in PricesOf(side) /\ \A p \in PricesOf(side) : ~Better(side, p, price)
  <2>1. PricesOf(side) \subseteq 1 .. MaxPrice
    BY <1>4 DEF BookInv, LevelsInv
  <2> QED BY <1>6, <2>1, BestIsBest DEF Better, Sides
<1>10. PICK k \in Levels : price = QuotePrice(side, k)
  BY <1>2, <1>3, <1>9 DEF LadderInv
<1>11. \A s \in Sides, j \in Levels : LevelQty(s, QuotePrice(s, j)) = LevelLeft(s, j)
  BY <1>2, <1>3 DEF LadderInv, Depth
<1>12. /\ k \in Nat \ {0} /\ Left(q, t, k) > 0 /\ x <= Left(q, t, k)
       /\ k > 1 => Left(q, t, k - 1) = 0
  <2>1. k \in Nat \ {0}
    BY <1>2, MarketTypes
  <2>2. LevelQty(side, price) = Left(q, t, k)
    BY <1>8, <1>10, <1>11, LevelLeftIs
  <2>3. LevelQty(side, price) \in Nat /\ LevelQty(side, price) > 0
    BY <1>5, <1>9 DEF LevelsKnown
  <2>4. LevelQty(side, price)' \in Nat /\ LevelQty(side, price)' = LevelQty(side, price) - x
    BY <1>5, <1>6 DEF LevelsKnown
  <2>5. x <= Left(q, t, k)
    BY <1>7, <2>2, <2>3, <2>4
  <2>6. ASSUME k > 1 PROVE Left(q, t, k - 1) = 0
    <3>1. PICK j \in Levels : j = k - 1 /\ j < k
      BY <1>2, <2>1, <2>6, MarketTypes DEF Levels
    <3>2. PICK p \in 1 .. MaxPrice : p = QuotePrice(side, j)
      BY <1>2, LadderPrices
    <3>3. Better(side, p, price)
      BY <1>2, <1>10, <3>1, <3>2, LadderPrices
    <3>4. p \notin PricesOf(side)
      BY <1>9, <3>3
    <3>5. LevelQty(side, p) = 0
      BY <3>4 DEF LevelQty
    <3> QED BY <1>8, <1>11, <3>1, <3>2, <3>5, LevelLeftIs
  <2> QED BY <2>1, <2>2, <2>3, <2>5, <2>6
<1>13. /\ t + x <= k * q
       /\ \A j \in Nat \ {0} :
            Left(q, t + x, j) = IF j = k THEN Left(q, t, j) - x ELSE Left(q, t, j)
  BY <1>7, <1>12, LeftAfter
<1>14. /\ traded' = [traded EXCEPT ![side] = t + x]
       /\ traded'[side] = t + x /\ \A s \in Sides \ {side} : traded'[s] = traded[s]
  <2>1. t + taker.qty - taker'.qty = t + x
    BY <1>4, <1>7
  <2>2. traded' = [traded EXCEPT ![side] = t + taker.qty - taker'.qty]
    BY <1>1, <1>6, <1>8
  <2>3. DOMAIN traded = Sides
    BY <1>2 DEF CountersInv
  <2> QED BY <2>1, <2>2, <2>3
<1>15. /\ MarketInv' /\ Levels' = Levels
       /\ \A s, j : QuotePrice(s, j)' = QuotePrice(s, j)
  BY <1>1, <1>2, MarketSame
<1>16. CountersInv'
  <2>1. PICK l \in Nat \ {0} : l = market.levels /\ k <= l
    BY <1>2, MarketTypes DEF Levels
  <2>2. k * q <= l * q /\ l * q \in Nat /\ k * q \in Nat
    BY <1>12, <2>1, ProductGrows
  <2>3. t + x \in 0 .. l * q
    BY <1>7, <1>13, <2>2
  <2>4. traded' \in [Sides -> 0 .. market.levels * market.qty]
    BY <1>2, <1>8, <1>14, <2>1, <2>3 DEF CountersInv
  <2> QED BY <1>1, <1>2, <1>3, <2>4 DEF CountersInv, Refreshes
<1>17. QuotesInv'
  <2>1. \A a \in DOMAIN index' : a \in DOMAIN index /\ index'[a] = index[a]
    BY <1>1 DEF Match, IndexAfterTrade, Without
  <2> QED BY <1>1, <1>2, <2>1 DEF QuotesInv
<1>18. SubmissionInv'
  BY <1>1, <1>2, <1>3, <1>6, <1>7 DEF SubmissionInv, NothingRejected
<1>19. ASSUME NEW s \in Sides, NEW j \in Levels
       PROVE  LevelQty(s, QuotePrice(s, j))' = Depth(s, j)'
  <2>1. PICK p \in 1 .. MaxPrice : p = QuotePrice(s, j) /\ QuotePrice(s, j)' = p
    BY <1>2, <1>15, LadderPrices
  <2>2. LevelQty(s, QuotePrice(s, j))' = LevelQty(s, p)'
    BY <2>1 DEF LevelQty, PricesOf
  <2>3. Depth(s, j)' = LevelLeft(s, j)'
    BY <1>1, <1>3 DEF Depth
  <2>4. LevelLeft(s, j)' = Left(q, traded'[s], j)
    BY <1>1, <1>8 DEF LevelLeft, Left
  <2>5. LevelQty(s, p) = Left(q, traded[s], j) /\ j \in Nat \ {0}
    BY <1>2, <1>8, <1>11, <2>1, LevelLeftIs, MarketTypes
  <2>6. CASE s # side
    BY <1>6, <1>14, <2>2, <2>3, <2>4, <2>5, <2>6
  <2>7. CASE s = side
    <3>1. <<s, p>> = <<side, price>> <=> j = k
      BY <1>2, <1>10, <2>1, <2>7, LadderPrices
    <3>2. Left(q, t + x, j) = IF j = k THEN Left(q, t, j) - x ELSE Left(q, t, j)
      BY <1>13, <2>5
    <3> QED BY <1>6, <1>8, <1>14, <2>2, <2>3, <2>4, <2>5, <2>7, <3>1, <3>2
  <2> QED BY <2>6, <2>7
<1>20. LadderInv'
  <2>1. \A s \in Sides : \A p \in PricesOf(s)' : \E j \in Levels : p = QuotePrice(s, j)
    BY <1>2, <1>3, <1>6 DEF LadderInv
  <2> QED BY <1>15, <1>19, <2>1 DEF LadderInv
<1> QED BY <1>3, <1>4, <1>15, <1>16, <1>17, <1>18, <1>20 DEF VenueInv

\* The ladder is complete: the tick is over with nothing taken from it.
LEMMA RefreshEndKeeps ==
  ASSUME VenueAssumption, VenueInv, RefreshEnd
  PROVE  VenueInv'
<1>1. /\ UNCHANGED <<levels, index, taker, fills, outcome, arrived>>
      /\ UNCHANGED <<market, quote_ids, next_child_id, rung, ticks>>
      /\ phase = "Quoting" /\ rung = 2 * market.levels /\ taker = NoTaker /\ phase' = "Idle"
      /\ next_quote_id' = next_quote_id + OtherQuotes /\ traded' = [side \in Sides |-> 0]
  BY DEF RefreshEnd, vars
<1>2. IInv /\ MarketInv /\ CountersInv /\ QuotesInv /\ SubmissionInv /\ LadderInv
  BY DEF VenueInv
<1>3. IInv'
  BY <1>1, <1>2, NextKeeps DEF vars
<1>4. /\ MarketInv' /\ Levels' = Levels
      /\ \A s, k : QuotePrice(s, k)' = QuotePrice(s, k)
      /\ \A s : PricesOf(s)' = PricesOf(s)
      /\ \A s, p : LevelQty(s, p)' = LevelQty(s, p)
  BY <1>1, <1>2, MarketSame, BookSame
<1>5. /\ market.levels \in Nat \ {0} /\ market.qty \in Nat \ {0}
      /\ LadderIds \in Nat /\ 2 * market.levels <= LadderIds /\ OtherQuotes \in Nat
      /\ ticks \in Nat /\ QuoteIdBase \in Nat /\ next_quote_id \in Nat
  BY <1>2, LadderIdsBound, MarketTypes DEF VenueAssumption, CountersInv
<1>6. CountersInv'
  <2>1. PICK w \in Nat : w = LadderIds + OtherQuotes
    BY <1>5
  <2>2. PICK x, y \in Nat : x = ticks * w /\ y = (ticks + 1) * w /\ y = x + w
    <3>1. ticks * w \in Nat /\ (ticks + 1) * w = ticks * w + w
      BY <1>5, <2>1
    <3> QED BY <3>1
  <2>3. next_quote_id <= QuoteIdBase + x + 2 * market.levels /\ QuoteIdBase <= next_quote_id
    BY <1>1, <1>2, <2>1, <2>2 DEF CountersInv, Refreshes
  <2>4. /\ next_quote_id' \in Nat /\ QuoteIdBase <= next_quote_id'
        /\ next_quote_id' <= QuoteIdBase + y + 0
    BY <1>1, <1>5, <2>1, <2>2, <2>3
  <2>5. Refreshes' * (LadderIds + OtherQuotes) = y
    BY <1>1, <2>1, <2>2 DEF Refreshes
  <2>6. market.levels * market.qty \in Nat
    BY <1>5, ProductGrows
  <2>7. traded' \in [Sides -> 0 .. market.levels * market.qty]
    BY <1>1, <2>6
  <2> QED BY <1>1, <1>2, <2>4, <2>5, <2>7 DEF CountersInv
<1>7. QuotesInv'
  <2>1. PICK last, next \in Int : last = next_quote_id - 1 /\ next = next_quote_id' - 1
    BY <1>1, <1>5
  <2>2. last <= next
    BY <1>1, <1>5, <2>1
  <2>3. quote_ids \in Seq(QuoteIdBase .. last) /\ QuoteIdBase .. last \subseteq QuoteIdBase .. next
    BY <1>2, <1>5, <2>1, <2>2 DEF QuotesInv
  <2>4. quote_ids \in Seq(QuoteIdBase .. next)
    BY <2>3, SeqMonotone
  <2> QED BY <1>1, <1>2, <2>1, <2>4 DEF QuotesInv
<1>8. SubmissionInv'
  BY <1>1, <1>2 DEF SubmissionInv, NothingRejected
<1>9. ASSUME NEW s \in Sides, NEW k \in Levels
      PROVE  LevelQty(s, QuotePrice(s, k))' = Depth(s, k)'
  <2>1. LevelQty(s, QuotePrice(s, k))' = LevelQty(s, QuotePrice(s, k))
    BY <1>1, <1>4 DEF LevelQty, PricesOf
  <2>2. PICK n \in Nat : n = Number(s, k) /\ n < rung
    BY <1>1, <1>2, <1>5, Numbering
  <2>3. LevelQty(s, QuotePrice(s, k)) = market.qty
    BY <1>1, <1>2, <2>2 DEF LadderInv, Depth, Placed
  <2>4. Depth(s, k)' = LevelLeft(s, k)'
    BY <1>1 DEF Depth
  <2>5. LevelLeft(s, k)' = Left(market.qty, 0, k)
    BY <1>1 DEF LevelLeft, Left
  <2>6. Left(market.qty, 0, k) = market.qty
    <3>1. PICK q \in Nat \ {0}, i \in Nat \ {0} : q = market.qty /\ i = k
      BY <1>2, MarketTypes
    <3>2. 1 * q <= i * q /\ i * q \in Nat /\ 1 * q = q
      BY <3>1, ProductGrows
    <3> QED BY <3>1, <3>2 DEF Left
  <2> QED BY <2>1, <2>3, <2>4, <2>5, <2>6
<1>10. LadderInv'
  BY <1>1, <1>2, <1>4, <1>9 DEF LadderInv
<1> QED BY <1>3, <1>4, <1>6, <1>7, <1>8, <1>10 DEF VenueInv

LEMMA VenueInitInv == VenueAssumption /\ VenueInit => VenueInv
<1> SUFFICES ASSUME VenueAssumption, VenueInit PROVE VenueInv
  OBVIOUS
<1>1. /\ Init /\ market \in Markets /\ LadderFits(market, LevelStep(market))
      /\ quote_ids = <<>> /\ next_quote_id = QuoteIdBase /\ next_child_id = 1
      /\ phase = "Quoting" /\ rung = 0 /\ ticks = 0 /\ traded = [side \in Sides |-> 0]
  BY DEF VenueInit
<1>2. IInv /\ taker = NoTaker /\ outcome = "None" /\ DOMAIN index = {}
  BY <1>1, EmptyBook DEF Init, EmptyMap
<1>3. MarketInv
  BY <1>1 DEF MarketInv, Step
<1>4. /\ market.levels \in Nat \ {0} /\ market.qty \in Nat \ {0} /\ LadderIds \in Nat
      /\ OtherQuotes \in Nat /\ QuoteIdBase \in Nat /\ MaxTicks \in Nat /\ MaxChildren \in Nat
  BY <1>3, LadderIdsBound, MarketTypes DEF VenueAssumption
<1>5. CountersInv
  <2>1. market.levels * market.qty \in Nat
    BY <1>4, ProductGrows
  <2>2. traded \in [Sides -> 0 .. market.levels * market.qty]
    BY <1>1, <2>1
  <2>3. Refreshes * (LadderIds + OtherQuotes) = 0
    BY <1>1, <1>4 DEF Refreshes
  <2> QED BY <1>1, <1>4, <2>2, <2>3 DEF CountersInv
<1>6. QuotesInv /\ SubmissionInv
  BY <1>1, <1>2 DEF QuotesInv, SubmissionInv, NothingRejected
<1>7. \A s \in Sides : PricesOf(s) = {}
  BY <1>1 DEF Init, PricesOf, EmptyMap
<1>8. ASSUME NEW s \in Sides, NEW k \in Levels
      PROVE  LevelQty(s, QuotePrice(s, k)) = Depth(s, k)
  <2>1. PICK n \in Nat : n = Number(s, k)
    BY <1>3, <1>4, Numbering
  <2>2. Placed = 0 /\ ~(n < 0)
    BY <1>1, <1>2 DEF Placed
  <2> QED BY <1>1, <1>7, <2>1, <2>2 DEF LevelQty, Depth
<1>9. LadderInv
  BY <1>7, <1>8 DEF LadderInv
<1> QED BY <1>2, <1>3, <1>5, <1>6, <1>9 DEF VenueInv

LEMMA VenueNextKeeps == VenueAssumption /\ VenueInv /\ [VenueNext]_venueVars => VenueInv'
<1> SUFFICES ASSUME VenueAssumption, VenueInv, [VenueNext]_venueVars PROVE VenueInv'
  OBVIOUS
<1>1. CASE TickBegin \/ RefreshBegin
  BY <1>1, QuietTickKeeps
<1>2. CASE \E side \in Sides, limit \in (1 .. MaxPrice) \cup {NoLimit}, qty \in ChildQtys :
             Execute(side, limit, qty)
  BY <1>2, ExecuteKeeps
<1>3. CASE Trade
  BY <1>3, TradeKeeps
<1>4. CASE Matched
  <2>1. phase \in {"Trading", "Quoting"}
    BY <1>4 DEF Matched, FinishFilled, Rest, CancelRemainder, VenueInv, SubmissionInv
  <2> QED BY <1>4, <2>1, ChildEnds, QuoteRests
<1>5. CASE CancelQuote
  BY <1>5, CancelQuoteKeeps
<1>6. CASE CancelEnd
  BY <1>6, CancelEndKeeps
<1>7. CASE SubmitQuote
  BY <1>7, SubmitQuoteKeeps
<1>8. CASE RefreshEnd
  BY <1>8, RefreshEndKeeps
<1>9. CASE UNCHANGED venueVars
  <2>1. /\ UNCHANGED <<levels, index, taker, fills, outcome, arrived>>
        /\ UNCHANGED <<market, quote_ids, next_quote_id, next_child_id, phase, rung, ticks, traded>>
    BY <1>9 DEF venueVars, vars
  <2>2. IInv /\ MarketInv /\ CountersInv /\ QuotesInv /\ SubmissionInv /\ LadderInv
    BY DEF VenueInv
  <2>3. IInv'
    BY <2>1, <2>2, NextKeeps DEF vars
  <2>4. /\ MarketInv' /\ Levels' = Levels
        /\ \A s, k : QuotePrice(s, k)' = QuotePrice(s, k)
        /\ \A s : PricesOf(s)' = PricesOf(s)
        /\ \A s, p : LevelQty(s, p)' = LevelQty(s, p)
        /\ \A s, k : LevelLeft(s, k)' = LevelLeft(s, k)
    BY <2>1, <2>2, MarketSame, BookSame, LeftSame
  <2>5. CountersInv' /\ QuotesInv'
    BY <2>1, <2>2 DEF CountersInv, Refreshes, QuotesInv
  <2>6. SubmissionInv'
    BY <2>1, <2>2, <2>4 DEF SubmissionInv, NothingRejected, Number
  <2>7. LadderInv'
    BY <2>1, <2>2, <2>4 DEF LadderInv, Depth, Placed, Number
  <2> QED BY <2>3, <2>4, <2>5, <2>6, <2>7 DEF VenueInv
<1> QED
  BY <1>1, <1>2, <1>3, <1>4, <1>5, <1>6, <1>7, <1>8, <1>9 DEF VenueNext, NoMoreTicks

\* The inductive invariant: the book's own, and what the quotes and the children make
\* of it.
THEOREM VenueInvariant == VenueAssumption /\ VenueSpec => []VenueInv
<1>1. VenueAssumption => VenueAssumption'
  BY DEF VenueAssumption
<1>2. VenueAssumption /\ VenueInv /\ [VenueNext]_venueVars => VenueInv'
  BY VenueNextKeeps
<1> QED BY <1>1, <1>2, VenueInitInv, PTL DEF VenueSpec

-----------------------------------------------------------------------------
(* What the invariant says *)

\* A side that holds a whole ladder, and nothing else.
FullSide(side) ==
  /\ PricesOf(side) = {QuotePrice(side, k) : k \in Levels}
  /\ \A k \in Levels : LevelQty(side, QuotePrice(side, k)) = market.qty

LEMMA IdleIsFull ==
  ASSUME VenueAssumption, VenueInv, phase = "Idle", NEW side \in Sides
  PROVE  FullSide(side)
<1>1. IInv /\ MarketInv /\ CountersInv /\ LadderInv
  BY DEF VenueInv
<1>2. LevelsKnown
  BY <1>1, LevelsHold DEF IInv
<1>3. ASSUME NEW k \in Levels
      PROVE  /\ LevelQty(side, QuotePrice(side, k)) = market.qty
             /\ QuotePrice(side, k) \in PricesOf(side)
  <2>1. LevelQty(side, QuotePrice(side, k)) = Left(market.qty, 0, k)
    BY <1>1, LevelLeftIs DEF LadderInv, Depth, CountersInv
  <2>2. Left(market.qty, 0, k) = market.qty
    <3>1. PICK q \in Nat \ {0}, i \in Nat \ {0} : q = market.qty /\ i = k
      BY <1>1, MarketTypes
    <3>2. 1 * q <= i * q /\ i * q \in Nat /\ 1 * q = q
      BY <3>1, ProductGrows
    <3> QED BY <3>1, <3>2 DEF Left
  <2>3. market.qty \in Nat \ {0} /\ QuotePrice(side, k) \in 1 .. MaxPrice
    BY <1>1, MarketTypes, LadderPrices
  <2> QED BY <1>2, <2>1, <2>2, <2>3 DEF LevelsKnown
<1>4. \A p \in PricesOf(side) : \E k \in Levels : p = QuotePrice(side, k)
  BY <1>1 DEF LadderInv
<1> QED BY <1>3, <1>4 DEF FullSide

\* As many prices as levels.
LEMMA LadderCount ==
  ASSUME VenueAssumption, MarketInv, NEW side \in Sides, NEW n \in 0 .. market.levels
  PROVE  /\ IsFiniteSet({QuotePrice(side, j) : j \in 1 .. n})
         /\ Cardinality({QuotePrice(side, j) : j \in 1 .. n}) = n
<1> DEFINE S == {QuotePrice(side, j) : j \in 1 .. n}
           f == [j \in 1 .. n |-> QuotePrice(side, j)]
<1>1. n \in Nat /\ 1 .. n \subseteq Levels
  BY MarketTypes DEF Levels
<1>2. f \in Bijection(1 .. n, S)
  <2>1. f \in [1 .. n -> S]
    OBVIOUS
  <2>2. \A i, j \in 1 .. n : f[i] = f[j] => i = j
    BY <1>1, LadderPrices
  <2>3. \A x \in S : \E j \in 1 .. n : f[j] = x
    OBVIOUS
  <2> QED BY <2>1, <2>2, <2>3 DEF Bijection, Injection, Surjection, IsInjective
<1> HIDE DEF S, f
<1>3. IsFiniteSet(1 .. n) /\ Cardinality(1 .. n) = n
  BY <1>1, FS_Interval
<1>4. IsFiniteSet(S) /\ Cardinality(S) = n
  BY <1>2, <1>3, FS_Bijection DEF ExistsBijection
<1> QED BY <1>4 DEF S

LEMMA FullDepth ==
  ASSUME VenueAssumption, MarketInv, NEW side \in Sides, FullSide(side)
  PROVE  TopLevels(side, market.levels) =
           [k \in 1 .. market.levels |-> <<QuotePrice(side, k), market.qty>>]
<1>1. PICK l \in Nat \ {0} : l = market.levels /\ Levels = 1 .. l
  BY MarketTypes DEF Levels
<1>2. PICK P : P = PricesOf(side) /\ P = {QuotePrice(side, k) : k \in 1 .. l}
  BY <1>1 DEF FullSide
<1>3. Cardinality(P) = l
  <2>1. l \in 0 .. market.levels
    BY <1>1
  <2>2. Cardinality({QuotePrice(side, j) : j \in 1 .. l}) = l
    BY <2>1, LadderCount
  <2> QED BY <1>2, <2>2
<1>4. ASSUME NEW k \in 1 .. l
      PROVE  Cardinality({q \in P : Better(side, q, QuotePrice(side, k))}) = k - 1
  <2>1. k \in Levels /\ k - 1 \in 0 .. market.levels /\ 1 .. k - 1 \subseteq Levels
    BY <1>1
  <2>2. \A j \in Levels : Better(side, QuotePrice(side, j), QuotePrice(side, k)) <=> j < k
    BY <2>1, LadderPrices
  <2>3. \A j \in Levels : j < k <=> j \in 1 .. k - 1
    BY <1>1
  <2>4. {q \in P : Better(side, q, QuotePrice(side, k))} = {QuotePrice(side, j) : j \in 1 .. k - 1}
    BY <1>1, <1>2, <2>1, <2>2, <2>3
  <2> QED BY <2>1, <2>4, LadderCount
<1>5. ASSUME NEW k \in 1 .. l PROVE PriceAfter(side, k - 1) = QuotePrice(side, k)
  <2>1. QuotePrice(side, k) \in P
    BY <1>2
  <2>2. ASSUME NEW p \in P, Cardinality({q \in P : Better(side, q, p)}) = k - 1
        PROVE  p = QuotePrice(side, k)
    <3>1. PICK j \in 1 .. l : p = QuotePrice(side, j)
      BY <1>2
    <3>2. j - 1 = k - 1
      BY <1>4, <2>2, <3>1
    <3>3. j = k
      BY <3>2
    <3> QED BY <3>1, <3>3
  <2> QED BY <1>2, <1>4, <2>1, <2>2 DEF PriceAfter
<1>6. Min({l, Cardinality(P)}) = l
  <2>1. l \in Int
    OBVIOUS
  <2>2. Min({l, l}) \in {l, l}
    BY ONLY <2>1, MinOfTwo
  <2> QED BY ONLY <1>3, <2>2
<1>7. TopLevels(side, l) =
        [i \in 1 .. l |-> <<PriceAfter(side, i - 1), LevelQty(side, PriceAfter(side, i - 1))>>]
  BY <1>2, <1>6 DEF TopLevels
<1>8. \A i \in 1 .. l : <<PriceAfter(side, i - 1), LevelQty(side, PriceAfter(side, i - 1))>> =
                          <<QuotePrice(side, i), market.qty>>
  BY <1>1, <1>5 DEF FullSide
<1> QED BY <1>1, <1>7, <1>8

\* One order rests for each quote of a full ladder.
LEMMA FullCount ==
  ASSUME VenueAssumption, VenueInv, \A side \in Sides : FullSide(side)
  PROVE  OrderCount = 2 * market.levels
<1>1. IInv /\ MarketInv /\ QuotesInv /\ LevelsKnown /\ IndexInv
  BY LevelsHold DEF VenueInv, IInv, BookInv
<1>2. PICK last \in Nat : last = 2 * market.levels - 1
  <2>1. 2 * market.levels - 1 \in Nat
    BY <1>1, MarketTypes
  <2> QED BY <2>1
<1> DEFINE at(n) == <<QuoteSide(n), QuotePrice(QuoteSide(n), n \div 2 + 1)>>
           D == DOMAIN index
           f == [n \in 0 .. last |-> CHOOSE id \in D : index[id] = at(n)]
<1>3. ASSUME NEW n \in 0 .. last PROVE f[n] \in D /\ index[f[n]] = at(n)
  <2>1. PICK side \in Sides, k \in Levels : side = QuoteSide(n) /\ k = n \div 2 + 1
    BY <1>1, <1>2, Numbering
  <2>2. QuotePrice(side, k) \in PricesOf(side) /\ QuotePrice(side, k) \in 1 .. MaxPrice
    BY <1>1, LadderPrices DEF FullSide
  <2>3. \E id \in D : index[id] = <<side, QuotePrice(side, k)>>
    BY <1>1, <2>2 DEF LevelsKnown
  <2>4. \E id \in D : index[id] = at(n)
    BY <2>1, <2>3
  <2> HIDE DEF at, D
  <2> QED BY <2>4
<1>4. ASSUME NEW m \in 0 .. last, NEW n \in 0 .. last, f[m] = f[n] PROVE m = n
  <2>1. at(m) = at(n)
    BY <1>3, <1>4
  <2>2. /\ QuoteSide(n) \in Sides /\ n \div 2 + 1 \in Levels
        /\ m \div 2 + 1 \in Levels
        /\ Number(QuoteSide(n), n \div 2 + 1) = n
        /\ Number(QuoteSide(m), m \div 2 + 1) = m
    BY <1>1, <1>2, Numbering
  <2>3. QuoteSide(m) = QuoteSide(n)
    BY <2>1
  <2>4. QuotePrice(QuoteSide(n), m \div 2 + 1) = QuotePrice(QuoteSide(n), n \div 2 + 1)
    BY <2>1
  <2>5. m \div 2 + 1 = n \div 2 + 1
    BY <1>1, <2>2, <2>4, LadderPrices
  <2> QED BY ONLY <2>2, <2>3, <2>5
<1>5. ASSUME NEW id \in D PROVE \E n \in 0 .. last : f[n] = id
  <2>1. PICK side \in Sides, price \in 1 .. MaxPrice : index[id] = <<side, price>>
    BY <1>1 DEF IndexInv
  <2>2. price \in PricesOf(side)
    BY <1>1, <2>1 DEF LevelsKnown
  <2>3. PICK k \in Levels : price = QuotePrice(side, k)
    BY <2>2 DEF FullSide
  <2>4. PICK n \in 0 .. last : n = Number(side, k) /\ side = QuoteSide(n) /\ k = n \div 2 + 1
    BY <1>1, <1>2, Numbering
  <2>5. index[id] = at(n)
    BY <2>1, <2>3, <2>4
  <2>6. f[n] = id
    BY <1>1, <1>3, <2>5 DEF QuotesInv
  <2> QED BY <2>6
<1>6. f \in Bijection(0 .. last, D)
  <2>1. f \in [0 .. last -> D]
    BY <1>3
  <2> HIDE DEF f, D, at
  <2> QED BY <2>1, <1>4, <1>5 DEF Bijection, Injection, Surjection, IsInjective
<1>7. IsFiniteSet(0 .. last) /\ Cardinality(0 .. last) = last + 1
  BY FS_Interval
<1>8. Cardinality(D) = last + 1
  <2> HIDE DEF f, D, at
  <2> QED BY <1>6, <1>7, FS_Bijection DEF ExistsBijection
<1> QED BY <1>1, <1>2, <1>8, MarketTypes DEF OrderCount

\* The best bid and the best ask of a full ladder are as far from the reference price.
LEMMA FullMid ==
  ASSUME VenueAssumption, MarketInv, BookInv, \A side \in Sides : FullSide(side)
  PROVE  TwoSided /\ Mid = market.reference
<1>1. ASSUME NEW side \in Sides
      PROVE  PricesOf(side) # {} /\ BestPrice(side) = QuotePrice(side, 1)
  <2>1. 1 \in Levels /\ QuotePrice(side, 1) \in PricesOf(side)
    BY MarketTypes DEF FullSide
  <2>2. PricesOf(side) \subseteq 1 .. MaxPrice
    BY DEF BookInv, LevelsInv
  <2>3. BestPrice(side) \in PricesOf(side) /\ ~Better(side, QuotePrice(side, 1), BestPrice(side))
    BY <2>1, <2>2, BestIsBest DEF Better, Sides
  <2>4. PICK k \in Levels : BestPrice(side) = QuotePrice(side, k)
    BY <2>3 DEF FullSide
  <2>5. ~(1 < k)
    BY <2>1, <2>3, <2>4, LadderPrices
  <2>6. k = 1
    BY <2>4, <2>5, MarketTypes
  <2> QED BY <2>1, <2>4, <2>6
<1>2. PICK r, s \in Nat : r = market.reference /\ s = Step
  BY MarketTypes
<1>3. BestPrice("Buy") = r - s /\ BestPrice("Sell") = r + s
  BY <1>1, <1>2, LadderPrices DEF Sides
<1>4. ((r - s) + (r + s)) \div 2 = r
  BY <1>2
<1> QED BY <1>1, <1>2, <1>3, <1>4 DEF TwoSided, Mid, Sides

LEMMA LadderIsComplete == VenueAssumption /\ VenueInv => LadderRestored
<1> SUFFICES ASSUME VenueAssumption, VenueInv, phase = "Idle"
             PROVE  /\ \A side \in Sides :
                         TopLevels(side, market.levels) =
                           [k \in 1 .. market.levels |-> <<QuotePrice(side, k), market.qty>>]
                    /\ OrderCount = 2 * market.levels
                    /\ TwoSided /\ Mid = market.reference
  BY DEF LadderRestored
<1>1. MarketInv /\ BookInv /\ \A side \in Sides : FullSide(side)
  BY IdleIsFull DEF VenueInv, IInv
<1> QED BY <1>1, FullDepth, FullCount, FullMid

\* venue.rs:22-23, 86: whatever the children of a tick took, the refresh leaves the full
\* ladder, one order to a level, and the mid at the reference price.
THEOREM LadderIsRestored == VenueAssumption /\ VenueSpec => []LadderRestored
<1>1. VenueAssumption => VenueAssumption'
  BY DEF VenueAssumption
<1> QED BY <1>1, LadderIsComplete, VenueInvariant, PTL

LEMMA DepthIsLeft ==
  ASSUME VenueAssumption, VenueInv
  PROVE  DepthIsLadderLessTraded
<1>1. MarketInv /\ LadderInv
  BY DEF VenueInv
<1> SUFFICES ASSUME phase = "Trading", NEW side \in Sides, NEW price \in 1 .. MaxPrice
             PROVE  LevelQty(side, price) =
                      IF \E k \in Levels : price = QuotePrice(side, k)
                      THEN LevelLeft(side, CHOOSE k \in Levels : price = QuotePrice(side, k))
                      ELSE 0
  BY DEF DepthIsLadderLessTraded, Levels
<1>2. CASE \E k \in Levels : price = QuotePrice(side, k)
  <2>1. PICK k : k = CHOOSE n \in Levels : price = QuotePrice(side, n)
    OBVIOUS
  <2>2. k \in Levels /\ price = QuotePrice(side, k)
    BY <1>2, <2>1
  <2>3. LevelQty(side, price) = LevelLeft(side, k)
    BY <1>1, <2>2 DEF LadderInv, Depth
  <2> QED BY <1>2, <2>1, <2>3
<1>3. CASE ~ \E k \in Levels : price = QuotePrice(side, k)
  <2>1. price \notin PricesOf(side)
    BY <1>1, <1>3 DEF LadderInv
  <2> QED BY <1>3, <2>1 DEF LevelQty
<1> QED BY <1>2, <1>3

LEMMA VenueIsTyped ==
  ASSUME VenueAssumption, VenueInv
  PROVE  VenueTypeOK
<1>1. IInv /\ MarketInv /\ CountersInv /\ QuotesInv
  BY DEF VenueInv
<1>2. CheckInvariants
  BY <1>1, BookIsSound
<1>3. next_quote_id \in QuoteIdBase .. MaxQuoteId /\ MaxQuoteId \in Nat
  BY <1>1, QuoteIds
<1>4. quote_ids \in Seq(QuoteIdBase .. MaxQuoteId)
  <2>1. next_quote_id \in Int /\ MaxQuoteId \in Int /\ QuoteIdBase \in Int
    BY <1>1, <1>3 DEF CountersInv, VenueAssumption
  <2>2. QuoteIdBase .. next_quote_id - 1 \subseteq QuoteIdBase .. MaxQuoteId
    BY <1>3, <2>1
  <2> QED BY <1>1, <2>2, SeqMonotone DEF QuotesInv
<1> QED BY <1>1, <1>2, <1>3, <1>4 DEF VenueTypeOK, MarketInv, CountersInv

\* venue.rs:11-12, 114: every child is accepted and meets the ladder less what the
\* children before it took, nearest levels first; only quotes rest, all known to the
\* next refresh; no quote is rejected; and the book is sound throughout.
THEOREM EveryChildMeetsLadder == VenueAssumption /\ VenueSpec => []ChildrenMeetLadder
<1>1. VenueAssumption => VenueAssumption'
  BY DEF VenueAssumption
<1>2. VenueAssumption /\ VenueInv => ChildrenMeetLadder
  BY DepthIsLeft, VenueIsTyped DEF VenueInv, QuotesInv, SubmissionInv, OnlyQuotesRest,
     ChildrenMeetLadder
<1> QED BY <1>1, <1>2, VenueInvariant, PTL

-----------------------------------------------------------------------------
(* The venue is one of those the engine expects *)

\* What the engine sees, by the phase of the tick.
SeenInv ==
  /\ MarkSeen = IF phase = "Idle" THEN market.reference ELSE Unquoted
  /\ ChildSent <=> phase = "Trading" /\ taker # NoTaker
  /\ ~ChildSent => ChildSeen = NoTaker /\ FillsSeen = <<>>
  /\ ChildSent =>
       /\ ChildSeen = [side |-> taker.side, limit_price |-> taker.limit_price, qty |-> taker.qty]
       /\ ChildSeen # NoTaker
       /\ FillsSeen = [i \in DOMAIN fills |-> <<fills[i].price, fills[i].qty>>]

LEMMA SeenHolds == VenueAssumption /\ VenueInv => SeenInv
<1> SUFFICES ASSUME VenueAssumption, VenueInv PROVE SeenInv
  OBVIOUS
<1>1. IInv /\ MarketInv /\ CountersInv /\ QuotesInv /\ SubmissionInv
  BY DEF VenueInv
<1>2. MarkSeen = IF phase = "Idle" THEN market.reference ELSE Unquoted
  BY LadderIsComplete DEF LadderRestored, MarkSeen
<1>3. phase = "Trading" /\ taker # NoTaker => ChildSent
  <2>1. next_child_id - 1 < QuoteIdBase /\ next_child_id \in Nat /\ QuoteIdBase \in Nat
    BY <1>1, QuoteIds DEF CountersInv, VenueAssumption
  <2> QED BY <1>1, <2>1 DEF SubmissionInv, ChildSent
<1>4. phase # "Trading" => ~ChildSent
  <2>1. \A id \in ToSet(quote_ids) : id \in QuoteIdBase .. next_quote_id - 1
    <3>1. quote_ids \in Seq(QuoteIdBase .. next_quote_id - 1)
      BY <1>1 DEF QuotesInv
    <3>2. \A i \in DOMAIN quote_ids : quote_ids[i] \in QuoteIdBase .. next_quote_id - 1
      BY <3>1, ElementOfSeq, LenProperties
    <3> QED BY <3>2 DEF ToSet
  <2>2. QuoteIdBase \in Nat /\ next_quote_id \in Nat
    BY <1>1 DEF CountersInv, VenueAssumption
  <2> QED BY <1>1, <2>1, <2>2 DEF SubmissionInv, ChildSent
<1>5. ASSUME ChildSent PROVE ChildSeen # NoTaker
  <2>1. taker \in Order
    BY <1>1, <1>5 DEF IInv, TakerInv, ChildSent
  <2>2. ChildSeen \in [side : Sides, limit_price : 0 .. MaxPrice \cup {NoLimit}, qty : Qty]
    BY <1>5, <2>1 DEF ChildSeen, Order
  <2> QED BY <2>2 DEF VenueAssumption
<1> QED BY <1>2, <1>3, <1>4, <1>5 DEF SeenInv, ChildSent, ChildSeen, FillsSeen

LEMMA SeenHoldsAfter == VenueAssumption /\ VenueInv' => SeenInv'
<1>1. VenueAssumption => VenueAssumption'
  BY DEF VenueAssumption
<1> QED BY <1>1, SeenHolds, PTL

LEMMA SeenInit == VenueAssumption /\ VenueInit => Seen!Init
<1> SUFFICES ASSUME VenueAssumption, VenueInit PROVE Seen!Init
  OBVIOUS
<1>1. SeenInv /\ MarketInv /\ phase = "Quoting"
  BY VenueInitInv, SeenHolds DEF VenueInit, VenueInv
<1>2. market.reference \in 1 .. MaxPrice
  BY <1>1, MarketTypes
<1> QED BY <1>1, <1>2 DEF SeenInv, Seen!Init

LEMMA SeenTrade ==
  ASSUME VenueAssumption, VenueInv, VenueInv', SeenInv, SeenInv', Trade
  PROVE  Seen!Next
<1>1. /\ Match /\ taker # NoTaker /\ phase = "Trading" /\ UNCHANGED <<market, phase>>
  BY TradeKeeps DEF Trade, Match
<1>2. BookInv /\ taker \in Order /\ fills \in Seq(FillRecord)
  BY <1>1 DEF VenueInv, IInv, TakerInv
<1>3. PICK price \in 1 .. MaxPrice, x \in Qty \ {0}, maker \in OrderIds :
        /\ Accepts(taker, price) /\ x <= taker.qty
        /\ taker' = [taker EXCEPT !.qty = taker.qty - x]
        /\ fills' = Append(fills, [maker |-> maker, price |-> price, qty |-> x])
  <2>1. PICK side \in Sides, price \in 1 .. MaxPrice, maker \in Order, x \in Qty \ {0},
             at \in DOMAIN arrived : Traded(side, price, maker, x, at)
    BY <1>1, <1>2, MatchTrades
  <2>2. maker.qty \in Int /\ taker.qty \in Int
    BY <1>2, Constants DEF Order, Qty
  <2>3. /\ Accepts(taker, price) /\ x <= taker.qty
        /\ taker' = [taker EXCEPT !.qty = taker.qty - x]
        /\ fills' = Append(fills, [maker |-> maker.id, price |-> price, qty |-> x])
    BY <2>1, <2>2 DEF Traded, LesserQty
  <2>4. maker.id \in OrderIds
    BY <2>1 DEF Order
  <2> QED BY <2>3, <2>4
<1>4. PICK fill : fill = [maker |-> maker, price |-> price, qty |-> x]
  OBVIOUS
<1>5. /\ taker' # NoTaker /\ taker'.side = taker.side /\ taker'.limit_price = taker.limit_price
      /\ taker'.qty = taker.qty - x
  <2>1. PICK q : q = taker.qty - x
    OBVIOUS
  <2>2. PICK t \in Order : t = taker
    BY <1>2
  <2>3. q \in Qty
    <3>1. taker.qty \in Qty
      BY <2>2 DEF Order
    <3> QED BY <1>3, <2>1, <3>1, Constants DEF Qty
  <2>4. [t EXCEPT !.qty = q] \in Order
    BY <2>3 DEF Order
  <2>5. taker' = [t EXCEPT !.qty = q]
    BY <1>3, <2>1, <2>2
  <2>6. taker' \in Order
    BY <2>4, <2>5
  <2>7. taker'.side = taker.side /\ taker'.limit_price = taker.limit_price /\ taker'.qty = q
    BY <2>2, <2>5 DEF Order
  <2> QED BY <2>1, <2>6, <2>7, Constants DEF Order
<1>6. ChildSent /\ ChildSent'
  BY <1>1, <1>5 DEF SeenInv
<1>7. /\ ChildSeen = [side |-> taker.side, limit_price |-> taker.limit_price, qty |-> taker.qty]
      /\ ChildSeen' = [ChildSeen EXCEPT !.qty = ChildSeen.qty - x]
  BY <1>5, <1>6 DEF SeenInv
<1>8. FillsSeen' = Append(FillsSeen, <<price, x>>)
  <2> DEFINE Pair == (1 .. MaxPrice) \X Qty
             seen == [i \in DOMAIN fills |-> <<fills[i].price, fills[i].qty>>]
             after == Append(seen, <<price, x>>)
  <2>1. FillsSeen = seen /\ FillsSeen' = [i \in DOMAIN fills' |-> <<fills'[i].price, fills'[i].qty>>]
    BY <1>6 DEF SeenInv
  <2>2. PICK n \in Nat : n = Len(fills) /\ DOMAIN fills = 1 .. n
    BY <1>2, LenProperties
  <2>3. fill \in FillRecord /\ fills \in Seq(FillRecord) /\ fills' = Append(fills, fill)
    BY <1>2, <1>3, <1>4 DEF FillRecord
  <2>4. /\ DOMAIN fills' = 1 .. n + 1 /\ fills'[n + 1] = fill
        /\ \A i \in 1 .. n : fills'[i] = fills[i]
    BY <2>2, <2>3, AppendProperties, LenProperties
  <2>5. seen \in Seq(Pair) /\ Len(seen) = n /\ <<price, x>> \in Pair
    <3>1. \A i \in 1 .. n : fills[i] \in FillRecord
      BY <2>2, <2>3, ElementOfSeq
    <3> QED BY <2>2, <3>1 DEF FillRecord
  <2>6. /\ after \in Seq(Pair) /\ Len(after) = n + 1 /\ after[n + 1] = <<price, x>>
        /\ \A i \in 1 .. n : after[i] = seen[i]
    BY <2>5, AppendProperties
  <2>7. after = [i \in 1 .. n + 1 |-> after[i]]
    BY <2>6
  <2> HIDE DEF after
  <2>8. \A i \in 1 .. n + 1 : after[i] = <<fills'[i].price, fills'[i].qty>>
    <3>1. after[n + 1] = <<fills'[n + 1].price, fills'[n + 1].qty>>
      BY <1>4, <2>4, <2>6
    <3>2. \A i \in 1 .. n : after[i] = <<fills'[i].price, fills'[i].qty>>
      BY <2>2, <2>4, <2>6
    <3>3. \A i \in 1 .. n + 1 : i \in 1 .. n \/ i = n + 1
      BY <2>2
    <3> QED BY <3>1, <3>2, <3>3
  <2>9. FillsSeen' = after
    BY <2>1, <2>4, <2>7, <2>8
  <2> QED BY <2>1, <2>9 DEF after
<1>9. x \in 1 .. QtyModulus - 1 /\ x <= ChildSeen.qty
  BY <1>3, <1>7, Constants DEF Qty
<1>10. Seen!Acceptable(price)
  BY <1>3, <1>7 DEF Accepts, Seen!Acceptable
<1>11. Seen!Fill(price, x)
  BY <1>1, <1>6, <1>7, <1>8, <1>9, <1>10 DEF SeenInv, Seen!Fill
<1> QED BY <1>9, <1>11 DEF Seen!Next

LEMMA SeenStep ==
  ASSUME VenueAssumption, VenueInv, VenueInv', [VenueNext]_venueVars
  PROVE  [Seen!Next]_(Seen!vars)
<1>1. SeenInv /\ SeenInv'
  BY SeenHolds, SeenHoldsAfter
<1>2. TakerInv /\ TakerInv' /\ SubmissionInv /\ SubmissionInv'
  BY DEF VenueInv, IInv
<1>3. CASE TickBegin
  <2>1. phase = "Idle" /\ phase' = "Trading" /\ UNCHANGED <<market, taker, fills>>
    BY <1>3 DEF TickBegin, vars
  <2>2. taker = NoTaker
    BY <1>2, <2>1 DEF SubmissionInv
  <2> QED BY <1>1, <2>1, <2>2 DEF SeenInv, Seen!Tick, Seen!Next
<1>4. ASSUME NEW side \in Sides, NEW limit \in (1 .. MaxPrice) \cup {NoLimit},
             NEW qty \in ChildQtys, Execute(side, limit, qty)
      PROVE  Seen!Next
  <2>1. /\ Accept(Child(side, limit, qty)) /\ phase = "Trading" /\ next_child_id <= MaxChildren
        /\ UNCHANGED <<market, phase>>
    BY <1>4, ExecuteKeeps DEF Execute
  <2>2. taker = NoTaker /\ taker' = Child(side, limit, qty) /\ fills' = fills /\ fills = <<>>
    BY <1>2, <2>1 DEF Accept, TakerInv
  <2>3. Child(side, limit, qty) \in Order
    BY <2>1, ChildIsValid
  <2>4. taker' # NoTaker
    BY <2>2, <2>3, Constants
  <2>5. ChildSeen' = [side |-> side, limit_price |-> limit, qty |-> qty]
    BY <1>1, <2>1, <2>2, <2>4 DEF SeenInv, Child
  <2>6. FillsSeen' = <<>>
    <3>1. FillsSeen' = [i \in DOMAIN fills' |-> <<fills'[i].price, fills'[i].qty>>]
      BY <1>1, <2>1, <2>4 DEF SeenInv
    <3>2. DOMAIN fills' = {}
      BY <2>2
    <3> QED BY <3>1, <3>2
  <2>7. ChildSeen' \in [side : {"Buy", "Sell"}, limit_price : (1 .. MaxPrice) \cup {NoLimit},
                        qty : 1 .. QtyModulus - 1]
    BY <2>5 DEF VenueAssumption, Sides
  <2> QED BY <1>1, <2>1, <2>2, <2>6, <2>7 DEF SeenInv, Seen!Send, Seen!Next
<1>5. CASE Trade
  BY <1>1, <1>5, SeenTrade
<1>6. CASE Matched
  <2>1. UNCHANGED <<market, phase>> /\ taker # NoTaker
    BY <1>6 DEF Matched, FinishFilled, Rest, CancelRemainder
  <2>2. CASE phase = "Trading"
    <3>1. taker' = NoTaker
      BY <1>6, <2>2, ChildEnds
    <3> QED BY <1>1, <2>1, <2>2, <3>1 DEF SeenInv, Seen!Done, Seen!Next
  <2>3. CASE phase # "Trading"
    BY <1>1, <2>1, <2>3 DEF SeenInv, Seen!vars
  <2> QED BY <2>2, <2>3
<1>7. CASE RefreshBegin \/ CancelQuote \/ CancelEnd \/ SubmitQuote
  <2>1. /\ UNCHANGED market /\ phase # "Idle" /\ phase' # "Idle" /\ phase' # "Trading"
        /\ phase # "Trading" \/ taker = NoTaker
    BY <1>7 DEF RefreshBegin, CancelQuote, CancelEnd, SubmitQuote
  <2> QED BY <1>1, <2>1 DEF SeenInv, Seen!vars
<1>8. CASE RefreshEnd
  <2>1. UNCHANGED market /\ phase = "Quoting" /\ phase' = "Idle"
    BY <1>8 DEF RefreshEnd
  <2> QED BY <1>1, <2>1 DEF SeenInv, Seen!Quoted, Seen!Next
<1>9. CASE UNCHANGED venueVars
  <2>1. UNCHANGED <<market, phase, taker, fills, levels>>
    BY <1>9 DEF venueVars, vars
  <2>2. ChildSeen' = ChildSeen /\ FillsSeen' = FillsSeen
    BY <2>1 DEF ChildSeen, FillsSeen, ChildSent
  <2> QED BY <1>1, <2>1, <2>2 DEF SeenInv, Seen!vars
<1> QED
  BY <1>3, <1>4, <1>5, <1>6, <1>7, <1>8, <1>9 DEF VenueNext, NoMoreTicks

\* executor.rs:196-200, 224-252: to the engine the venue is what AnyVenue describes, which
\* is what EngineCore relies on: one child at a time, its fills within its limit and what
\* it still wants, and the mid back at the reference price before the next tick.
THEOREM VenueIsAnyVenue == VenueAssumption /\ VenueSpec => ImplementsAnyVenue
<1>1. VenueAssumption => VenueAssumption'
  BY DEF VenueAssumption
<1>2. VenueAssumption /\ VenueInv /\ VenueInv' /\ [VenueNext]_venueVars => [Seen!Next]_(Seen!vars)
  BY SeenStep
<1> QED
  BY <1>1, <1>2, SeenInit, VenueInvariant, PTL DEF VenueSpec, ImplementsAnyVenue, Seen!Spec
=============================================================================
