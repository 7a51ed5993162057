----------------------------- MODULE EngineCore -----------------------------
(***************************************************************************)
(* The engine state of crates/engine: EngineCore (executor.rs), the parent *)
(* order lifecycle (state.rs) and the pre-trade checks (risk.rs).          *)
(*                                                                         *)
(* submit and cancel are one step each.  A tick is several steps - its     *)
(* start, per working order the release of due slices, the fills of the    *)
(* child one by one and the settling of the order, and its end - but no    *)
(* command is handled while pc is not "idle", as in the single task of     *)
(* event_loop.rs.  Time is the wall clock: each call reads any value.      *)
(*                                                                         *)
(* The venue is seen from outside: a child order gets any fills that its   *)
(* limit and its size allow, and between ticks the mid is the reference    *)
(* price Mark, the full ladder being quoted again at the end of each tick. *)
(***************************************************************************)
EXTENDS Accounting, SequencesExt

CONSTANTS
  Symbols, Mark,
  FillPrices,        \* prices the venue can execute at
  OrderSpecs,        \* the orders clients submit
  MaxTime,           \* bound: the clock reads 0 .. MaxTime
  MaxParents,        \* bound: parent orders accepted in a run
  NoLimit,
  MaxOrderQty, MaxOrderNotional, MaxPosition, MaxGross, CollarBps, MaxLoss,
  Retained           \* retained_finished_orders

Times == 0 .. MaxTime

\* A schedule is the sequence of its slices, each with its time and the part of
\* the parent released once it is due; what every scheduler of algo-core
\* returns: target times in order inside the window, quantities summing up.
IsSchedule(schedule, quantity, end) ==
  /\ schedule # <<>>
  /\ \A i \in DOMAIN schedule : schedule[i].time < end
  /\ \A i, j \in DOMAIN schedule :
       i <= j => /\ schedule[i].time <= schedule[j].time
                 /\ schedule[i].upto <= schedule[j].upto
  /\ schedule[Len(schedule)].upto = quantity

ASSUME EngineAssumption ==
  /\ IsFiniteSet(Symbols)
  /\ Mark \in [Symbols -> 1 .. HalfWord - 1]
  /\ FillPrices \subseteq 1 .. HalfWord - 1
  /\ MaxTime \in Nat /\ MaxParents \in Nat /\ Retained \in Nat \ {0}
  /\ MaxPosition \in 1 .. HalfWord - 1 /\ MaxOrderQty \in 1 .. HalfWord - 1
  /\ MaxGross \in Nat /\ MaxLoss \in 0 .. HalfValue - 1
  /\ \A order \in OrderSpecs :
       /\ order.side \in Sides /\ order.quantity \in Nat /\ order.end \in Nat
       /\ order.limit_price \in I64 \cup {NoLimit}
       /\ order.schedule \in Seq([time : Nat, upto : Nat])
       /\ IsSchedule(order.schedule, order.quantity, order.end)

VARIABLES
  parents,           \* id -> parent order, working or retained
  working,           \* ids of the working orders
  finished,          \* ids of the retained finished orders, oldest first
  positions,         \* per symbol
  next_parent_id,
  halted,            \* halt_reason is set
  pc, now, todo, current, sending, done, failure,   \* a tick in progress
  reported           \* ghost: the fill reports, summed per order and per symbol, and their cash

core == <<parents, working, finished, positions, next_parent_id, halted>>
tick == <<pc, now, todo, current, sending, done, failure>>
vars == <<core, tick, reported>>
-----------------------------------------------------------------------------
States == {"Working", "Filled", "Cancelled", "Expired"}

\* u64 and i128 sums saturate.
SaturateU64(n)  == Smaller(n, 2 * HalfWord - 1)
SaturateI128(n) == IF n < -HalfValue THEN -HalfValue ELSE Smaller(n, HalfValue - 1)

Unfilled(parent) == parent.quantity - parent.filled

WorkingQty(symbol, side) ==
  LET ids == {id \in working : parents[id].symbol = symbol /\ parents[id].side = side}
  IN  SaturateU64(SumFunction([id \in ids |-> Unfilled(parents[id])]))

GrossNotional ==
  SumFunction([s \in Symbols |->
    (Magnitude(positions[s].quantity) + WorkingQty(s, "Buy") + WorkingQty(s, "Sell"))
      * Mark[s]])

\* A mutation: open positions valued at cost, so only realized P&L counts.
Mutant_RealizedOnly == SumFunction([s \in Symbols |-> positions[s].realized_pnl])

Pnl(s) ==
  SaturateI128(positions[s].realized_pnl + SaturateI128(UnrealizedPnl(positions[s], Mark[s])))

TotalPnl ==
  FoldFunctionOnSet(LAMBDA a, b : SaturateI128(a + b), 0, [s \in Symbols |-> Pnl(s)], Symbols)

LossLimitBreached == TotalPnl <= -MaxLoss
-----------------------------------------------------------------------------
\* check_new_order, after submit's own checks, in their order.
WorseOf(a, b) == IF a >= b THEN a ELSE b

OutsideCollar(order) ==
  /\ order.limit_price # NoLimit
  /\ Magnitude(order.limit_price - Mark[order.symbol]) * 10000
       > CollarBps * Mark[order.symbol]

Notional(order) ==
  order.quantity * (IF order.limit_price = NoLimit THEN Mark[order.symbol]
                    ELSE WorseOf(order.limit_price, Mark[order.symbol]))

\* A mutation: the limit is checked against the position and the order alone.
Mutant_IgnoreWorking(order) ==
  positions[order.symbol].quantity + Direction(order.side) * order.quantity

\* The position if the order and all working orders on its side filled.
WorstCase(order) ==
  positions[order.symbol].quantity
    + Direction(order.side) * (WorkingQty(order.symbol, order.side) + order.quantity)

HaltReasonSet == halted

RejectReason(order, t) ==
  IF HaltReasonSet THEN "Halted"
  ELSE IF order.symbol \notin Symbols THEN "UnknownSymbol"
  ELSE IF order.quantity = 0 THEN "ZeroQuantity"
  ELSE IF order.limit_price # NoLimit /\ order.limit_price <= 0 THEN "NonPositiveLimitPrice"
  ELSE IF order.end <= t THEN "WindowEnded"
  ELSE IF order.quantity > MaxOrderQty THEN "OrderQuantity"
  ELSE IF OutsideCollar(order) THEN "PriceCollar"
  ELSE IF Notional(order) > MaxOrderNotional THEN "OrderNotional"
  ELSE IF Magnitude(WorstCase(order)) > MaxPosition THEN "PositionLimit"
  ELSE IF GrossNotional + order.quantity * Mark[order.symbol] > MaxGross
       THEN "GrossNotional"
  ELSE "None"
-----------------------------------------------------------------------------
\* retire, for several orders: they join the retention queue, and the oldest
\* beyond the limit leave it and the registry.
RetireQueue(ids) ==
  LET all == finished \o ids
  IN  SubSeq(all, WorseOf(0, Len(all) - Retained) + 1, Len(all))

\* A mutation: evicted orders stay in the registry.
Mutant_KeepEvicted(registry, ids) == registry

Evict(registry, ids) ==
  Restrict(registry, DOMAIN registry \ (Range(finished \o ids) \ Range(RetireQueue(ids))))

CancelAll(registry, ids) ==
  [id \in DOMAIN registry |->
     IF id \in ids THEN [registry[id] EXCEPT !.state = "Cancelled"] ELSE registry[id]]

\* The ids in ascending order, as a BTreeSet gives them (a set of one sequence).
Ascending(ids) ==
  {s \in [1 .. Cardinality(ids) -> ids] : \A i, j \in DOMAIN s : i < j => s[i] < s[j]}

Init ==
  /\ parents = [id \in {} |-> id]
  /\ working = {} /\ finished = <<>>
  /\ positions = [s \in Symbols |-> Flat]
  /\ next_parent_id = 1
  /\ halted = FALSE
  /\ pc = "idle" /\ now = 0 /\ todo = {} /\ current = 0 /\ sending = 0
  /\ done = <<>> /\ failure = FALSE
  /\ reported = [parent |-> [id \in {} |-> id], symbol |-> [s \in Symbols |-> 0], cash |-> 0]

\* submit accepts the order.  (A refused submission changes nothing.)
Submit(order, t) ==
  /\ pc = "idle"
  /\ next_parent_id <= MaxParents
  /\ RejectReason(order, t) = "None"
  /\ parents' = [id \in DOMAIN parents \cup {next_parent_id} |->
                   IF id # next_parent_id THEN parents[id]
                   ELSE [symbol |-> order.symbol, side |-> order.side,
                         quantity |-> order.quantity, limit_price |-> order.limit_price,
                         end |-> order.end, schedule |-> order.schedule,
                         state |-> "Working", next_slice |-> 1,
                         released |-> 0, filled |-> 0, children |-> <<>>]]
  /\ working' = working \cup {next_parent_id}
  /\ next_parent_id' = next_parent_id + 1
  /\ reported' = [reported EXCEPT !.parent =
                    [id \in DOMAIN parents' |-> IF id \in DOMAIN @ THEN @[id] ELSE 0]]
  /\ UNCHANGED <<finished, positions, halted, tick>>

\* A mutation: cancel without looking at the state.
Mutant_CancelAny(id) == id \in DOMAIN parents
CanCancel(id) == id \in DOMAIN parents /\ parents[id].state = "Working"

Cancel(id) ==
  /\ pc = "idle"
  /\ CanCancel(id)
  /\ working' = working \ {id}
  /\ finished' = RetireQueue(<<id>>)
  /\ parents' = Evict(CancelAll(parents, {id}), <<id>>)
  /\ reported' = [reported EXCEPT !.parent = Restrict(@, DOMAIN parents')]
  /\ UNCHANGED <<positions, next_parent_id, halted, tick>>
-----------------------------------------------------------------------------
\* tick(t) begins: the working orders are visited in id order.
TickBegin(t) ==
  /\ pc = "idle"
  /\ pc' = "orders" /\ now' = t
  /\ todo' = working
  /\ UNCHANGED <<core, current, sending, done, failure, reported>>

\* A mutation: at most one slice per tick.
Mutant_OneSlice(parent, n) ==
  \/ n = parent.next_slice /\ n <= Len(parent.schedule) /\ parent.schedule[n].time <= now
  \/ n = parent.next_slice - 1

\* The slices up to n, and no more, are due; n = next_slice - 1 if none is.
DueUpTo(parent, n) ==
  /\ \A i \in parent.next_slice .. n : parent.schedule[i].time <= now
  /\ n < Len(parent.schedule) => parent.schedule[n + 1].time > now

UpTo(schedule, n) == IF n = 0 THEN 0 ELSE schedule[n].upto

\* A mutation: what was filled already is sent again.
Mutant_SendReleased(parent) == parent.released
QtyToSend(parent) == parent.released - parent.filled

\* release_due: the slices up to n are released.
Release(parent, n) ==
  [parent EXCEPT !.released = @ + UpTo(parent.schedule, n)
                                - UpTo(parent.schedule, parent.next_slice - 1),
                 !.next_slice = n + 1]

\* record_child, if there is anything to send.
RecordChild(parent, qty) ==
  IF qty = 0 THEN parent
  ELSE [parent EXCEPT !.children = Append(@, [quantity |-> qty, filled |-> 0])]

\* The next order, in id order, releases its due slices; if there are any, what is
\* released and not filled goes out as one child order.
ReleaseDue ==
  /\ pc = "orders" /\ ~failure
  /\ \E id \in todo :
       /\ \A other \in todo : id <= other
       /\ \E n \in parents[id].next_slice - 1 .. Len(parents[id].schedule) :
            LET parent == parents[id]
                qty    == IF n < parent.next_slice THEN 0 ELSE QtyToSend(Release(parent, n))
            IN  /\ DueUpTo(parent, n)
                /\ parents' = [parents EXCEPT ![id] = RecordChild(Release(parent, n), qty)]
                /\ sending' = qty
       /\ current' = id
       /\ todo' = todo \ {id}
  /\ pc' = "child"
  /\ UNCHANGED <<working, finished, positions, next_parent_id, halted,
                 now, done, failure, reported>>

Acceptable(parent, price) ==
  parent.limit_price # NoLimit =>
    IF parent.side = "Buy" THEN price <= parent.limit_price ELSE price >= parent.limit_price

\* A mutation: the fill goes to the first child.
Mutant_FirstChild(parent, qty) ==
  [parent EXCEPT !.filled = @ + qty, !.children[1].filled = @ + qty]

\* record_fill of the last child.
RecordFill(parent, qty) ==
  [parent EXCEPT !.filled = @ + qty, !.children[Len(parent.children)].filled = @ + qty]

\* A fill of the child that the position takes: position, order and fill report.
Fill(price, qty) ==
  /\ pc = "child" /\ qty <= sending
  /\ LET parent == parents[current]
         dir    == Direction(parent.side)
     IN  /\ Acceptable(parent, price)
         /\ FillFits(positions[parent.symbol], dir, price, qty)
         /\ positions' = [positions EXCEPT ![parent.symbol] = ApplyFill(@, dir, price, qty)]
         /\ reported' = [parent |-> [reported.parent EXCEPT ![current] = @ + qty],
                         symbol |-> [reported.symbol EXCEPT ![parent.symbol] = @ + dir * qty],
                         cash   |-> reported.cash - dir * qty * price]
  /\ parents' = [parents EXCEPT ![current] = RecordFill(@, qty)]
  /\ sending' = sending - qty
  /\ UNCHANGED <<working, finished, next_parent_id, halted,
                 pc, now, todo, current, done, failure>>

\* A mutation: the order takes the fill the position could not.
Mutant_RecordLost(parent, qty) == RecordFill(parent, qty)
LostFill(parent, qty) == parent

\* A fill that overflows the position: nothing of it or after it is recorded.
FillOverflows(price, qty) ==
  /\ pc = "child" /\ qty <= sending
  /\ LET parent == parents[current]
     IN  /\ Acceptable(parent, price)
         /\ ~FillFits(positions[parent.symbol], Direction(parent.side), price, qty)
  /\ parents' = [parents EXCEPT ![current] = LostFill(@, qty)]
  /\ failure' = TRUE
  /\ sending' = 0
  /\ UNCHANGED <<working, finished, positions, next_parent_id, halted,
                 pc, now, todo, current, done, reported>>

\* A mutation: an order expires only after its window.
Mutant_LateExpiry(parent) ==
  IF parent.filled = parent.quantity THEN "Filled"
  ELSE IF now > parent.end THEN "Expired" ELSE "Working"

\* finish_if_filled and, once the window is over, finish_window.
SettledState(parent) ==
  IF parent.filled = parent.quantity THEN "Filled"
  ELSE IF now >= parent.end THEN "Expired" ELSE "Working"

\* The venue cancels what is left of the child, and the order may finish.
Settle ==
  /\ pc = "child"
  /\ parents' = [parents EXCEPT ![current].state = SettledState(parents[current])]
  /\ done' = IF SettledState(parents[current]) = "Working" THEN done
             ELSE Append(done, current)
  /\ sending' = 0
  /\ pc' = "orders"
  /\ UNCHANGED <<working, finished, positions, next_parent_id, halted,
                 now, todo, current, failure, reported>>

TickOver == pc = "orders" /\ (todo = {} \/ failure)

\* What tick keeps in local variables is gone.
TickReturns ==
  /\ pc' = "idle" /\ now' = 0 /\ todo' = {} /\ current' = 0 /\ sending' = 0
  /\ done' = <<>> /\ failure' = FALSE

\* The end of a tick: finished orders retire, the quotes are refreshed, and
\* trading goes on.
TickEnd ==
  /\ TickOver
  /\ ~failure /\ (halted \/ ~LossLimitBreached)
  /\ working' = working \ Range(done)
  /\ finished' = RetireQueue(done)
  /\ parents' = Evict(parents, done)
  /\ reported' = [reported EXCEPT !.parent = Restrict(@, DOMAIN parents')]
  /\ TickReturns
  /\ UNCHANGED <<positions, next_parent_id, halted>>

\* halt: an accounting failure or the loss limit cancels every working order.
TickEndHalt ==
  /\ TickOver
  /\ failure \/ (~halted /\ LossLimitBreached)
  /\ \E cancelled \in Ascending(working \ Range(done)) :
       /\ finished' = RetireQueue(done \o cancelled)
       /\ parents' = Evict(CancelAll(parents, working \ Range(done)), done \o cancelled)
  /\ reported' = [reported EXCEPT !.parent = Restrict(@, DOMAIN parents')]
  /\ working' = {}
  /\ halted' = TRUE
  /\ TickReturns
  /\ UNCHANGED <<positions, next_parent_id>>

Next ==
  \/ \E order \in OrderSpecs, t \in Times : Submit(order, t)
  \/ \E id \in 1 .. MaxParents : Cancel(id)
  \/ \E t \in Times : TickBegin(t)
  \/ ReleaseDue
  \/ \E price \in FillPrices, qty \in 1 .. MaxOrderQty :
       Fill(price, qty) \/ FillOverflows(price, qty)
  \/ Settle
  \/ TickEnd
  \/ TickEndHalt

Spec == Init /\ [][Next]_vars

\* A tick is a plain function and ends; the ticker keeps ticking, and the clock
\* gets past every window.
Fairness ==
  /\ WF_vars(ReleaseDue) /\ WF_vars(Settle) /\ WF_vars(TickEnd) /\ WF_vars(TickEndHalt)
  /\ SF_vars(TickBegin(MaxTime))

FairSpec == Spec /\ Fairness
-----------------------------------------------------------------------------
Parent ==
  [symbol : Symbols, side : Sides, quantity : 1 .. MaxOrderQty,
   limit_price : (1 .. HalfWord - 1) \cup {NoLimit}, end : Nat,
   schedule : Seq([time : Nat, upto : Nat]), state : States,
   next_slice : Nat \ {0}, released : Nat, filled : Nat,
   children : Seq([quantity : Nat, filled : Nat])]

\* Orders, positions and the tick in progress have their types: every position
\* stays within the machine integers although fills that would leave them arrive.
TypeOK ==
  /\ DOMAIN parents \subseteq 1 .. next_parent_id - 1
  /\ \A id \in DOMAIN parents : parents[id] \in Parent
  /\ working \subseteq DOMAIN parents /\ finished \in Seq(Nat)
  /\ positions \in [Symbols -> Position]
  /\ next_parent_id \in 1 .. MaxParents + 1
  /\ halted \in BOOLEAN /\ failure \in BOOLEAN
  /\ pc \in {"idle", "orders", "child"} /\ now \in Times
  /\ todo \subseteq working /\ done \in Seq(working)
  /\ pc = "child" => current \in working
  /\ sending \in 0 .. MaxOrderQty

\* executor.rs:33-34, 409-416: the registry holds exactly the working orders and
\* the newest finished ones, each once, never more of these than the retention
\* limit; an order is in the Working state until it is retired or about to be.
Registry ==
  /\ DOMAIN parents = working \cup Range(finished)
  /\ working \cap Range(finished) = {}
  /\ IsInjective(finished)
  /\ Len(finished) <= Retained
  /\ \A id \in DOMAIN parents :
       parents[id].state = "Working" <=> id \in working \ Range(done)

\* state.rs:77-99 subtracts these u64 unchecked: an order never fills more than was
\* released nor releases more than it asked for, and what is at the venue never
\* exceeds what is released and unfilled.
AmountsOrdered ==
  \A id \in DOMAIN parents :
    LET parent == parents[id]
    IN  /\ parent.filled <= parent.released /\ parent.released <= parent.quantity
        /\ parent.released = UpTo(parent.schedule, parent.next_slice - 1)
        /\ pc = "child" /\ current = id => sending <= parent.released - parent.filled

\* state.rs:112-121: the children account for all the fills of their order, each
\* within its own quantity, although an order keeps only the last child in mind.
ChildrenAccount ==
  \A id \in DOMAIN parents :
    LET parent == parents[id]
    IN  /\ parent.filled =
             SumFunction([i \in DOMAIN parent.children |-> parent.children[i].filled])
        /\ \A i \in DOMAIN parent.children :
             parent.children[i].filled <= parent.children[i].quantity

\* executor.rs:235-236: the orders, the fill stream and the positions agree, even
\* when accounting fails in the middle of a child's fills.
StreamAgrees ==
  /\ \A s \in Symbols : reported.symbol[s] = positions[s].quantity
  /\ \A id \in DOMAIN parents : reported.parent[id] = parents[id].filled

\* The money made or lost so far: the cash of all reported fills and what the
\* open positions are worth.
Equity == reported.cash + SumFunction([s \in Symbols |-> positions[s].quantity * Mark[s]])

\* executor.rs:330-341: an engine open for trading between ticks has lost less than
\* max_loss, in cash and holdings and not only in its own books; a halted one
\* works no order.
LossGuard ==
  pc = "idle" => IF halted THEN working = {} ELSE Equity > -MaxLoss

\* executor.rs:215-218: an order that expires has been released completely, however
\* coarse the ticks, and all that is unfilled was offered by its last child.
ExpiredOfferedAll ==
  \A id \in DOMAIN parents :
    parents[id].state = "Expired" =>
      /\ parents[id].released = parents[id].quantity
      /\ parents[id].children # <<>>
      /\ LET last == parents[id].children[Len(parents[id].children)]
         IN  last.quantity - last.filled = Unfilled(parents[id])

\* state.rs:124-148: an order that is filled, cancelled or expired never changes again.
TerminalIsFinal ==
  [][\A id \in DOMAIN parents \cap DOMAIN parents' :
       parents[id].state # "Working" => parents'[id] = parents[id]]_vars

\* executor.rs:281-282: a halted engine stays halted, trades nothing more and takes no order.
HaltIsFinal ==
  [][halted => /\ halted' /\ UNCHANGED positions
               /\ DOMAIN parents' \subseteq DOMAIN parents]_vars

\* executor.rs:261-263: every accepted order finishes: it fills, expires at the end of
\* its window, or is cancelled.
EveryOrderFinishes ==
  \A id \in 1 .. MaxParents : id \in working ~> id \notin working

\* The budget of RiskBudget, read off the engine's registry and positions.
Budget == INSTANCE RiskBudget WITH
  holding     <- [s \in Symbols |-> positions[s].quantity],
  workingBuy  <- [s \in Symbols |-> WorkingQty(s, "Buy")],
  workingSell <- [s \in Symbols |-> WorkingQty(s, "Sell")]

\* risk.rs:15-26: the engine keeps every promise of the risk budget: an order is
\* admitted only within it, and fills and cancels stay within what was admitted.
ImplementsRiskBudget == Budget!BudgetSpec
=============================================================================
