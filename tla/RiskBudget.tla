----------------------------- MODULE RiskBudget -----------------------------
(***************************************************************************)
(* What the pre-trade checks promise (crates/engine/src/risk.rs:15-21):    *)
(* the position of a symbol stays within the limit, and the gross exposure *)
(* across symbols within its own, whatever order the fills arrive in and   *)
(* whichever working orders end unfilled.  Per symbol only three numbers   *)
(* are kept: the position and the unfilled working quantity of each side.  *)
(***************************************************************************)
EXTENDS Integers, FiniteSets, Functions

CONSTANTS
  Symbols,
  Mark,            \* the price a symbol is valued at between ticks
  MaxPosition,     \* max_position_qty
  MaxGross         \* max_gross_notional

\* What the theorems and the runs assume of the limits and prices.
BudgetAssumption ==
  /\ IsFiniteSet(Symbols)
  /\ Mark \in [Symbols -> Nat \ {0}]
  /\ MaxPosition \in Nat
  /\ MaxGross \in Nat

VARIABLES holding, workingBuy, workingSell

budgetVars == <<holding, workingBuy, workingSell>>

Size(n) == IF n < 0 THEN -n ELSE n

Gross == SumFunction([s \in Symbols |->
           (Size(holding[s]) + workingBuy[s] + workingSell[s]) * Mark[s]])

BudgetInit ==
  /\ holding     = [s \in Symbols |-> 0]
  /\ workingBuy  = [s \in Symbols |-> 0]
  /\ workingSell = [s \in Symbols |-> 0]

\* The position if everything working on one side, and a new order there, filled.
LongCase(s, qty)  == holding[s] + workingBuy[s] + qty
ShortCase(s, qty) == holding[s] - workingSell[s] - qty

\* Mutations: a limit that leaves out the working orders, and one that leaves out
\* the order itself.
Mutant_PositionOnly(s, n) == Size(holding[s]) <= MaxPosition
Mutant_GrossBefore(s, qty) == Gross <= MaxGross

PositionAllows(s, worst_case) == Size(worst_case) <= MaxPosition
GrossAllows(s, qty) == Gross + qty * Mark[s] <= MaxGross

\* A new order is admitted.  The checks stand last because they take sums, and TLC
\* compares a step of the engine with every admission there could be.
AdmitBuy(s, qty) ==
  /\ workingBuy' = [workingBuy EXCEPT ![s] = @ + qty]
  /\ PositionAllows(s, LongCase(s, qty)) /\ GrossAllows(s, qty)
  /\ UNCHANGED <<holding, workingSell>>

AdmitSell(s, qty) ==
  /\ workingSell' = [workingSell EXCEPT ![s] = @ + qty]
  /\ PositionAllows(s, ShortCase(s, qty)) /\ GrossAllows(s, qty)
  /\ UNCHANGED <<holding, workingBuy>>

\* Orders trade no more than they have left.
Fits(working, qty) == qty <= working

\* A working order of one side trades.
Buy(s, qty) ==
  /\ Fits(workingBuy[s], qty)
  /\ holding' = [holding EXCEPT ![s] = @ + qty]
  /\ workingBuy' = [workingBuy EXCEPT ![s] = @ - qty]
  /\ UNCHANGED workingSell

Sell(s, qty) ==
  /\ Fits(workingSell[s], qty)
  /\ holding' = [holding EXCEPT ![s] = @ - qty]
  /\ workingSell' = [workingSell EXCEPT ![s] = @ - qty]
  /\ UNCHANGED workingBuy

\* Working quantity goes unfilled: a cancel, an expiry, the kill switch.
Withdraw ==
  /\ workingBuy'  \in [Symbols -> 0 .. 2 * MaxPosition]
  /\ workingSell' \in [Symbols -> 0 .. 2 * MaxPosition]
  /\ \A s \in Symbols : workingBuy'[s] <= workingBuy[s] /\ workingSell'[s] <= workingSell[s]
  /\ UNCHANGED holding

BudgetNext ==
  \/ \E s \in Symbols, qty \in 1 .. 2 * MaxPosition :
       AdmitBuy(s, qty) \/ AdmitSell(s, qty) \/ Buy(s, qty) \/ Sell(s, qty)
  \/ Withdraw

BudgetSpec == BudgetInit /\ [][BudgetNext]_budgetVars
-----------------------------------------------------------------------------
\* Working quantity is never negative: no order trades more than it has left.
BudgetTypes ==
  /\ holding \in [Symbols -> Int]
  /\ workingBuy \in [Symbols -> Nat] /\ workingSell \in [Symbols -> Nat]

\* risk.rs:15-18: the position of every symbol is within the limit.
PositionWithinLimit == \A s \in Symbols : Size(holding[s]) <= MaxPosition

\* risk.rs:19-21: gross exposure is within its limit.
GrossWithinLimit == Gross <= MaxGross
=============================================================================
