---------------------------- MODULE MCArithmetic ----------------------------
(***************************************************************************)
(* Every call of the schedulers with small windows, quantities and data,   *)
(* and of the Almgren-Chriss scheduler in exact arithmetic (Shortfall);    *)
(* one position under every sequence of fills (PositionLedger); and the    *)
(* risk budget of two symbols of different price.  They share no state: a  *)
(* behaviour is about one of the four.  It leaves position and budget as   *)
(* they began, and for a call that is not made stands one that is refused. *)
(***************************************************************************)
EXTENDS Schedules, Shortfall, PositionLedger, RiskBudget

CONSTANTS
  Starts, Ends, Quantities, SliceCounts, Weights, Rates, Volumes

AccountsMark == [s \in Symbols |-> IF s = "A" THEN 1 ELSE 2]

ASSUME AccountsLedger == LedgerAssumption
ASSUME AccountsBudget == BudgetAssumption
-----------------------------------------------------------------------------

Base ==
  [kind : {"none"}, start : Starts, end : Ends, qty : Quantities, slices : SliceCounts,
   weights : {<<>>}, prints : {<<>>}, rate : {1}, day : {0},
   sound : {TRUE}, flat : {FALSE}]

Sliced == {[r EXCEPT !.kind = kind] : r \in Base, kind \in {"twap", "randomized"}}

Shortfalls ==
  {[r EXCEPT !.kind = "is", !.sound = sound, !.flat = flat] :
     r \in Base, sound \in BOOLEAN, flat \in BOOLEAN}

Profiles == UNION {[1 .. n -> Weights \cup {-1}] : n \in SliceCounts}

Weighted ==
  {[r EXCEPT !.kind = "vwap", !.weights = profile, !.slices = Len(profile)] :
     r \in Base, profile \in Profiles}

\* Prints at times before, inside and after the window, in any order.
Tapes(n) == [1 .. n -> [time : 1 .. 4, volume : Volumes]]

Participations ==
  {[r EXCEPT !.kind = "pov", !.prints = tape, !.rate = rate] :
     r \in {b \in Base : b.slices = 1 /\ b.end = 4},
     rate \in Rates, tape \in UNION {Tapes(n) : n \in 0 .. 3}}

\* Bars on the first days of a clock whose day has 0, 4 or 7 ticks.
Bars(n) ==
  {[i \in 1 .. n |-> [time |-> times[i], volume |-> i]] : times \in [1 .. n -> 0 .. 7]}

Estimates ==
  {[r EXCEPT !.kind = "profile", !.prints = bars, !.day = day] :
     r \in {b \in Base : b.end >= b.start /\ b.qty = 0}, day \in {0, 4, 7},
     bars \in UNION {Bars(n) : n \in 0 .. 2}}

AllRequests == Sliced \cup Shortfalls \cup Weighted \cup Participations \cup Estimates
-----------------------------------------------------------------------------
GoodCalls ==
  [start : {3}, end : {5, 7}, qty : {1, 2, 3}, slices : 1 .. MaxSlices,
   risk : {0, 1, 4}, volatility : {0, 1, 2}, temporary : {1, 3}, permanent : {0, 1}]

NoQuantity ==
  [start |-> 3, end |-> 7, qty |-> 0, slices |-> 2,
   risk |-> 1, volatility |-> 1, temporary |-> 1, permanent |-> 1]

BadCalls ==
  LET g == [NoQuantity EXCEPT !.qty = 2]
  IN  { NoQuantity, [g EXCEPT !.slices = 0], [g EXCEPT !.slices = MaxSlices + 1],
        [g EXCEPT !.end = 3], [g EXCEPT !.end = 4], [g EXCEPT !.risk = -1],
        [g EXCEPT !.volatility = -1], [g EXCEPT !.permanent = -1],
        [g EXCEPT !.temporary = 0], [g EXCEPT !.permanent = 2, !.slices = 1] }

\* The objective stays below 2^31 on trajectories in parts of 1 / Denominator: calls
\* whose exact fractions need numbers beyond those of TLC are left out.
Small(r) ==
  Sound(r) =>
    LET size   == (r.qty + 2) * Denominator(r)
        weight == Eta(r) * Horizon(r) + UrgencyRatio(r)[1]
    IN  size < 46000 /\ size * size <= 2147483647 \div (weight * r.slices)

IsCalls == {r \in GoodCalls : Small(r)} \cup BadCalls

\* The call that stands for none.
NoCall ==
  [kind |-> "twap", start |-> 2, end |-> 4, qty |-> 0, slices |-> 1, weights |-> <<>>,
   prints |-> <<>>, rate |-> 1, day |-> 0, sound |-> TRUE, flat |-> FALSE]

CallsInit ==
  \/ Init /\ call = NoQuantity /\ ShortfallInit
  \/ request = NoCall /\ Init /\ ShortfallInit

MCInit == CallsInit /\ LedgerInit /\ BudgetInit

NoCalls == request = NoCall /\ call = NoQuantity

MCNext ==
  \/ /\ LedgerInit /\ BudgetInit
     /\ \/ Next /\ UNCHANGED shortfallVars
        \/ ShortfallNext /\ UNCHANGED vars
     /\ UNCHANGED <<ledgerVars, budgetVars>>
  \/ /\ NoCalls /\ BudgetInit
     /\ LedgerNext /\ UNCHANGED <<vars, shortfallVars, budgetVars>>
  \/ /\ NoCalls /\ LedgerInit
     /\ BudgetNext /\ UNCHANGED <<vars, shortfallVars, ledgerVars>>

MCSpec == MCInit /\ [][MCNext]_<<vars, shortfallVars, ledgerVars, budgetVars>>
=============================================================================
