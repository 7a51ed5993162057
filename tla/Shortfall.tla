------------------------------- MODULE Shortfall -------------------------------
(***************************************************************************)
(* The implementation-shortfall scheduler, crates/algo-core/src/is.rs: the *)
(* Almgren-Chriss trajectory, its cost, and its rounding into child        *)
(* orders.  A behaviour is one call of compute_almgren_chriss_schedule,    *)
(* one step per holding and per slice.  It is shown to be one of the calls *)
(* of module Schedules, in which the trajectory is any curve.              *)
(*                                                                         *)
(* The code computes in f64; here the arithmetic is exact.  With kappa     *)
(* from (2/tau^2)(cosh(kappa tau) - 1) = lambda sigma^2 / eta~, the ratios *)
(* sinh(kappa m tau) / sinh(kappa tau) are rational: they follow           *)
(*   s(0) = 0, s(1) = 1, s(m + 1) = 2 cosh(kappa tau) s(m) - s(m - 1)      *)
(* with 2 cosh(kappa tau) = 2 + lambda sigma^2 tau^2 / eta~.  Left out are *)
(* parameters so small or large that f64 loses kappa.                      *)
(*                                                                         *)
(* Time is in nanoseconds, Second of them to the unit of the parameters.   *)
(***************************************************************************)
EXTENDS ScheduleArithmetic

CONSTANTS
  ShortfallCalls,  \* bound: the calls
  Second           \* NANOS_PER_SECOND

ASSUME ShortfallAssumption ==
  /\ Second \in Nat \ {0}
  /\ ShortfallCalls \subseteq
       [start : Nat, end : Nat, qty : Nat, slices : Nat,
        risk : Int, volatility : Int, temporary : Int, permanent : Int]

VARIABLES
  call, verdict,
  holdings,        \* x_0, x_1, ... in parts of 1 / Denominator(call)
  slice,           \* the slice that is rounded next
  complete,        \* quantity scheduled so far
  aim,             \* the last target before it is clamped
  orders           \* the children

shortfallVars == <<call, verdict, holdings, slice, complete, aim, orders>>
-----------------------------------------------------------------------------
\* Model: tau is duration / horizon, eta~ is Eta / (2 * horizon).
DurationOf(r) == r.end - r.start
Horizon(r) == Second * r.slices
Eta(r) == 2 * r.temporary * Horizon(r) - r.permanent * DurationOf(r)

\* Model::new, after validate_window.
Sound(r) ==
  /\ r.risk >= 0 /\ r.volatility >= 0 /\ r.permanent >= 0 /\ r.temporary > 0
  /\ Eta(r) > 0

ShortfallChecks(r) == WindowChecks(r) \o <<Check(~Sound(r), "InvalidParameter")>>

\* A mutation: the urgency from eta, without the correction for permanent impact.
Mutant_PlainEta(r) ==
  << 2 * r.risk * r.volatility * r.volatility * DurationOf(r) * DurationOf(r),
     Horizon(r) * 2 * r.temporary * Horizon(r) >>

\* lambda sigma^2 tau^2 / eta~, as numerator and denominator.
UrgencyRatio(r) ==
  << 2 * r.risk * r.volatility * r.volatility * DurationOf(r) * DurationOf(r),
     Horizon(r) * Eta(r) >>

\* The same in lowest terms: 2 cosh(kappa tau) - 2.
Urgency(r) ==
  LET num    == UrgencyRatio(r)[1]
      den    == UrgencyRatio(r)[2]
      common == Max({n \in 1 .. den : den % n = 0 /\ num % n = 0})
  IN  <<num \div common, den \div common>>

\* kappa = 0.
NoUrgency(r) == Urgency(r)[1] = 0

\* s(m) times den^(m - 1), for m up to the number of slices.
Sinh(r) ==
  LET num == Urgency(r)[1]
      den == Urgency(r)[2]
      s[m \in 0 .. r.slices] ==
        IF m <= 1 THEN m ELSE (2 * den + num) * s[m - 1] - den * den * s[m - 2]
  IN  s

\* den^k.
Scale(r) ==
  LET p[k \in 0 .. r.slices] == IF k = 0 THEN 1 ELSE Urgency(r)[2] * p[k - 1]
  IN  p

Denominator(r) == Sinh(r)[r.slices]

\* total * remaining_fraction: what is held after k slices.
Holding(r, k) == r.qty * Sinh(r)[r.slices - k] * Scale(r)[k]

SumOfSquares(f) == SumFunctionOnSet([k \in DOMAIN f |-> f[k] * f[k]], DOMAIN f)

\* Model::cost: the expected cost that depends on the trajectory plus lambda times
\* the variance, times 2 * duration * horizon.
Objective(r, h) ==
  Eta(r) * Horizon(r) * SumOfSquares([k \in 1 .. r.slices |-> h[k] - h[k + 1]])
    + 2 * r.risk * r.volatility * r.volatility * DurationOf(r) * DurationOf(r)
        * SumOfSquares([k \in 1 .. r.slices |-> h[k + 1]])

\* The trajectories almgren_chriss_cost accepts, here those in whole units.
Trajectories(r) ==
  {h \in [1 .. r.slices + 1 -> -1 .. r.qty + 1] : h[1] = r.qty /\ h[r.slices + 1] = 0}

\* A target of the rounded curve: to the nearest unit, in f64 either at a tie.
Nearest(num, den) == {v \in 0 .. num \div den + 1 : 2 * (v * den - num) \in -den .. den}
-----------------------------------------------------------------------------
ShortfallInit ==
  /\ call \in ShortfallCalls
  /\ verdict = FirstFailing(ShortfallChecks(call))
  /\ holdings = <<>>
  /\ slice = 0 /\ complete = 0 /\ aim = 0
  /\ orders = <<>>

HoldingsComplete == verdict = "running" /\ Len(holdings) = call.slices + 1

\* The next entry of holdings: the total, the trajectory, and zero at last.
Hold ==
  /\ verdict = "running" /\ Len(holdings) <= call.slices
  /\ holdings' = Append(holdings, Holding(call, Len(holdings)))
  /\ UNCHANGED <<call, verdict, slice, complete, aim, orders>>

\* A mutation: children go out at the end of their slice.
Mutant_SliceEnd(k) == SliceStart(call.start, DurationOf(call), call.slices, k + 1)

TimeOf(k) == SliceStart(call.start, DurationOf(call), call.slices, k)

Place(target) ==
  /\ orders' = IF target > complete
               THEN Append(orders, [time |-> TimeOf(slice), qty |-> target - complete])
               ELSE orders
  /\ complete' = target
  /\ slice' = slice + 1

\* kappa = 0: the quantities of TWAP.
FlatSlice ==
  /\ HoldingsComplete /\ slice < call.slices /\ NoUrgency(call)
  /\ Place(TwapTarget(call.qty, call.slices, slice + 1))
  /\ UNCHANGED <<call, verdict, holdings, aim>>

\* quantities_from_cumulative on 1 - x / total.
RoundedSlice ==
  /\ HoldingsComplete /\ slice < call.slices /\ ~NoUrgency(call)
  /\ aim' \in Nearest(holdings[1] - holdings[slice + 2], Denominator(call))
  /\ Place(IF slice + 1 = call.slices THEN call.qty ELSE Clamp(aim', complete, call.qty))
  /\ UNCHANGED <<call, verdict, holdings>>

Return ==
  /\ HoldingsComplete /\ slice = call.slices
  /\ verdict' = "scheduled"
  /\ UNCHANGED <<call, holdings, slice, complete, aim, orders>>

ShortfallNext == Hold \/ FlatSlice \/ RoundedSlice \/ Return

ShortfallSpec == ShortfallInit /\ [][ShortfallNext]_shortfallVars
-----------------------------------------------------------------------------
\* The trajectory starts at the total, never rises, and ends at zero; targets are
\* quantities.
ShortfallTypeOK ==
  /\ call \in ShortfallCalls
  /\ \A k \in DOMAIN holdings : holdings[k] \in 0 .. call.qty * Denominator(call)
  /\ \A k \in 1 .. Len(holdings) - 1 : holdings[k + 1] <= holdings[k]
  /\ Len(holdings) = call.slices + 1 => holdings[1] > 0 /\ Last(holdings) = 0
  /\ slice \in 0 .. call.slices /\ complete \in 0 .. call.qty /\ aim \in 0 .. call.qty

\* is.rs:17-18, 21: no way to liquidate the total in these slices costs less, in
\* E + lambda V, than the trajectory the schedule is rounded from.
Optimal ==
  HoldingsComplete =>
    LET den == Denominator(call)
    IN  \A h \in Trajectories(call) :
          Objective(call, holdings) <= den * den * Objective(call, h)

\* is.rs:20-23: aversion to risk only ever trades faster: after every slice the
\* children released are at least those of TWAP for the same call.
NeverBehindTwap ==
  slice > 0 => complete >= TwapTarget(call.qty, call.slices, slice)

\* is.rs:22: "Larger lambda trades faster early": less is held at every boundary
\* than under a smaller risk aversion, the other parameters equal.
MoreAverseHoldsLess ==
  HoldingsComplete =>
    \A r \in ShortfallCalls :
      r = [call EXCEPT !.risk = r.risk] /\ r.risk < call.risk /\ Sound(r) =>
        \A k \in DOMAIN holdings :
          holdings[k] * Denominator(r) <= Holding(r, k - 1) * Denominator(call)

\* is.rs:13-23: the trajectory is the cheapest there is for its risk aversion, a larger
\* one only ever holds less, and the rounded children are never behind TWAP.
AlmgrenChriss == ShortfallTypeOK /\ Optimal /\ NeverBehindTwap /\ MoreAverseHoldsLess
-----------------------------------------------------------------------------
\* The call as Schedules knows it.
AbsRequest(r) ==
  [kind |-> "is", start |-> r.start, end |-> r.end, qty |-> r.qty, slices |-> r.slices,
   weights |-> <<>>, prints |-> <<>>, rate |-> 0, day |-> 0,
   sound |-> Sound(r), flat |-> r.risk * r.volatility = 0]

\* The calls of the abstract scheduler: any of its kind.
AnyCall ==
  [kind : {"is"}, start : Nat, end : Nat, qty : Nat, slices : Nat, weights : {<<>>},
   prints : {<<>>}, rate : {0}, day : {0}, sound : BOOLEAN, flat : BOOLEAN]

Calls == INSTANCE Schedules WITH
           Requests <- AnyCall, FullRate <- 1, FloatError <- 0,
           request <- AbsRequest(call), outcome <- verdict, at <- slice, done <- complete,
           ideal <- aim, children <- orders,
           volume <- 0, pooled <- [k \in 0 .. call.slices - 1 |-> 0]

\* Every call is a call of the abstract scheduler, whose trajectory is any curve: what
\* SchedulesAreExecutable says of that one's children is true of these.
ImplementsSchedules == Calls!Spec
=============================================================================
