----------------------------- MODULE Schedules -----------------------------
(***************************************************************************)
(* The schedulers of crates/algo-core: TWAP and its randomized form, VWAP  *)
(* and the volume profile it follows, POV and implementation shortfall.    *)
(*                                                                         *)
(* A behaviour is one call: it is refused, or its loop takes one step per  *)
(* slice, observation or bar.  Slices and positions count from 0, as in    *)
(* the code; a TLA+ sequence counts from 1.  The integer arithmetic of the *)
(* code is done in u128 and cannot overflow.                               *)
(*                                                                         *)
(* Floating point appears in two places.  A VWAP target is the exact share *)
(* of the total, off by rounding and by at most FloatError units, and is a *)
(* function of the weight so far.  An implementation-shortfall trajectory  *)
(* is any curve at all.  SplitMix64 may draw any offset below its bound.   *)
(***************************************************************************)
EXTENDS ScheduleArithmetic

CONSTANTS
  FullRate,        \* BPS_PER_UNIT
  FloatError,      \* error of total as f64 * fraction, in units
  Requests         \* bound: the calls

ASSUME ScheduleAssumption ==
  /\ FullRate \in Nat \ {0} /\ FloatError \in Nat
  /\ \A r \in Requests :
       /\ r.kind \in {"twap", "randomized", "vwap", "is", "pov", "profile"}
       /\ r.start \in Nat /\ r.end \in Nat /\ r.qty \in Nat
       /\ r.slices \in Nat /\ r.rate \in Nat /\ r.day \in Nat
       /\ r.weights \in Seq(Int)       \* -1 is a weight that is negative or not finite
       /\ r.kind = "vwap" => r.slices = Len(r.weights)
       /\ r.prints \in Seq([time : Nat, volume : Nat])
       /\ r.sound \in BOOLEAN          \* the impact parameters are accepted
       /\ r.flat \in BOOLEAN           \* kappa is 0

VARIABLES
  request, outcome,
  at,              \* index of the loop
  done,            \* quantity scheduled so far
  ideal,           \* the last target of the curve, before it is clamped
  volume,          \* POV: volume observed inside the window
  pooled,          \* volume_by_slice
  children

vars == <<request, outcome, at, done, ideal, volume, pooled, children>>
-----------------------------------------------------------------------------
\* A mutation: prints before the window count.
Mutant_NeverEarly(print, r) == FALSE

BeforeWindow(print, r) == print.time < r.start

LastWithVolume(weights) ==
  CHOOSE i \in DOMAIN weights :
    weights[i] > 0 /\ \A j \in i + 1 .. Len(weights) : weights[j] = 0

WeightUpTo(weights, n) == SumFunctionOnSet(weights, 1 .. n)

\* The float targets for the part `weight` of a total weight of `all`.
FloatTargets(total, weight, all) ==
  IF weight = 0 THEN {0}
  ELSE {v \in 0 .. total + FloatError :
          /\ 2 * (v * all - total * weight) <= (1 + 2 * FloatError) * all
          /\ 2 * (total * weight - v * all) <= (1 + 2 * FloatError) * all}
-----------------------------------------------------------------------------
WeightChecks(r) ==
  <<Check(\E i \in DOMAIN r.weights : r.weights[i] < 0, "InvalidProfileEntry"),
    Check(\A i \in DOMAIN r.weights : r.weights[i] = 0, "EmptyProfile")>>

PovChecks(r) ==
  <<Check(r.qty = 0, "ZeroQuantity"),
    Check(r.end <= r.start, "InvalidTimeRange"),
    Check(r.rate = 0 \/ r.rate > FullRate, "InvalidParameter"),
    Check(\E i \in 1 .. Len(r.prints) - 1 : r.prints[i + 1].time < r.prints[i].time,
          "UnsortedMarketData")>>

\* A profile's window is [start, end) within a day.
ProfileChecks(r) ==
  SliceChecks(r.slices)
    \o <<Check(r.day = 0, "InvalidParameter"),
         Check(r.end - r.start < r.slices, "WindowTooShort"),
         Check(r.end > r.day, "InvalidParameter")>>

Checks(r) ==
  CASE r.kind \in {"twap", "randomized"} -> WindowChecks(r)
    [] r.kind = "vwap"    -> WindowChecks(r) \o WeightChecks(r)
    [] r.kind = "is"      -> WindowChecks(r) \o <<Check(~r.sound, "InvalidParameter")>>
    [] r.kind = "pov"     -> PovChecks(r)
    [] r.kind = "profile" -> ProfileChecks(r)

Init ==
  /\ request \in Requests
  /\ outcome = FirstFailing(Checks(request))
  /\ at = 0 /\ done = 0 /\ ideal = 0 /\ volume = 0
  /\ pooled = [k \in 0 .. request.slices - 1 |-> 0]
  /\ children = <<>>
-----------------------------------------------------------------------------
Duration == request.end - request.start
StartOf(k) == SliceStart(request.start, Duration, request.slices, k)

Follows == request.kind = "vwap" \/ (request.kind = "is" /\ ~request.flat)

\* Length of the loop; a followed curve ends at its last slice with volume.
Length ==
  CASE request.kind = "vwap" -> LastWithVolume(request.weights)
    [] request.kind \in {"pov", "profile"} -> Len(request.prints)
    [] OTHER -> request.slices

Running == outcome = "running" /\ at < Length

\* The quantity up to target is released at a time; a zero quantity is left out.
Release(target, time) ==
  /\ children' = IF target > done
                 THEN Append(children, [time |-> time, qty |-> target - done])
                 ELSE children
  /\ done' = target
  /\ at' = at + 1

TwapSlice ==
  /\ Running
  /\ request.kind = "twap" \/ (request.kind = "is" /\ request.flat)
  /\ Release(TwapTarget(request.qty, request.slices, at + 1), StartOf(at))
  /\ UNCHANGED <<request, outcome, ideal, volume, pooled>>

RandomizedSlice ==
  /\ Running /\ request.kind = "randomized"
  /\ \E time \in StartOf(at) .. StartOf(at + 1) - 1 :
       Release(TwapTarget(request.qty, request.slices, at + 1), time)
  /\ UNCHANGED <<request, outcome, ideal, volume, pooled>>

\* The float targets of the next slice.  The curve of a profile never falls, and a
\* slice without weight repeats its target.
NextIdeals ==
  IF request.kind = "is" THEN 0 .. request.qty + FloatError
  ELSE IF request.weights[at + 1] = 0 THEN {ideal}
  ELSE {v \in FloatTargets(request.qty, WeightUpTo(request.weights, at + 1),
                           WeightUpTo(request.weights, Len(request.weights))) : v >= ideal}

\* quantities_from_cumulative: the last slice of the curve completes the total.
CurveSlice ==
  /\ Running /\ Follows
  /\ ideal' \in NextIdeals
  /\ Release(IF at + 1 = Length THEN request.qty ELSE Clamp(ideal', done, request.qty),
             StartOf(at))
  /\ UNCHANGED <<request, outcome, volume, pooled>>

Observation == request.prints[at + 1]

PovSkip ==
  /\ Running /\ request.kind = "pov" /\ BeforeWindow(Observation, request)
  /\ at' = at + 1
  /\ UNCHANGED <<request, outcome, done, ideal, volume, pooled, children>>

PovStop ==
  /\ Running /\ request.kind = "pov" /\ ~BeforeWindow(Observation, request)
  /\ Observation.time >= request.end \/ done = request.qty
  /\ outcome' = "scheduled"
  /\ UNCHANGED <<request, at, done, ideal, volume, pooled, children>>

\* Observations of one time share a child order.
PovObserve ==
  /\ Running /\ request.kind = "pov" /\ ~BeforeWindow(Observation, request)
  /\ Observation.time < request.end /\ done # request.qty
  /\ volume' = volume + Observation.volume
  /\ LET target == Clamp((volume' * request.rate) \div FullRate, 0, request.qty)
         n == Len(children)
     IN  IF target > done /\ children # <<>> /\ children[n].time = Observation.time
         THEN /\ children' = [children EXCEPT ![n].qty = @ + target - done]
              /\ done' = target /\ at' = at + 1
         ELSE Release(target, Observation.time)
  /\ UNCHANGED <<request, outcome, ideal, pooled>>

TimeOfDay(time) == time % request.day
InWindow(time) == TimeOfDay(time) >= request.start /\ TimeOfDay(time) < request.end

\* volume_profile_from_bars pools a bar with the slice that holds its time of day.
PoolBar ==
  /\ Running /\ request.kind = "profile"
  /\ pooled' =
       IF InWindow(Observation.time)
       THEN [pooled EXCEPT ![SliceContaining(TimeOfDay(Observation.time) - request.start,
                                             Duration, request.slices)] =
               @ + Observation.volume]
       ELSE pooled
  /\ at' = at + 1
  /\ UNCHANGED <<request, outcome, done, ideal, volume, children>>

Finish ==
  /\ outcome = "running" /\ at = Length
  /\ outcome' = IF request.kind = "profile" /\ \A k \in DOMAIN pooled : pooled[k] = 0
                THEN "EmptyProfile" ELSE "scheduled"
  /\ UNCHANGED <<request, at, done, ideal, volume, pooled, children>>

Next ==
  \/ TwapSlice
  \/ RandomizedSlice
  \/ CurveSlice
  \/ PovSkip
  \/ PovStop
  \/ PovObserve
  \/ PoolBar
  \/ Finish

Spec == Init /\ [][Next]_vars
-----------------------------------------------------------------------------
QtyBefore(time) ==
  SumFunctionOnSet([i \in DOMAIN children |-> children[i].qty],
                   {i \in DOMAIN children : children[i].time < time})

\* The volume of some of the observations or bars.
VolumeOf(places) ==
  SumFunctionOnSet([i \in DOMAIN request.prints |-> request.prints[i].volume], places)

\* The observations of the window before a time.
SeenBefore(time) ==
  {i \in DOMAIN request.prints : /\ request.prints[i].time >= request.start
                                 /\ request.prints[i].time < time}

Scheduled == outcome = "scheduled" /\ request.kind # "profile"

\* What the engine assumes of every schedule it is given (schedule.rs:88-90,
\* state.rs:84-99): child orders of at least one unit, at increasing times inside
\* the window, that add up to the whole quantity; for POV, at most to it.
SchedulesAreExecutable ==
  Scheduled =>
    /\ \A i \in DOMAIN children :
         /\ children[i].qty > 0
         /\ children[i].time >= request.start /\ children[i].time < request.end
         /\ \A j \in 1 .. i - 1 : children[j].time < children[i].time
    /\ IF request.kind = "pov" THEN QtyBefore(request.end) <= request.qty
                               ELSE QtyBefore(request.end) = request.qty

\* twap.rs:18-26, 62-70: by the end of each slice the quantity released is within half
\* a unit of its even share, whatever time inside the slice was drawn.
PacedEvenly ==
  Scheduled /\ request.kind \in {"twap", "randomized"} =>
    \A k \in 1 .. request.slices :
      LET ahead == 2 * (QtyBefore(StartOf(k)) * request.slices - request.qty * k)
      IN  -request.slices <= ahead /\ ahead <= request.slices

\* vwap.rs:34-35: no child order is released in a slice without volume, whatever the
\* floating-point error.
NoVolumeNoOrder ==
  Scheduled /\ request.kind = "vwap" =>
    \A i \in DOMAIN children :
      request.weights[1 + SliceContaining(children[i].time - request.start,
                                          Duration, request.slices)] > 0

\* Each unit of time, or of the volume profile, gets its share and no more, whatever the
\* rounding of floats and integers.
PacedAsPromised == PacedEvenly /\ NoVolumeNoOrder

\* pov.rs:46-51: at every time the order has its rate of the volume seen in the window,
\* rounded down, or its whole quantity; an observation never shows early.
WithinParticipation ==
  Scheduled /\ request.kind = "pov" =>
    \A time \in request.start .. request.end :
      LET share == (VolumeOf(SeenBefore(time)) * request.rate) \div FullRate
      IN  QtyBefore(time) = IF share > request.qty THEN request.qty ELSE share

\* vwap.rs:103-107, 169-174: the profile of a slice is the volume of the bars whose
\* time of day lies between the boundaries the schedules use.
ProfileMatchesSlices ==
  outcome = "scheduled" /\ request.kind = "profile" =>
    \A k \in 0 .. request.slices - 1 :
      pooled[k] = VolumeOf({i \in DOMAIN request.prints :
                              TimeOfDay(request.prints[i].time) \in StartOf(k) .. StartOf(k + 1) - 1})
=============================================================================
