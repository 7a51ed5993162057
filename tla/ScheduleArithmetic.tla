-------------------------- MODULE ScheduleArithmetic --------------------------
(***************************************************************************)
(* What the schedulers of crates/algo-core share: how a window is cut into *)
(* slices, the even targets of TWAP, and the checks of schedule.rs.        *)
(* Slices count from 0, as in the code.  The integer arithmetic of the     *)
(* code is done in u128 and cannot overflow.                               *)
(***************************************************************************)
EXTENDS SequencesExt, Integers

CONSTANT MaxSlices       \* MAX_SLICES

ASSUME SlicesAssumption == MaxSlices \in Nat
-----------------------------------------------------------------------------
\* Mutations: no floor; the remainder first; an offset scaled directly.
Mutant_NoFloor(x, low, high) == IF x > high THEN high ELSE x
Mutant_FrontLoaded(total, n, k) ==
  (total \div n) * k + (IF k < total % n THEN k ELSE total % n)
Mutant_ScaledOffset(offset, duration, n) == (offset * n) \div duration

Clamp(x, low, high) == IF x < low THEN low ELSE IF x > high THEN high ELSE x

SliceStart(start, duration, n, index) == start + (duration * index) \div n

SliceContaining(offset, duration, n) == ((offset + 1) * n - 1) \div duration

\* TWAP: the quantity complete after k of n slices.
TwapTarget(total, n, k) ==
  LET quotient == total \div n
      partial == (total % n) * k
  IN  quotient * k + partial \div n + (IF 2 * (partial % n) >= n THEN 1 ELSE 0)
-----------------------------------------------------------------------------
\* Why a call is refused: the first check that fails.
FirstFailing(checks) ==
  LET failing == {i \in DOMAIN checks : checks[i].fails}
  IN  IF failing = {} THEN "running" ELSE checks[Min(failing)].error

Check(fails, error) == [fails |-> fails, error |-> error]

SliceChecks(n) ==
  <<Check(n = 0, "ZeroSlices"), Check(n > MaxSlices, "TooManySlices")>>

WindowChecks(r) ==
  <<Check(r.qty = 0, "ZeroQuantity")>> \o SliceChecks(r.slices)
    \o <<Check(r.end <= r.start, "InvalidTimeRange"),
         Check(r.end - r.start < r.slices, "WindowTooShort")>>
=============================================================================
