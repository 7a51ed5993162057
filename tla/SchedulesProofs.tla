--------------------------- MODULE SchedulesProofs ---------------------------
(***************************************************************************)
(* What the schedulers return, for every window, quantity and number of    *)
(* slices, every volume profile, print and observation. First the          *)
(* arithmetic: slices are not empty, slice_containing and slice_start      *)
(* agree on the boundaries, and the even targets of TWAP never fall, stay  *)
(* within half a unit of the even share and end at the whole quantity.     *)
(* Then what a call that passed its checks may assume, and the invariants  *)
(* of the loops: slice by slice, observation by observation, bar by bar.   *)
(*                                                                         *)
(* Then module Shortfall: the recurrences of the Almgren-Chriss curve and  *)
(* what follows from them by induction along it, that no trajectory costs  *)
(* less, the rounding, and that a call is one of module Schedules.         *)
(***************************************************************************)
EXTENDS Schedules, Shortfall, SumTheorems, SequenceTheorems, TLAPS

LEMMA DivisionBounds ==
  ASSUME NEW a \in Nat, NEW b \in Nat \ {0}
  PROVE  /\ a \div b \in Nat
         /\ (a \div b) * b <= a
         /\ a < (a \div b) * b + b
         /\ a % b = a - (a \div b) * b
OBVIOUS

LEMMA ProductReflects ==
  ASSUME NEW x \in Int, NEW y \in Int, NEW n \in Nat \ {0}, x * n < y * n
  PROVE  x < y
OBVIOUS

\* schedule.rs:76-83: of a window at least as long as its number of slices, no slice is
\* empty, so a time can be drawn inside each (twap.rs:85-86).
THEOREM SlicesAreNotEmpty ==
  ASSUME NEW start \in Nat, NEW n \in Nat \ {0}, NEW duration \in Nat, n <= duration,
         NEW k \in Nat
  PROVE  SliceStart(start, duration, n, k) < SliceStart(start, duration, n, k + 1)
<1> DEFINE a == duration * k
           b == duration * (k + 1)
<1>1. a \in Nat /\ b \in Nat /\ b >= a + n
  OBVIOUS
<1> HIDE DEF a, b
<1>2. /\ (a \div n) * n <= a
      /\ b < (b \div n) * n + n
      /\ a \div n \in Nat /\ b \div n \in Nat
  BY <1>1, DivisionBounds
<1>3. (a \div n) * n < (b \div n) * n
  BY <1>1, <1>2
<1>4. a \div n < b \div n
  BY <1>2, <1>3, ProductReflects
<1> QED BY <1>2, <1>4 DEF SliceStart, a, b

\* vwap.rs:169-178: the slice a bar is pooled with is the one between whose boundaries,
\* as the schedules cut them, its offset lies.
THEOREM SliceHoldsOffset ==
  ASSUME NEW n \in Nat \ {0}, NEW duration \in Nat, n <= duration,
         NEW offset \in 0 .. duration - 1
  PROVE  LET k == SliceContaining(offset, duration, n)
         IN  /\ k \in 0 .. n - 1
             /\ SliceStart(0, duration, n, k) <= offset
             /\ offset < SliceStart(0, duration, n, k + 1)
<1> DEFINE scaled == (offset + 1) * n - 1
           k == scaled \div duration
           low == duration * k
           high == duration * (k + 1)
<1>1. scaled \in Nat /\ scaled < duration * n
  <2>1. (offset + 1) * n >= n /\ (offset + 1) * n <= duration * n
    OBVIOUS
  <2> QED BY <2>1
<1>2. scaled = (offset + 1) * n - 1
  OBVIOUS
<1> HIDE DEF scaled
<1>3. k \in Nat /\ k * duration <= scaled /\ scaled < k * duration + duration
  BY <1>1, DivisionBounds
<1>4. k < n
  <2>1. k * duration < n * duration
    BY <1>1, <1>3
  <2> QED BY <2>1, <1>3, ProductReflects
<1> HIDE DEF k
<1>5. low \in Nat /\ high \in Nat /\ low <= scaled /\ scaled < high
  BY <1>3
<1> HIDE DEF low, high
<1>6. low \div n <= offset
  <2>1. low \div n \in Nat /\ (low \div n) * n <= low
    BY <1>5, DivisionBounds
  <2>2. (low \div n) * n < (offset + 1) * n
    BY <2>1, <1>5, <1>2, <1>1
  <2>3. low \div n < offset + 1
    BY <2>1, <2>2, ProductReflects
  <2> QED BY <2>1, <2>3
<1>7. offset < high \div n
  <2>1. high \div n \in Nat /\ high < (high \div n) * n + n
    BY <1>5, DivisionBounds
  <2>2. (offset + 1) * n <= high
    BY <1>5, <1>2, <1>1
  <2>3. (offset + 1) * n = offset * n + n /\ offset * n \in Nat
    OBVIOUS
  <2> DEFINE e == (high \div n) * n
  <2>4. e \in Nat /\ high < e + n
    BY <2>1
  <2> HIDE DEF e
  <2>5. offset * n < e
    BY <2>2, <2>3, <2>4, <1>5
  <2> QED BY <2>1, <2>5, ProductReflects DEF e
<1> QED BY <1>3, <1>4, <1>6, <1>7 DEF SliceContaining, SliceStart, k, scaled, low, high

\* twap.rs:99-113: after k of n slices TWAP is within half a unit of its even share,
\* ties rounded up, and after all of them it is complete.
THEOREM TwapStaysPaced ==
  ASSUME NEW total \in Nat, NEW n \in Nat \ {0}, NEW k \in Nat
  PROVE  LET share == 2 * (total * k)
             target == 2 * (n * TwapTarget(total, n, k))
         IN  /\ TwapTarget(total, n, k) \in Nat
             /\ share - n < target /\ target <= share + n
             /\ TwapTarget(total, n, n) = total
<1> DEFINE q == total \div n
           r == total % n
           partial == r * k
           p == partial \div n
           s == partial % n
           up == IF 2 * s >= n THEN 1 ELSE 0
<1>1. q \in Nat /\ r \in Nat /\ r < n /\ total = q * n + r
  BY DivisionBounds
<1>2. TwapTarget(total, n, k) = q * k + p + up
  BY DEF TwapTarget
<1>3. TwapTarget(total, n, n) = total
  <2> DEFINE whole == r * n
  <2>1. TwapTarget(total, n, n)
          = q * n + whole \div n + (IF 2 * (whole % n) >= n THEN 1 ELSE 0)
    BY DEF TwapTarget
  <2> HIDE DEF q, r
  <2>2. whole \div n = r /\ whole % n = 0
    BY <1>1
  <2> HIDE DEF whole
  <2> QED BY <2>1, <2>2, <1>1
<1> HIDE DEF q, r
<1>4. partial \in Nat /\ total * k = (q * k) * n + partial /\ q * k \in Nat
  BY <1>1
<1> HIDE DEF partial
<1>5. p \in Nat /\ s \in Nat /\ s < n /\ partial = p * n + s
  <2>1. /\ p \in Nat /\ p * n <= partial /\ partial < p * n + n
        /\ s = partial - p * n
    BY <1>4, DivisionBounds
  <2> HIDE DEF p, s
  <2> DEFINE e == p * n
  <2>2. e \in Nat
    BY <2>1
  <2> HIDE DEF e
  <2> QED BY <2>1, <2>2, <1>4 DEF e
<1> HIDE DEF p, s
<1>6. up \in {0, 1} /\ (up = 1 => 2 * s >= n) /\ (up = 0 => 2 * s < n)
  BY <1>5
<1> HIDE DEF up
<1> DEFINE whole == q * k
<1>7. /\ TwapTarget(total, n, k) = whole + p + up
      /\ total * k = whole * n + p * n + s
      /\ whole \in Nat
  BY <1>2, <1>4, <1>5
<1> HIDE DEF whole
<1>8. n * TwapTarget(total, n, k) = whole * n + p * n + up * n
  BY <1>5, <1>6, <1>7
<1>9. up * n = IF up = 1 THEN n ELSE 0
  BY <1>6
<1>10. whole * n \in Nat /\ p * n \in Nat
  BY <1>5, <1>7
<1> QED BY <1>3, <1>5, <1>6, <1>7, <1>8, <1>9, <1>10

\* twap.rs:107-111: the target of a slice is never below the one before it, so the
\* quantity of a slice, their difference as a u64, never wraps.
THEOREM TwapNeverFalls ==
  ASSUME NEW total \in Nat, NEW n \in Nat \ {0}, NEW k \in Nat
  PROVE  TwapTarget(total, n, k) <= TwapTarget(total, n, k + 1)
<1> DEFINE now == TwapTarget(total, n, k)
           next == TwapTarget(total, n, k + 1)
           share == total * k
           after == total * (k + 1)
<1>1. /\ now \in Nat /\ next \in Nat
      /\ 2 * (n * now) <= 2 * share + n
      /\ 2 * after - n < 2 * (n * next)
  <2> HIDE DEF now, next
  <2> QED BY TwapStaysPaced, k + 1 \in Nat DEF now, next
<1>2. share \in Nat /\ after \in Nat /\ share <= after
  OBVIOUS
<1> HIDE DEF now, next, share, after
<1>3. now * n < (next + 1) * n
  <2>1. n * now \in Nat /\ n * next \in Nat /\ (next + 1) * n = n * next + n /\ now * n = n * now
    BY <1>1
  <2> QED BY <2>1, <1>1, <1>2
<1>4. now < next + 1
  BY <1>1, <1>3, ProductReflects
<1> QED BY <1>1, <1>4 DEF now, next

----------------------------------------------------------------------------
(* The checks of a call *)

\* The checks of a call that runs have all passed, and no refusal is called
\* "running" or "scheduled".
Errors == {"ZeroQuantity", "ZeroSlices", "TooManySlices", "InvalidTimeRange", "WindowTooShort",
           "InvalidProfileEntry", "EmptyProfile", "InvalidParameter", "UnsortedMarketData"}

Listed == [fails : BOOLEAN, error : Errors]

AllPass(checks) == \A i \in DOMAIN checks : ~checks[i].fails

Accepted(r) == AllPass(Checks(r))

LEMMA PassBoth ==
  ASSUME NEW s \in Seq(Listed), NEW t \in Seq(Listed), AllPass(s \o t)
  PROVE  AllPass(s) /\ AllPass(t)
<1>1. /\ s \o t \in Seq(Listed) /\ Len(s \o t) = Len(s) + Len(t)
      /\ \A i \in 1 .. Len(s) + Len(t) :
           (s \o t)[i] = IF i <= Len(s) THEN s[i] ELSE t[i - Len(s)]
  BY ConcatProperties
<1>2. ASSUME NEW i \in DOMAIN s PROVE ~s[i].fails
  <2>1. i \in 1 .. Len(s) /\ i \in 1 .. Len(s) + Len(t) /\ i \in DOMAIN (s \o t)
    BY <1>1
  <2>2. ~(s \o t)[i].fails /\ (s \o t)[i] = s[i]
    BY <2>1, <1>1 DEF AllPass
  <2> QED BY <2>2
<1>3. ASSUME NEW i \in DOMAIN t PROVE ~t[i].fails
  <2> DEFINE j == i + Len(s)
  <2>1. /\ j \in 1 .. Len(s) + Len(t) /\ j \in DOMAIN (s \o t)
        /\ ~(j <= Len(s)) /\ j - Len(s) = i
    BY <1>1
  <2> HIDE DEF j
  <2>2. ~(s \o t)[j].fails /\ (s \o t)[j] = t[i]
    BY <2>1, <1>1 DEF AllPass
  <2> QED BY <2>2
<1> QED BY <1>2, <1>3 DEF AllPass

LEMMA CheckType ==
  ASSUME NEW fails \in BOOLEAN, NEW error \in Errors
  PROVE  Check(fails, error) \in Listed
BY DEF Check, Listed

LEMMA SliceChecksPassed ==
  ASSUME NEW n \in Nat
  PROVE  /\ SliceChecks(n) \in Seq(Listed)
         /\ AllPass(SliceChecks(n)) => n \in 1 .. MaxSlices
<1> DEFINE none == n = 0
           many == n > MaxSlices
<1>1. none \in BOOLEAN /\ many \in BOOLEAN
  OBVIOUS
<1>2. SliceChecks(n) = <<Check(none, "ZeroSlices"), Check(many, "TooManySlices")>>
  BY DEF SliceChecks
<1>3. ~none /\ ~many => n \in 1 .. MaxSlices
  BY SlicesAssumption
<1> HIDE DEF none, many
<1>4. Check(none, "ZeroSlices") \in Listed /\ Check(many, "TooManySlices") \in Listed
  BY <1>1, CheckType DEF Errors
<1>5. SliceChecks(n) \in Seq(Listed)
  BY <1>2, <1>4
<1>6. ASSUME AllPass(SliceChecks(n)) PROVE ~none /\ ~many
  <2>1. ~SliceChecks(n)[1].fails /\ ~SliceChecks(n)[2].fails
    BY <1>6, <1>2 DEF AllPass
  <2> QED BY <2>1, <1>2 DEF Check
<1> QED BY <1>3, <1>5, <1>6

\* A window cut into slices none of which is empty.
Sliceable(r) ==
  /\ r.start \in Nat /\ r.end \in Nat /\ r.slices \in Nat \ {0}
  /\ r.start < r.end /\ r.slices <= r.end - r.start

LEMMA WindowChecksPassed ==
  ASSUME NEW r, r.start \in Nat, r.end \in Nat, r.qty \in Nat, r.slices \in Nat
  PROVE  /\ WindowChecks(r) \in Seq(Listed)
         /\ AllPass(WindowChecks(r)) => Sliceable(r) /\ r.qty \in Nat \ {0}
<1> DEFINE none == r.qty = 0
           backwards == r.end <= r.start
           short == r.end - r.start < r.slices
           first == <<Check(none, "ZeroQuantity")>>
           slices == SliceChecks(r.slices)
           last == <<Check(backwards, "InvalidTimeRange"), Check(short, "WindowTooShort")>>
<1>0. r.start \in Nat /\ r.end \in Nat /\ r.qty \in Nat /\ r.slices \in Nat
  OBVIOUS
<1>1. none \in BOOLEAN /\ backwards \in BOOLEAN /\ short \in BOOLEAN
  OBVIOUS
<1>2. WindowChecks(r) = (first \o slices) \o last
  BY DEF WindowChecks
<1>3. slices \in Seq(Listed) /\ (AllPass(slices) => r.slices \in 1 .. MaxSlices)
  BY <1>0, SliceChecksPassed
<1>4. ASSUME ~none, ~backwards, ~short, r.slices \in 1 .. MaxSlices
      PROVE  Sliceable(r) /\ r.qty \in Nat \ {0}
  BY <1>0, <1>4 DEF Sliceable
<1> HIDE DEF none, backwards, short, slices
<1>5. /\ Check(none, "ZeroQuantity") \in Listed
      /\ Check(backwards, "InvalidTimeRange") \in Listed
      /\ Check(short, "WindowTooShort") \in Listed
  BY <1>1, CheckType DEF Errors
<1>6. first \in Seq(Listed) /\ last \in Seq(Listed)
  BY <1>5
<1>7. AllPass(first) => ~none
  <2> SUFFICES ASSUME AllPass(first) PROVE ~none
    OBVIOUS
  <2>1. ~first[1].fails
    BY DEF AllPass
  <2> QED BY <2>1 DEF Check
<1>8. AllPass(last) => ~backwards /\ ~short
  <2> SUFFICES ASSUME AllPass(last) PROVE ~backwards /\ ~short
    OBVIOUS
  <2>1. ~last[1].fails /\ ~last[2].fails
    BY DEF AllPass
  <2> QED BY <2>1 DEF Check
<1> HIDE DEF first, last
<1>9. first \o slices \in Seq(Listed) /\ (first \o slices) \o last \in Seq(Listed)
  BY <1>3, <1>6, ConcatProperties
<1>10. AllPass((first \o slices) \o last) => AllPass(first) /\ AllPass(slices) /\ AllPass(last)
  BY <1>3, <1>6, <1>9, PassBoth
<1> QED BY <1>2, <1>3, <1>4, <1>7, <1>8, <1>9, <1>10

\* The weights of an accepted profile: none is negative and some are not zero.
WellWeighted(r) ==
  (\A i \in DOMAIN r.weights : r.weights[i] >= 0) /\ \E i \in DOMAIN r.weights : r.weights[i] > 0

LEMMA WeightChecksPassed ==
  ASSUME NEW r \in Requests
  PROVE  /\ WeightChecks(r) \in Seq(Listed)
         /\ AllPass(WeightChecks(r)) => WellWeighted(r)
<1>0. r.weights \in Seq(Int)
  BY ScheduleAssumption
<1> DEFINE negative == \E i \in DOMAIN r.weights : r.weights[i] < 0
           empty == \A i \in DOMAIN r.weights : r.weights[i] = 0
<1>1. negative \in BOOLEAN /\ empty \in BOOLEAN
  OBVIOUS
<1>2. ~negative /\ ~empty => WellWeighted(r)
  <2> SUFFICES ASSUME ~negative, ~empty PROVE WellWeighted(r)
    OBVIOUS
  <2>1. \A i \in DOMAIN r.weights : r.weights[i] \in Int
    BY <1>0
  <2> QED BY <2>1 DEF WellWeighted
<1>3. WeightChecks(r) = <<Check(negative, "InvalidProfileEntry"), Check(empty, "EmptyProfile")>>
  BY DEF WeightChecks
<1> HIDE DEF negative, empty
<1>4. /\ Check(negative, "InvalidProfileEntry") \in Listed
      /\ Check(empty, "EmptyProfile") \in Listed
  BY <1>1, CheckType DEF Errors
<1>5. WeightChecks(r) \in Seq(Listed)
  BY <1>3, <1>4
<1>6. ASSUME AllPass(WeightChecks(r)) PROVE ~negative /\ ~empty
  <2>1. ~WeightChecks(r)[1].fails /\ ~WeightChecks(r)[2].fails
    BY <1>6, <1>3 DEF AllPass
  <2> QED BY <2>1, <1>3 DEF Check
<1> QED BY <1>2, <1>5, <1>6

LEMMA SortedByNeighbours ==
  ASSUME NEW n \in Nat, NEW f, \A i \in 1 .. n : f[i] \in Nat,
         \A i \in 1 .. n - 1 : f[i] <= f[i + 1]
  PROVE  \A i, j \in 1 .. n : i <= j => f[i] <= f[j]
<1> DEFINE N == {m \in Nat : \A i \in 1 .. n : i + m <= n => f[i] <= f[i + m]}
<1>1. 0 \in N
  OBVIOUS
<1>2. ASSUME NEW m \in N PROVE m + 1 \in N
  <2>1. m + 1 \in Nat /\ m \in Nat
    OBVIOUS
  <2>2. ASSUME NEW i \in 1 .. n, i + (m + 1) <= n PROVE f[i] <= f[i + (m + 1)]
    <3> DEFINE j == i + m
    <3>1. j \in 1 .. n - 1 /\ j \in 1 .. n /\ j + 1 \in 1 .. n /\ i + m <= n /\ i + (m + 1) = j + 1
      BY <2>1, <2>2
    <3>2. f[i] <= f[j]
      BY <3>1
    <3> HIDE DEF j, N
    <3>3. f[j] <= f[j + 1] /\ f[i] \in Nat /\ f[j] \in Nat /\ f[j + 1] \in Nat
      BY <3>1
    <3> QED BY <3>1, <3>2, <3>3
  <2> QED BY <2>1, <2>2
<1> HIDE DEF N
<1>3. N \in SUBSET Nat
  BY DEF N
<1>4. N = Nat
  BY <1>1, <1>2, <1>3, SetInduction
<1>5. ASSUME NEW i \in 1 .. n, NEW j \in 1 .. n, i <= j PROVE f[i] <= f[j]
  <2>1. j - i \in Nat /\ i + (j - i) = j /\ i + (j - i) <= n
    BY <1>5
  <2> HIDE DEF N
  <2>2. j - i \in N
    BY <1>4, <2>1
  <2> QED BY <2>1, <2>2 DEF N
<1> QED BY <1>5

\* An accepted call of POV: observations in the order of their times.
Observed(r) ==
  /\ r.start \in Nat /\ r.end \in Nat /\ r.start < r.end /\ r.qty \in Nat \ {0}
  /\ r.rate \in Nat
  /\ r.prints \in Seq([time : Nat, volume : Nat])
  /\ \A i, j \in DOMAIN r.prints : i <= j => r.prints[i].time <= r.prints[j].time

LEMMA PovChecksPassed ==
  ASSUME NEW r \in Requests
  PROVE  /\ PovChecks(r) \in Seq(Listed)
         /\ AllPass(PovChecks(r)) => Observed(r)
<1> DEFINE none == r.qty = 0
           backwards == r.end <= r.start
           wrong == r.rate = 0 \/ r.rate > FullRate
           unsorted == \E i \in 1 .. Len(r.prints) - 1 : r.prints[i + 1].time < r.prints[i].time
<1>0. /\ r.start \in Nat /\ r.end \in Nat /\ r.qty \in Nat /\ r.rate \in Nat
      /\ r.prints \in Seq([time : Nat, volume : Nat])
  BY ScheduleAssumption
<1>1. none \in BOOLEAN /\ backwards \in BOOLEAN /\ wrong \in BOOLEAN /\ unsorted \in BOOLEAN
  OBVIOUS
<1>2. PovChecks(r) = <<Check(none, "ZeroQuantity"), Check(backwards, "InvalidTimeRange"),
                       Check(wrong, "InvalidParameter"), Check(unsorted, "UnsortedMarketData")>>
  BY DEF PovChecks
<1>3. ASSUME ~none, ~backwards, ~unsorted PROVE Observed(r)
  <2> DEFINE n == Len(r.prints)
             f == [i \in 1 .. n |-> r.prints[i].time]
  <2>0. n \in Nat /\ DOMAIN r.prints = 1 .. n /\ \A i \in 1 .. n : f[i] = r.prints[i].time
    BY <1>0
  <2> HIDE DEF n, f
  <2>1. \A i \in 1 .. n : f[i] \in Nat
    <3> SUFFICES ASSUME NEW i \in 1 .. n PROVE r.prints[i].time \in Nat
      BY <2>0
    <3>1. r.prints[i] \in [time : Nat, volume : Nat]
      <4>1. i \in 1 .. Len(r.prints)
        BY DEF n
      <4>2. r.prints \in Seq([time : Nat, volume : Nat])
        BY <1>0
      <4> QED BY ONLY <4>1, <4>2, ElementOfSeq
    <3> QED BY <3>1
  <2>2. \A i \in 1 .. n - 1 : f[i] <= f[i + 1]
    <3> SUFFICES ASSUME NEW i \in 1 .. n - 1 PROVE f[i] <= f[i + 1]
      OBVIOUS
    <3>1. i \in 1 .. n /\ i + 1 \in 1 .. n
      BY <2>0
    <3>2. ~(r.prints[i + 1].time < r.prints[i].time)
      BY <1>3 DEF n
    <3>3. f[i] = r.prints[i].time /\ f[i + 1] = r.prints[i + 1].time
      BY <2>0, <3>1
    <3>4. f[i] \in Nat /\ f[i + 1] \in Nat
      BY <2>1, <3>1
    <3> QED BY <3>2, <3>3, <3>4
  <2>3. \A i, j \in 1 .. n : i <= j => f[i] <= f[j]
    BY <2>0, <2>1, <2>2, SortedByNeighbours
  <2>4. \A i, j \in DOMAIN r.prints : i <= j => r.prints[i].time <= r.prints[j].time
    BY <2>0, <2>3
  <2> QED BY <1>0, <1>3, <2>4 DEF Observed
<1> HIDE DEF none, backwards, wrong, unsorted
<1>4. /\ Check(none, "ZeroQuantity") \in Listed
      /\ Check(backwards, "InvalidTimeRange") \in Listed
      /\ Check(wrong, "InvalidParameter") \in Listed
      /\ Check(unsorted, "UnsortedMarketData") \in Listed
  BY <1>1, CheckType DEF Errors
<1>5. PovChecks(r) \in Seq(Listed)
  BY <1>2, <1>4
<1>6. ASSUME AllPass(PovChecks(r)) PROVE ~none /\ ~backwards /\ ~unsorted
  <2>1. ~PovChecks(r)[1].fails /\ ~PovChecks(r)[2].fails /\ ~PovChecks(r)[4].fails
    BY <1>6, <1>2 DEF AllPass
  <2> QED BY <2>1, <1>2 DEF Check
<1> QED BY <1>3, <1>5, <1>6

LEMMA ProfileChecksPassed ==
  ASSUME NEW r \in Requests
  PROVE  /\ ProfileChecks(r) \in Seq(Listed)
         /\ AllPass(ProfileChecks(r)) => Sliceable(r) /\ r.day \in Nat \ {0} /\ r.end <= r.day
<1> DEFINE none == r.day = 0
           short == r.end - r.start < r.slices
           over == r.end > r.day
           slices == SliceChecks(r.slices)
           last == <<Check(none, "InvalidParameter"), Check(short, "WindowTooShort"),
                     Check(over, "InvalidParameter")>>
<1>0. r.start \in Nat /\ r.end \in Nat /\ r.day \in Nat /\ r.slices \in Nat
  BY ScheduleAssumption
<1>1. none \in BOOLEAN /\ short \in BOOLEAN /\ over \in BOOLEAN
  OBVIOUS
<1>2. ProfileChecks(r) = slices \o last
  BY DEF ProfileChecks
<1>3. slices \in Seq(Listed) /\ (AllPass(slices) => r.slices \in 1 .. MaxSlices)
  BY <1>0, SliceChecksPassed
<1>4. ASSUME ~none, ~short, ~over, r.slices \in 1 .. MaxSlices
      PROVE  Sliceable(r) /\ r.day \in Nat \ {0} /\ r.end <= r.day
  BY <1>0, <1>4 DEF Sliceable
<1> HIDE DEF none, short, over, slices
<1>5. /\ Check(none, "InvalidParameter") \in Listed
      /\ Check(short, "WindowTooShort") \in Listed
      /\ Check(over, "InvalidParameter") \in Listed
  BY <1>1, CheckType DEF Errors
<1>6. last \in Seq(Listed)
  BY <1>5
<1>7. AllPass(last) => ~none /\ ~short /\ ~over
  <2> SUFFICES ASSUME AllPass(last) PROVE ~none /\ ~short /\ ~over
    OBVIOUS
  <2>1. ~last[1].fails /\ ~last[2].fails /\ ~last[3].fails
    BY DEF AllPass
  <2> QED BY <2>1 DEF Check
<1> HIDE DEF last
<1>8. slices \o last \in Seq(Listed) /\ (AllPass(slices \o last) => AllPass(slices) /\ AllPass(last))
  BY <1>3, <1>6, ConcatProperties, PassBoth
<1> QED BY <1>2, <1>3, <1>4, <1>7, <1>8

\* What the checks of a kind of call leave to its loop.
ArgumentsOK(r) ==
  /\ r.kind # "pov" => Sliceable(r)
  /\ r.kind \in {"twap", "randomized", "vwap", "is"} => r.qty \in Nat \ {0}
  /\ r.kind = "vwap" => WellWeighted(r)
  /\ r.kind = "pov" => Observed(r)
  /\ r.kind = "profile" => r.day \in Nat \ {0} /\ r.end <= r.day

LEMMA ChecksPassed ==
  ASSUME NEW r \in Requests
  PROVE  Checks(r) \in Seq(Listed) /\ (Accepted(r) => ArgumentsOK(r))
<1>0. /\ r.kind \in {"twap", "randomized", "vwap", "is", "pov", "profile"}
      /\ r.sound \in BOOLEAN
      /\ r.start \in Nat /\ r.end \in Nat /\ r.qty \in Nat /\ r.slices \in Nat
  BY ScheduleAssumption
<1>1. CASE r.kind \in {"twap", "randomized"}
  BY <1>0, <1>1, WindowChecksPassed DEF Checks, Accepted, ArgumentsOK
<1>2. CASE r.kind = "vwap"
  <2>1. Checks(r) = WindowChecks(r) \o WeightChecks(r)
    BY <1>2 DEF Checks
  <2>2. WindowChecks(r) \in Seq(Listed) /\ WeightChecks(r) \in Seq(Listed)
    BY <1>0, WindowChecksPassed, WeightChecksPassed
  <2>3. AllPass(Checks(r)) => AllPass(WindowChecks(r)) /\ AllPass(WeightChecks(r))
    BY <2>1, <2>2, PassBoth
  <2>4. Checks(r) \in Seq(Listed)
    BY <2>1, <2>2, ConcatProperties
  <2> QED BY <1>2, <2>3, <2>4, <1>0, WindowChecksPassed, WeightChecksPassed DEF Accepted, ArgumentsOK
<1>3. CASE r.kind = "is"
  <2> DEFINE last == <<Check(~r.sound, "InvalidParameter")>>
  <2>1. Checks(r) = WindowChecks(r) \o last
    BY <1>3 DEF Checks
  <2>2. last \in Seq(Listed)
    <3>1. PICK b \in BOOLEAN : b = ~r.sound
      BY <1>0
    <3>2. Check(b, "InvalidParameter") \in Listed
      BY CheckType DEF Errors
    <3>3. Check(~r.sound, "InvalidParameter") \in Listed
      BY <3>1, <3>2
    <3> QED BY <3>3
  <2> HIDE DEF last
  <2>3. WindowChecks(r) \in Seq(Listed)
    BY <1>0, WindowChecksPassed
  <2>4. AllPass(Checks(r)) => AllPass(WindowChecks(r))
    BY <2>1, <2>2, <2>3, PassBoth
  <2>5. Checks(r) \in Seq(Listed)
    BY <2>1, <2>2, <2>3, ConcatProperties
  <2> QED BY <1>3, <2>4, <2>5, <1>0, WindowChecksPassed DEF Accepted, ArgumentsOK
<1>4. CASE r.kind = "pov"
  BY <1>4, PovChecksPassed DEF Checks, Accepted, ArgumentsOK
<1>5. CASE r.kind = "profile"
  BY <1>5, ProfileChecksPassed DEF Checks, Accepted, ArgumentsOK
<1> QED BY <1>0, <1>1, <1>2, <1>3, <1>4, <1>5

\* Of checks that all pass there is no refusal; any other has the name of an error.
LEMMA RefusalOfChecks ==
  ASSUME NEW checks \in Seq(Listed)
  PROVE  /\ FirstFailing(checks) # "scheduled"
         /\ FirstFailing(checks) = "running" => AllPass(checks)
<1> DEFINE failing == {i \in DOMAIN checks : checks[i].fails}
<1>1. FirstFailing(checks) = IF failing = {} THEN "running" ELSE checks[Min(failing)].error
  BY DEF FirstFailing
<1>2. failing = {} => AllPass(checks)
  BY DEF AllPass
<1>3. failing \in SUBSET Nat
  OBVIOUS
<1>4. \A i \in DOMAIN checks : checks[i].error \in Errors
  <2>1. \A i \in DOMAIN checks : checks[i] \in Listed
    OBVIOUS
  <2> QED BY <2>1 DEF Listed
<1>5. failing # {} => Min(failing) \in failing
  <2> SUFFICES ASSUME failing # {} PROVE Min(failing) \in failing
    OBVIOUS
  <2> HIDE DEF failing
  <2>1. \E n \in failing : \A m \in failing : n <= m
    BY <1>3, LeastNat
  <2> QED BY <2>1 DEF Min
<1>6. failing # {} => checks[Min(failing)].error \in Errors
  BY <1>4, <1>5
<1>7. "running" \notin Errors /\ "scheduled" \notin Errors
  BY DEF Errors
<1> QED BY <1>1, <1>2, <1>6, <1>7

\* A call that starts to run has passed all its checks.
LEMMA OutcomeOfChecks ==
  ASSUME NEW r \in Requests
  PROVE  /\ FirstFailing(Checks(r)) # "scheduled"
         /\ FirstFailing(Checks(r)) = "running" => ArgumentsOK(r)
BY ChecksPassed, RefusalOfChecks DEF Accepted

----------------------------------------------------------------------------
(* Slices *)

Boundary(r, k) == SliceStart(r.start, r.end - r.start, r.slices, k)

LEMMA DivisionMonotone ==
  ASSUME NEW a \in Nat, NEW b \in Nat, NEW n \in Nat \ {0}, a <= b
  PROVE  a \div n <= b \div n
<1>1. /\ a \div n \in Nat /\ b \div n \in Nat
      /\ (a \div n) * n <= a /\ b < (b \div n) * n + n
  BY DivisionBounds
<1> DEFINE x == a \div n
           y == b \div n
<1> HIDE DEF x, y
<1>2. x \in Nat /\ y \in Nat /\ x * n < y * n + n
  <2>1. x * n \in Nat /\ y * n \in Nat
    BY <1>1 DEF x, y
  <2> QED BY <1>1, <2>1 DEF x, y
<1>3. x * n < (y + 1) * n
  BY <1>2
<1>4. x < y + 1
  BY <1>2, <1>3, ProductReflects
<1> QED BY <1>2, <1>4 DEF x, y

\* The boundaries of the slices rise from the start of the window to its end.
LEMMA Boundaries ==
  ASSUME NEW r, Sliceable(r)
  PROVE  /\ Boundary(r, 0) = r.start /\ Boundary(r, r.slices) = r.end
         /\ \A k \in Nat : Boundary(r, k) \in Nat /\ Boundary(r, k) < Boundary(r, k + 1)
         /\ \A j, k \in Nat : j <= k => Boundary(r, j) <= Boundary(r, k)
<1>0. PICK s, e, n : s = r.start /\ e = r.end /\ n = r.slices
  OBVIOUS
<1>1. PICK d : d = e - s
  OBVIOUS
<1>2. s \in Nat /\ e \in Nat /\ n \in Nat \ {0} /\ d \in Nat /\ n <= d /\ e = s + d
  BY <1>0, <1>1 DEF Sliceable
<1>3. \A k : Boundary(r, k) = SliceStart(s, d, n, k)
  BY <1>0, <1>1 DEF Boundary
<1>4. \A k \in Nat : SliceStart(s, d, n, k) \in Nat
  <2> SUFFICES ASSUME NEW k \in Nat PROVE SliceStart(s, d, n, k) \in Nat
    OBVIOUS
  <2>1. d * k \in Nat
    BY <1>2
  <2>2. (d * k) \div n \in Nat
    BY <1>2, <2>1, DivisionBounds
  <2> QED BY <1>2, <2>2 DEF SliceStart
<1>5. \A k \in Nat : SliceStart(s, d, n, k) < SliceStart(s, d, n, k + 1)
  BY <1>2, SlicesAreNotEmpty
<1>6. ASSUME NEW j \in Nat, NEW k \in Nat, j <= k
      PROVE  SliceStart(s, d, n, j) <= SliceStart(s, d, n, k)
  <2>1. d * j \in Nat /\ d * k \in Nat /\ d * j <= d * k
    <3>1. PICK m \in Nat : k = j + m
      BY <1>6
    <3>2. d * k = d * j + d * m /\ d * m \in Nat /\ d * j \in Nat
      BY <1>2, <3>1
    <3> QED BY <3>2
  <2>2. (d * j) \div n <= (d * k) \div n
    BY <1>2, <2>1, DivisionMonotone
  <2>3. (d * j) \div n \in Nat /\ (d * k) \div n \in Nat
    BY <1>2, <2>1, DivisionBounds
  <2> QED BY <1>2, <2>2, <2>3 DEF SliceStart
<1>7. SliceStart(s, d, n, 0) = s
  BY <1>2 DEF SliceStart
<1>8. SliceStart(s, d, n, n) = e
  <2>1. (d * n) \div n = d
    BY <1>2
  <2> QED BY <1>2, <2>1 DEF SliceStart
<1> QED BY <1>0, <1>3, <1>4, <1>5, <1>6, <1>7, <1>8

\* The slices of a window part it: slice_containing names the one slice a time is in.
LEMMA OneSlice ==
  ASSUME NEW r, Sliceable(r), NEW time \in r.start .. r.end - 1
  PROVE  LET k == SliceContaining(time - r.start, r.end - r.start, r.slices)
         IN  /\ k \in 0 .. r.slices - 1
             /\ Boundary(r, k) <= time /\ time < Boundary(r, k + 1)
             /\ \A j \in Nat : Boundary(r, j) <= time /\ time < Boundary(r, j + 1) => j = k
<1>0. PICK s, e, n : s = r.start /\ e = r.end /\ n = r.slices
  OBVIOUS
<1>1. PICK d : d = e - s
  OBVIOUS
<1>2. s \in Nat /\ e \in Nat /\ n \in Nat \ {0} /\ d \in Nat /\ n <= d /\ e = s + d
  BY <1>0, <1>1 DEF Sliceable
<1>3. PICK offset \in 0 .. d - 1 : offset = time - s
  BY <1>0, <1>2
<1>4. PICK k : k = SliceContaining(offset, d, n)
  OBVIOUS
<1>5. k \in 0 .. n - 1 /\ SliceStart(0, d, n, k) <= offset /\ offset < SliceStart(0, d, n, k + 1)
  BY <1>2, <1>4, SliceHoldsOffset
<1>6. \A j \in Nat : Boundary(r, j) = s + SliceStart(0, d, n, j) /\ SliceStart(0, d, n, j) \in Nat
  <2> SUFFICES ASSUME NEW j \in Nat
               PROVE  Boundary(r, j) = s + SliceStart(0, d, n, j) /\ SliceStart(0, d, n, j) \in Nat
    OBVIOUS
  <2>1. d * j \in Nat
    BY <1>2
  <2>2. (d * j) \div n \in Nat
    BY <1>2, <2>1, DivisionBounds
  <2> QED BY <1>0, <1>1, <1>2, <2>2 DEF Boundary, SliceStart
<1>7. Boundary(r, k) <= time /\ time < Boundary(r, k + 1)
  BY <1>2, <1>3, <1>5, <1>6
<1>8. ASSUME NEW j \in Nat, Boundary(r, j) <= time, time < Boundary(r, j + 1)
      PROVE  j = k
  <2>0. /\ \A i \in Nat : Boundary(r, i) \in Nat
        /\ \A i, l \in Nat : i <= l => Boundary(r, i) <= Boundary(r, l)
    BY Boundaries
  <2>1. k \in Nat /\ time \in Nat
    BY <1>5, <1>2, <1>0
  <2>2. ~(j + 1 <= k)
    BY <1>7, <1>8, <2>0, <2>1
  <2>3. ~(k + 1 <= j)
    BY <1>7, <1>8, <2>0, <2>1
  <2> QED BY <2>1, <2>2, <2>3
<1>9. SliceContaining(time - r.start, r.end - r.start, r.slices) = k
  BY <1>0, <1>1, <1>3, <1>4
<1> QED BY <1>0, <1>5, <1>7, <1>8, <1>9

----------------------------------------------------------------------------
(* Child orders *)

Orders == [time : Nat, qty : Nat \ {0}]

\* The quantity of the child orders before a time.
Before(c, time) ==
  SumFunctionOnSet([i \in DOMAIN c |-> c[i].qty], {i \in DOMAIN c : c[i].time < time})

Increasing(c) == \A i \in DOMAIN c : \A j \in 1 .. i - 1 : c[j].time < c[i].time

LEMMA BeforeEmpty == \A time : Before(<<>>, time) = 0
<1> SUFFICES ASSUME NEW time PROVE Before(<<>>, time) = 0
  OBVIOUS
<1>1. {i \in DOMAIN <<>> : <<>>[i].time < time} = {}
  OBVIOUS
<1> QED BY <1>1, SumEmpty DEF Before

\* A new last child order counts from the time after its own.
LEMMA BeforeAppend ==
  ASSUME NEW c \in Seq(Orders), NEW x \in Orders, NEW time \in Nat
  PROVE  /\ Before(c, time) \in Nat
         /\ Before(Append(c, x), time) = Before(c, time) + (IF x.time < time THEN x.qty ELSE 0)
<1>1. PICK n \in Nat : n = Len(c) /\ DOMAIN c = 1 .. n
  OBVIOUS
<1>2. PICK a : a = Append(c, x)
  OBVIOUS
<1>3. /\ a \in Seq(Orders) /\ Len(a) = n + 1 /\ DOMAIN a = 1 .. n + 1
      /\ \A i \in 1 .. n : a[i] = c[i]
      /\ a[n + 1] = x
  BY <1>1, <1>2, AppendProperties
<1>4. PICK f, g : /\ f = [i \in DOMAIN c |-> c[i].qty]
                  /\ g = [i \in DOMAIN a |-> a[i].qty]
  OBVIOUS
<1>5. PICK S, T : /\ S = {i \in DOMAIN c : c[i].time < time}
                  /\ T = {i \in DOMAIN a : a[i].time < time}
  OBVIOUS
<1>6. \A i \in 1 .. n : c[i] \in Orders
  BY <1>1
<1>7. \A i \in 1 .. n : f[i] = c[i].qty /\ f[i] \in Nat
  BY <1>1, <1>4, <1>6 DEF Orders
<1>8. /\ \A i \in 1 .. n : g[i] = f[i]
      /\ g[n + 1] = x.qty /\ x.qty \in Nat
  <2>1. \A i \in 1 .. n + 1 : g[i] = a[i].qty
    BY <1>3, <1>4
  <2>2. n + 1 \in 1 .. n + 1 /\ \A i \in 1 .. n : i \in 1 .. n + 1
    OBVIOUS
  <2>3. x.qty \in Nat
    BY DEF Orders
  <2> QED BY <1>3, <1>7, <2>1, <2>2, <2>3
<1>9. IsFiniteSet(S) /\ S \in SUBSET (1 .. n) /\ n + 1 \notin S
  <2>1. S \in SUBSET (1 .. n) /\ n + 1 \notin S
    BY <1>1, <1>5
  <2>2. IsFiniteSet(1 .. n)
    BY FS_Interval
  <2> QED BY <2>1, <2>2, FS_Subset
<1>10. SumFunctionOnSet(f, S) \in Nat
  <2>1. \A i \in S : f[i] \in Nat
    BY <1>7, <1>9
  <2> QED BY <1>9, <2>1, SumOfNaturals
<1>11. SumFunctionOnSet(g, S) = SumFunctionOnSet(f, S)
  <2>1. \A i \in S : f[i] \in Int /\ f[i] = g[i]
    BY <1>7, <1>8, <1>9
  <2> QED BY <1>9, <2>1, SumCongruence
<1>12. T = IF x.time < time THEN S \cup {n + 1} ELSE S
  <2>1. \A i : i \in T <=> i \in 1 .. n + 1 /\ a[i].time < time
    BY <1>3, <1>5
  <2>2. \A i : i \in S <=> i \in 1 .. n /\ c[i].time < time
    BY <1>1, <1>5
  <2>3. \A i : i \in T <=> i \in S \/ (i = n + 1 /\ x.time < time)
    <3> SUFFICES ASSUME NEW i PROVE i \in T <=> i \in S \/ (i = n + 1 /\ x.time < time)
      OBVIOUS
    <3>1. i \in 1 .. n + 1 <=> i \in 1 .. n \/ i = n + 1
      OBVIOUS
    <3>2. ~(n + 1 \in 1 .. n)
      OBVIOUS
    <3> QED BY <1>3, <2>1, <2>2, <3>1, <3>2
  <2> QED BY <2>3
<1>13. x.time < time => SumFunctionOnSet(g, T) = SumFunctionOnSet(g, S) + x.qty
  <2> SUFFICES ASSUME x.time < time
               PROVE  SumFunctionOnSet(g, T) = SumFunctionOnSet(g, S) + x.qty
    OBVIOUS
  <2>1. g[n + 1] \in Int /\ \A i \in S : g[i] \in Int
    BY <1>7, <1>8, <1>9
  <2>2. SumFunctionOnSet(g, S \cup {n + 1}) = g[n + 1] + SumFunctionOnSet(g, S)
    BY <1>9, <2>1, SumAdd
  <2> QED BY <1>8, <1>10, <1>11, <1>12, <2>2
<1>14. Before(c, time) = SumFunctionOnSet(f, S) /\ Before(a, time) = SumFunctionOnSet(g, T)
  BY <1>4, <1>5 DEF Before
<1> QED BY <1>2, <1>10, <1>11, <1>12, <1>13, <1>14

Enlarged(c, extra) == [c EXCEPT ![Len(c)].qty = @ + extra]

\* A last child order that grows counts for more from the time after its own.
LEMMA BeforeEnlarged ==
  ASSUME NEW c \in Seq(Orders), c # <<>>, NEW extra \in Nat, NEW time \in Nat, NEW a,
         a = Enlarged(c, extra)
  PROVE  /\ a \in Seq(Orders) /\ Len(a) = Len(c)
         /\ \A i \in 1 .. Len(c) : a[i].time = c[i].time
         /\ Before(a, time) = Before(c, time) + (IF c[Len(c)].time < time THEN extra ELSE 0)
<1>1. PICK n \in Nat \ {0} : n = Len(c) /\ DOMAIN c = 1 .. n
  OBVIOUS
<1>2. \A i \in 1 .. n : c[i] \in Orders
  BY <1>1
<1>3. /\ DOMAIN a = 1 .. n
      /\ \A i \in 1 .. n : a[i] = IF i = n THEN [c[n] EXCEPT !.qty = @ + extra] ELSE c[i]
  BY <1>1 DEF Enlarged
<1>4. n \in 1 .. n
  OBVIOUS
<1>5. /\ [c[n] EXCEPT !.qty = @ + extra] \in Orders
      /\ [c[n] EXCEPT !.qty = @ + extra].time = c[n].time
      /\ [c[n] EXCEPT !.qty = @ + extra].qty = c[n].qty + extra
      /\ c[n].qty \in Nat
  <2>1. PICK x : x = c[n]
    OBVIOUS
  <2>2. x \in Orders
    BY <1>2, <1>4, <2>1
  <2>3. [x EXCEPT !.qty = @ + extra] \in Orders
    <3>1. x = [time |-> x.time, qty |-> x.qty] /\ x.time \in Nat /\ x.qty \in Nat \ {0}
      BY <2>2 DEF Orders
    <3>2. x.qty + extra \in Nat \ {0}
      BY <3>1
    <3>3. [x EXCEPT !.qty = @ + extra] = [time |-> x.time, qty |-> x.qty + extra]
      BY <3>1
    <3> QED BY <3>1, <3>2, <3>3 DEF Orders
  <2>4. /\ [x EXCEPT !.qty = @ + extra].time = x.time
        /\ [x EXCEPT !.qty = @ + extra].qty = x.qty + extra
        /\ x.qty \in Nat
    BY <2>2 DEF Orders
  <2> QED BY <2>1, <2>3, <2>4
<1>6. \A i \in 1 .. n : /\ a[i] \in Orders /\ a[i].time = c[i].time
                        /\ a[i].qty = IF i = n THEN c[n].qty + extra ELSE c[i].qty
  BY <1>2, <1>3, <1>5
<1>7. a \in Seq(Orders) /\ Len(a) = n
  <2>1. PICK y \in Orders : y = [c[n] EXCEPT !.qty = @ + extra]
    BY <1>5
  <2>2. a = [c EXCEPT ![n] = y]
    BY <1>1, <2>1 DEF Enlarged
  <2>3. n \in 1 .. Len(c)
    BY <1>1
  <2> QED BY <1>1, <2>2, <2>3, ExceptSeq
<1>8. PICK f, g : /\ f = [i \in DOMAIN c |-> c[i].qty]
                  /\ g = [i \in DOMAIN a |-> a[i].qty]
  OBVIOUS
<1>9. PICK S : S = {i \in DOMAIN c : c[i].time < time}
  OBVIOUS
<1>10. {i \in DOMAIN a : a[i].time < time} = S
  BY <1>1, <1>3, <1>6, <1>9
<1>11. \A i \in 1 .. n : f[i] \in Nat /\ g[i] = IF i = n THEN f[i] + extra ELSE f[i]
  <2> SUFFICES ASSUME NEW i \in 1 .. n
               PROVE  f[i] \in Nat /\ g[i] = IF i = n THEN f[i] + extra ELSE f[i]
    OBVIOUS
  <2>1. f[i] = c[i].qty /\ g[i] = a[i].qty
    BY <1>1, <1>3, <1>8
  <2>2. c[i].qty \in Nat
    BY <1>2 DEF Orders
  <2> QED BY <1>6, <2>1, <2>2
<1>12. IsFiniteSet(S) /\ S \in SUBSET (1 .. n) /\ (n \in S <=> c[n].time < time)
  <2>1. S \in SUBSET (1 .. n) /\ (n \in S <=> c[n].time < time)
    BY <1>1, <1>4, <1>9
  <2>2. n \in Int /\ 1 \in Int
    OBVIOUS
  <2>3. IsFiniteSet(1 .. n)
    BY <2>2, FS_Interval
  <2> QED BY <2>1, <2>3, FS_Subset
<1>13. \A i \in S : f[i] \in Nat /\ f[i] \in Int /\ g[i] \in Int
  BY <1>11, <1>12
<1>14. SumFunctionOnSet(f, S) \in Nat
  BY <1>12, <1>13, SumOfNaturals
<1>15. CASE n \in S
  <2>1. \A i \in S \ {n} : f[i] = g[i]
    BY <1>11, <1>12
  <2>2. SumFunctionOnSet(g, S) = SumFunctionOnSet(f, S) - f[n] + g[n]
    <3>1. PICK R : R = S \ {n}
      OBVIOUS
    <3>2. IsFiniteSet(R) /\ \A i \in R : f[i] \in Int /\ f[i] = g[i]
      BY <1>12, <1>13, <2>1, <3>1, FS_Subset
    <3>3. SumFunctionOnSet(g, R) = SumFunctionOnSet(f, R) /\ SumFunctionOnSet(f, R) \in Int
      BY <3>2, SumCongruence, SumType
    <3>4. SumFunctionOnSet(f, S) = f[n] + SumFunctionOnSet(f, R)
      BY <1>12, <1>13, <1>15, <3>1, SumRemove
    <3>5. SumFunctionOnSet(g, S) = g[n] + SumFunctionOnSet(g, R)
      BY <1>12, <1>13, <1>15, <3>1, SumRemove
    <3>6. f[n] \in Int /\ g[n] \in Int
      BY <1>13, <1>15
    <3> QED BY <3>3, <3>4, <3>5, <3>6
  <2>3. g[n] = f[n] + extra /\ f[n] \in Nat
    BY <1>4, <1>11
  <2>4. SumFunctionOnSet(g, S) = SumFunctionOnSet(f, S) + extra
    BY <1>14, <2>2, <2>3
  <2> QED BY <1>1, <1>6, <1>7, <1>8, <1>9, <1>10, <1>12, <1>15, <2>4 DEF Before
<1>16. CASE n \notin S
  <2>1. ASSUME NEW i \in S PROVE f[i] \in Int /\ f[i] = g[i]
    <3>1. i \in 1 .. n /\ i # n
      BY <1>12, <1>16
    <3> QED BY <1>11, <3>1
  <2>2. SumFunctionOnSet(g, S) = SumFunctionOnSet(f, S)
    BY <1>12, <2>1, SumCongruence
  <2>3. SumFunctionOnSet(g, S) = SumFunctionOnSet(f, S) + 0
    BY <1>14, <2>2
  <2> QED BY <1>1, <1>6, <1>7, <1>8, <1>9, <1>10, <1>12, <1>16, <2>3 DEF Before
<1> QED BY <1>15, <1>16

\* The child orders once a step has released up to its target.
Released(c, d, target, time) ==
  IF target > d THEN Append(c, [time |-> time, qty |-> target - d]) ELSE c

LEMMA ReleaseAddsUp ==
  ASSUME NEW c \in Seq(Orders), NEW d \in Nat, NEW target \in Nat, d <= target,
         NEW time \in Nat
  PROVE  LET a == Released(c, d, target, time)
         IN  /\ a \in Seq(Orders)
             /\ \A t \in Nat : Before(a, t) = Before(c, t) + (IF time < t THEN target - d ELSE 0)
             /\ Len(c) <= Len(a) /\ Len(a) <= Len(c) + 1
             /\ \A i \in 1 .. Len(c) : a[i] = c[i]
             /\ \A i \in DOMAIN a : i \notin DOMAIN c => a[i].time = time /\ target > d
<1>1. CASE target > d
  <2>1. PICK x : x = [time |-> time, qty |-> target - d]
    OBVIOUS
  <2>2. x \in Orders /\ x.time = time /\ x.qty = target - d
    <3>1. target - d \in Nat \ {0}
      BY <1>1
    <3> QED BY <2>1, <3>1 DEF Orders
  <2>3. PICK a : a = Append(c, x)
    OBVIOUS
  <2>4. /\ a \in Seq(Orders) /\ Len(a) = Len(c) + 1
        /\ \A i \in 1 .. Len(c) : a[i] = c[i]
        /\ a[Len(c) + 1] = x
    BY <2>2, <2>3, AppendProperties
  <2>5. \A t \in Nat : Before(a, t) = Before(c, t) + (IF time < t THEN target - d ELSE 0)
    BY <2>2, <2>3, BeforeAppend
  <2>6. \A i \in DOMAIN a : i \notin DOMAIN c => a[i].time = time /\ target > d
    <3> SUFFICES ASSUME NEW i \in DOMAIN a, i \notin DOMAIN c PROVE i = Len(c) + 1
      BY <1>1, <2>2, <2>4
    <3> QED BY <2>4
  <2>7. Len(c) \in Nat
    OBVIOUS
  <2>8. Released(c, d, target, time) = a
    BY <1>1, <2>1, <2>3 DEF Released
  <2> QED BY <2>4, <2>5, <2>6, <2>7, <2>8
<1>2. CASE ~(target > d)
  <2>1. target = d
    BY <1>2
  <2>2. Released(c, d, target, time) = c
    BY <1>2 DEF Released
  <2>3. \A t \in Nat : Before(c, t) = Before(c, t) + (IF time < t THEN target - d ELSE 0)
    <3> SUFFICES ASSUME NEW t \in Nat
                 PROVE  Before(c, t) = Before(c, t) + (IF time < t THEN target - d ELSE 0)
      OBVIOUS
    <3>1. [time |-> 0, qty |-> 1] \in Orders
      BY DEF Orders
    <3>2. Before(c, t) \in Nat
      BY <3>1, BeforeAppend
    <3> QED BY <2>1, <3>2
  <2>4. Len(c) \in Nat
    OBVIOUS
  <2> QED BY <2>2, <2>3, <2>4
<1> QED BY <1>1, <1>2

----------------------------------------------------------------------------
(* The loops over slices *)

\* After a slices: child orders of at least one unit, at increasing times inside those
\* slices, that add up to the quantity done.
SlicesDone(r, a, d, c) ==
  /\ a \in Nat /\ d \in 0 .. r.qty /\ c \in Seq(Orders)
  /\ \A i \in DOMAIN c : r.start <= c[i].time /\ c[i].time < Boundary(r, a)
  /\ Increasing(c)
  /\ \A t \in Nat : Boundary(r, a) <= t => Before(c, t) = d

LEMMA NoSliceYet ==
  ASSUME NEW r, Sliceable(r), r.qty \in Nat
  PROVE  SlicesDone(r, 0, 0, <<>>)
<1>1. <<>> \in Seq(Orders)
  OBVIOUS
<1> QED BY <1>1, BeforeEmpty DEF SlicesDone, Increasing

LEMMA NextSlice ==
  ASSUME NEW r, Sliceable(r), r.qty \in Nat, NEW a, NEW d, NEW c, SlicesDone(r, a, d, c),
         NEW target \in d .. r.qty, NEW time \in Boundary(r, a) .. Boundary(r, a + 1) - 1,
         NEW b, b = Released(c, d, target, time)
  PROVE  /\ SlicesDone(r, a + 1, target, b)
         /\ \A t \in Nat : t <= Boundary(r, a) => Before(b, t) = Before(c, t)
<1>0. a \in Nat /\ d \in Nat /\ d <= r.qty /\ target \in Nat /\ d <= target /\ target <= r.qty
      /\ c \in Seq(Orders)
  BY DEF SlicesDone
<1>1. PICK now, next : now = Boundary(r, a) /\ next = Boundary(r, a + 1)
  OBVIOUS
<1>2. now \in Nat /\ next \in Nat /\ now < next /\ r.start \in Nat /\ r.start <= now
  <2>1. a + 1 \in Nat /\ 0 \in Nat /\ 0 <= a
    BY <1>0
  <2>2. Boundary(r, 0) = r.start /\ Boundary(r, 0) <= Boundary(r, a)
    BY <1>0, <2>1, Boundaries
  <2> QED BY <1>0, <1>1, <2>1, <2>2, Boundaries DEF Sliceable
<1>3. time \in Nat /\ now <= time /\ time < next
  BY <1>1, <1>2
<1>4. /\ b \in Seq(Orders)
      /\ \A t \in Nat : Before(b, t) = Before(c, t) + (IF time < t THEN target - d ELSE 0)
      /\ Len(c) <= Len(b) /\ Len(b) <= Len(c) + 1
      /\ \A i \in 1 .. Len(c) : b[i] = c[i]
      /\ \A i \in DOMAIN b : i \notin DOMAIN c => b[i].time = time /\ target > d
  BY <1>0, <1>3, ReleaseAddsUp
<1>5. \A i \in DOMAIN c : r.start <= c[i].time /\ c[i].time < now
  BY <1>1 DEF SlicesDone
<1>6. PICK m, n : m = Len(c) /\ n = Len(b)
  OBVIOUS
<1>7. /\ m \in Nat /\ n \in Nat /\ m <= n /\ n <= m + 1
      /\ DOMAIN c = 1 .. m /\ DOMAIN b = 1 .. n
      /\ \A i \in 1 .. m : b[i] = c[i]
  BY <1>0, <1>4, <1>6
<1>8. \A i \in 1 .. n : b[i].time \in Nat
  <2> SUFFICES ASSUME NEW i \in 1 .. n PROVE b[i].time \in Nat
    OBVIOUS
  <2>1. b[i] \in Orders
    BY <1>4, <1>6, <1>7
  <2> QED BY <2>1 DEF Orders
<1>9. \A i \in DOMAIN b : r.start <= b[i].time /\ b[i].time < next
  <2> SUFFICES ASSUME NEW i \in 1 .. n PROVE r.start <= b[i].time /\ b[i].time < next
    BY <1>7
  <2>1. CASE i \in 1 .. m
    <3>1. r.start <= c[i].time /\ c[i].time < now /\ b[i] = c[i]
      BY <2>1, <1>5, <1>7
    <3>2. b[i].time \in Nat
      BY <1>8
    <3> QED BY <3>1, <3>2, <1>2
  <2>2. CASE i \notin 1 .. m
    <3>1. b[i].time = time
      BY <2>2, <1>4, <1>7
    <3> QED BY <3>1, <1>2, <1>3
  <2> QED BY <2>1, <2>2
<1>10. Increasing(b)
  <2> SUFFICES ASSUME NEW i \in 1 .. n, NEW j \in 1 .. i - 1 PROVE b[j].time < b[i].time
    BY <1>7 DEF Increasing
  <2>1. j \in 1 .. m /\ j \in 1 .. n
    BY <1>7
  <2>2. CASE i \in 1 .. m
    <3>1. c[j].time < c[i].time
      BY <2>2, <1>7 DEF SlicesDone, Increasing
    <3> QED BY <2>1, <2>2, <3>1, <1>7
  <2>3. CASE i \notin 1 .. m
    <3>1. b[i].time = time
      BY <2>3, <1>4, <1>7
    <3>2. c[j].time < now /\ b[j] = c[j] /\ b[j].time \in Nat
      BY <2>1, <1>5, <1>7, <1>8
    <3> QED BY <3>1, <3>2, <1>2, <1>3
  <2> QED BY <2>2, <2>3
<1>11. \A t \in Nat : next <= t => Before(b, t) = target
  <2> SUFFICES ASSUME NEW t \in Nat, next <= t PROVE Before(b, t) = target
    OBVIOUS
  <2>1. now <= t /\ time < t
    BY <1>2, <1>3
  <2>2. Before(c, t) = d
    BY <1>1, <2>1 DEF SlicesDone
  <2>3. Before(b, t) = Before(c, t) + (target - d)
    BY <1>4, <2>1
  <2> QED BY <1>0, <2>2, <2>3
<1>12. \A t \in Nat : t <= now => Before(b, t) = Before(c, t)
  <2> SUFFICES ASSUME NEW t \in Nat, t <= now PROVE Before(b, t) = Before(c, t)
    OBVIOUS
  <2>1. ~(time < t)
    BY <1>2, <1>3
  <2>2. Before(b, t) = Before(c, t) + 0
    BY <1>4, <2>1
  <2>3. [time |-> 0, qty |-> 1] \in Orders
    BY DEF Orders
  <2>4. Before(c, t) \in Nat
    BY <1>0, <2>3, BeforeAppend
  <2> QED BY <2>2, <2>4
<1>13. SlicesDone(r, a + 1, target, b)
  BY <1>0, <1>1, <1>4, <1>9, <1>10, <1>11 DEF SlicesDone
<1> QED BY <1>1, <1>12, <1>13

\* TWAP: by the end of each of a slices its even target is released.
EvenSoFar(r, a, c) ==
  \A k \in 0 .. a : Before(c, Boundary(r, k)) = TwapTarget(r.qty, r.slices, k)

LEMMA NextEvenSlice ==
  ASSUME NEW r, Sliceable(r), r.qty \in Nat, NEW a, NEW d, NEW c, SlicesDone(r, a, d, c),
         EvenSoFar(r, a, c), a < r.slices,
         NEW target, target = TwapTarget(r.qty, r.slices, a + 1),
         NEW time \in Boundary(r, a) .. Boundary(r, a + 1) - 1,
         NEW b, b = Released(c, d, target, time)
  PROVE  SlicesDone(r, a + 1, target, b) /\ EvenSoFar(r, a + 1, b)
<1>0. a \in Nat /\ r.slices \in Nat \ {0}
  BY DEF SlicesDone, Sliceable
<1>1. PICK n, q : n = r.slices /\ q = r.qty
  OBVIOUS
<1>2. n \in Nat \ {0} /\ q \in Nat /\ a + 1 \in Nat /\ a < n
  BY <1>0, <1>1
<1>3. \A k \in Nat : Boundary(r, k) \in Nat
  BY Boundaries
<1>4. d = TwapTarget(q, n, a)
  <2>1. Before(c, Boundary(r, a)) = d
    BY <1>0, <1>3 DEF SlicesDone
  <2>2. Before(c, Boundary(r, a)) = TwapTarget(q, n, a)
    BY <1>0, <1>1 DEF EvenSoFar
  <2> QED BY <2>1, <2>2
<1>5. target \in Nat /\ d <= target
  BY <1>0, <1>1, <1>2, <1>4, TwapStaysPaced, TwapNeverFalls
<1>6. target <= q
  <2>1. /\ 2 * (n * target) <= 2 * (q * (a + 1)) + n
        /\ target \in Nat
    BY <1>1, <1>2, TwapStaysPaced
  <2>2. PICK m \in Nat : n = a + 1 + m
    <3>1. n - (a + 1) \in Nat /\ n = a + 1 + (n - (a + 1))
      BY <1>0, <1>2
    <3> QED BY <3>1
  <2>3. q * (a + 1) <= q * n
    <3>1. q * n = q * (a + 1) + q * m /\ q * m \in Nat /\ q * (a + 1) \in Nat
      BY <1>0, <1>2, <2>2
    <3> QED BY <3>1
  <2>4. q * (a + 1) \in Nat /\ q * n \in Nat /\ n * target \in Nat
    BY <1>0, <1>2, <1>5
  <2>5. n * target < q * n + n
    BY <2>1, <2>3, <2>4, <1>2
  <2>6. target * n < (q + 1) * n
    BY <1>2, <1>5, <2>5
  <2>7. target < q + 1
    BY <1>2, <1>5, <2>6, ProductReflects
  <2> QED BY <1>2, <1>5, <2>7
<1>7. d \in Nat /\ target \in d .. r.qty
  BY <1>1, <1>2, <1>5, <1>6 DEF SlicesDone
<1>8. /\ SlicesDone(r, a + 1, target, b)
      /\ \A t \in Nat : t <= Boundary(r, a) => Before(b, t) = Before(c, t)
  BY <1>7, NextSlice
<1>9. ASSUME NEW k \in 0 .. a + 1
      PROVE  Before(b, Boundary(r, k)) = TwapTarget(r.qty, r.slices, k)
  <2>1. CASE k \in 0 .. a
    <3>1. Boundary(r, k) \in Nat /\ Boundary(r, k) <= Boundary(r, a)
      BY <1>0, <2>1, Boundaries
    <3>2. Before(b, Boundary(r, k)) = Before(c, Boundary(r, k))
      BY <1>8, <3>1
    <3> QED BY <2>1, <3>2 DEF EvenSoFar
  <2>2. CASE k = a + 1
    <3>1. Boundary(r, a + 1) \in Nat
      BY <1>2, <1>3
    <3>2. Before(b, Boundary(r, a + 1)) = target
      BY <1>8, <3>1 DEF SlicesDone
    <3> QED BY <2>2, <3>2
  <2> QED BY <1>0, <2>1, <2>2
<1> QED BY <1>8, <1>9 DEF EvenSoFar

\* A followed curve is held between what is done and the whole quantity.
LEMMA ClampBetween ==
  ASSUME NEW x \in Int, NEW low \in Int, NEW high \in Int, low <= high
  PROVE  Clamp(x, low, high) \in low .. high
BY DEF Clamp

LEMMA FloatTargetsType ==
  ASSUME NEW total \in Nat, NEW weight, NEW all
  PROVE  FloatTargets(total, weight, all) \in SUBSET Int
BY DEF FloatTargets

\* The last slice with volume is one of the profile's, and has volume.
LEMMA LastHasVolume ==
  ASSUME NEW weights \in Seq(Int), \A i \in DOMAIN weights : weights[i] >= 0,
         \E i \in DOMAIN weights : weights[i] > 0
  PROVE  LastWithVolume(weights) \in DOMAIN weights /\ weights[LastWithVolume(weights)] > 0
<1>1. PICK n \in Nat : n = Len(weights) /\ DOMAIN weights = 1 .. n
  OBVIOUS
<1>2. \A i \in 1 .. n : weights[i] \in Int
  BY <1>1
<1> DEFINE T == {n - i : i \in {j \in 1 .. n : weights[j] > 0}}
<1>3. T \in SUBSET Nat /\ T # {}
  BY <1>1
<1>4. PICK m \in T : \A x \in T : m <= x
  BY <1>3, LeastNat
<1>5. PICK i \in 1 .. n : m = n - i /\ weights[i] > 0
  BY <1>4
<1>6. \A j \in i + 1 .. Len(weights) : weights[j] = 0
  <2> SUFFICES ASSUME NEW j \in i + 1 .. n, weights[j] # 0 PROVE FALSE
    BY <1>1
  <2>1. j \in 1 .. n
    OBVIOUS
  <2>2. weights[j] > 0
    <3>1. weights[j] \in Int /\ weights[j] >= 0
      BY <1>1, <1>2, <2>1
    <3>2. weights[j] # 0
      OBVIOUS
    <3> QED BY ONLY <3>1, <3>2
  <2>3. n - j \in T
    BY <2>1, <2>2
  <2>4. m <= n - j
    BY <1>4, <2>3
  <2> QED BY <1>5, <2>1, <2>4
<1>7. \E k \in DOMAIN weights : weights[k] > 0 /\ \A j \in k + 1 .. Len(weights) : weights[j] = 0
  BY <1>1, <1>5, <1>6
<1> QED BY <1>7 DEF LastWithVolume

\* VWAP: every child order is at the start of a slice with volume.
VolumeBehindAll(r, a, c) ==
  \A i \in DOMAIN c : \E k \in 0 .. a - 1 : c[i].time = Boundary(r, k) /\ r.weights[k + 1] > 0

LEMMA NextWeightedSlice ==
  ASSUME NEW r, NEW a \in Nat, NEW c \in Seq(Orders), VolumeBehindAll(r, a, c),
         NEW d \in Nat, NEW target \in Nat, d <= target,
         Boundary(r, a) \in Nat, target > d => r.weights[a + 1] > 0,
         NEW b, b = Released(c, d, target, Boundary(r, a))
  PROVE  VolumeBehindAll(r, a + 1, b)
<1> SUFFICES ASSUME NEW i \in DOMAIN b
             PROVE  \E k \in 0 .. a : b[i].time = Boundary(r, k) /\ r.weights[k + 1] > 0
  <2>1. (a + 1) - 1 = a
    OBVIOUS
  <2> QED BY <2>1 DEF VolumeBehindAll
<1>1. /\ b \in Seq(Orders)
      /\ \A j \in 1 .. Len(c) : b[j] = c[j]
      /\ i \notin DOMAIN c => b[i].time = Boundary(r, a) /\ target > d
  BY ReleaseAddsUp
<1>2. CASE i \in DOMAIN c
  <2>1. b[i] = c[i]
    BY <1>1, <1>2
  <2>2. PICK k \in 0 .. a - 1 : c[i].time = Boundary(r, k) /\ r.weights[k + 1] > 0
    BY <1>2 DEF VolumeBehindAll
  <2> QED BY <2>1, <2>2
<1>3. CASE i \notin DOMAIN c
  <2>1. a \in 0 .. a
    OBVIOUS
  <2> QED BY <1>1, <1>3, <2>1
<1> QED BY <1>2, <1>3

----------------------------------------------------------------------------
(* The calls that cut a window into slices *)

Live == outcome \in {"running", "scheduled"}

Slicing == request.kind \in {"twap", "randomized", "vwap", "is"}

\* A call whose loop runs has passed its checks.
CallInv == request \in Requests /\ (Live => ArgumentsOK(request))

SlicedInv ==
  Live /\ Slicing =>
    /\ SlicesDone(request, at, done, children)
    /\ at <= Length /\ (outcome = "scheduled" => at = Length)
    /\ ~Follows => EvenSoFar(request, at, children)
    /\ Follows => ideal \in Int /\ (at = Length => done = request.qty)
    /\ request.kind = "vwap" => /\ VolumeBehindAll(request, at, children)
                                /\ at < Length => ideal <= done \/ done = request.qty

LEMMA CallSteps == CallInv /\ [Next]_vars => CallInv'
<1> SUFFICES ASSUME CallInv, [Next]_vars PROVE CallInv'
  OBVIOUS
<1>1. CASE UNCHANGED vars
  BY <1>1 DEF vars, CallInv, Live
<1>2. CASE Next
  <2>1. request' = request
    BY <1>2 DEF Next, TwapSlice, RandomizedSlice, CurveSlice, PovSkip, PovStop, PovObserve,
                PoolBar, Finish
  <2>2. Live
    BY <1>2 DEF Next, TwapSlice, RandomizedSlice, CurveSlice, PovSkip, PovStop, PovObserve,
                PoolBar, Finish, Running, Live
  <2> QED BY <2>1, <2>2 DEF CallInv
<1> QED BY <1>1, <1>2

\* The length of the loop of an accepted call over slices.
LEMMA SlicedLength ==
  ASSUME CallInv, Live, Slicing
  PROVE  /\ Sliceable(request) /\ request.qty \in Nat \ {0}
         /\ Length \in 1 .. request.slices
         /\ ~Follows => Length = request.slices
         /\ request.kind = "vwap" => request.weights[Length] > 0
<1>1. ArgumentsOK(request) /\ request \in Requests
  BY DEF CallInv
<1>2. Sliceable(request) /\ request.qty \in Nat \ {0}
  BY <1>1 DEF ArgumentsOK, Slicing
<1>3. CASE request.kind = "vwap"
  <2>1. request.weights \in Seq(Int) /\ request.slices = Len(request.weights)
    BY <1>1, <1>3, ScheduleAssumption
  <2>2. WellWeighted(request)
    BY <1>1, <1>3 DEF ArgumentsOK
  <2>3. Length = LastWithVolume(request.weights)
    BY <1>3 DEF Length
  <2>4. Length \in DOMAIN request.weights /\ request.weights[Length] > 0
    BY <2>1, <2>2, <2>3, LastHasVolume DEF WellWeighted
  <2>5. DOMAIN request.weights = 1 .. Len(request.weights)
    BY <2>1
  <2> QED BY <1>2, <1>3, <2>1, <2>4, <2>5 DEF Follows
<1>4. CASE request.kind # "vwap"
  <2>1. Length = request.slices
    BY <1>4 DEF Length, Slicing
  <2> QED BY <1>2, <1>4, <2>1 DEF Sliceable
<1> QED BY <1>3, <1>4

LEMMA SlicedInit == Init => CallInv /\ SlicedInv
<1> SUFFICES ASSUME Init PROVE CallInv /\ SlicedInv
  OBVIOUS
<1>1. CallInv /\ (Live => outcome = "running")
  BY OutcomeOfChecks DEF Init, CallInv, Live
<1>2. /\ at = 0 /\ done = 0 /\ ideal = 0 /\ children = <<>>
  BY DEF Init
<1>3. ASSUME Live, Slicing PROVE SlicedInv
  <2>1. /\ Sliceable(request) /\ request.qty \in Nat /\ request.slices \in Nat \ {0}
        /\ Length \in Nat /\ 0 < Length
    BY <1>1, <1>3, SlicedLength DEF Sliceable
  <2>2. SlicesDone(request, 0, 0, <<>>)
    BY <2>1, NoSliceYet
  <2>3. EvenSoFar(request, 0, <<>>)
    <3>1. \A k \in 0 .. 0 : k = 0
      OBVIOUS
    <3>2. TwapTarget(request.qty, request.slices, 0) = 0
      <4>1. PICK q \in Nat, n \in Nat \ {0} : q = request.qty /\ n = request.slices
        BY <2>1
      <4>2. q \div n \in Nat /\ q % n \in Nat
        OBVIOUS
      <4>3. (q % n) * 0 = 0 /\ (q \div n) * 0 = 0 /\ 0 \div n = 0 /\ 0 % n = 0
        BY <4>2
      <4> QED BY <4>1, <4>3 DEF TwapTarget
    <3> QED BY <3>1, <3>2, BeforeEmpty DEF EvenSoFar
  <2>4. VolumeBehindAll(request, 0, <<>>)
    BY DEF VolumeBehindAll
  <2> QED BY <1>1, <1>2, <1>3, <2>1, <2>2, <2>3, <2>4 DEF SlicedInv
<1>4. ~(Live /\ Slicing) => SlicedInv
  BY DEF SlicedInv
<1> QED BY <1>1, <1>3, <1>4

LEMMA EvenSliceStep ==
  ASSUME CallInv, SlicedInv, Running, Slicing, ~Follows,
         NEW time \in StartOf(at) .. StartOf(at + 1) - 1,
         Release(TwapTarget(request.qty, request.slices, at + 1), time),
         UNCHANGED <<request, outcome, ideal, volume, pooled>>
  PROVE  SlicedInv'
<1>1. Live /\ outcome = "running" /\ at < Length
  BY DEF Running, Live
<1>2. /\ Sliceable(request) /\ request.qty \in Nat /\ Length = request.slices
      /\ request.slices \in Nat
  BY <1>1, SlicedLength DEF Sliceable
<1>3. SlicesDone(request, at, done, children) /\ EvenSoFar(request, at, children) /\ at \in Nat
  BY <1>1 DEF SlicedInv, SlicesDone
<1>4. PICK target : target = TwapTarget(request.qty, request.slices, at + 1)
  OBVIOUS
<1>5. children' = Released(children, done, target, time) /\ done' = target /\ at' = at + 1
  BY <1>4 DEF Release, Released
<1>6. time \in Boundary(request, at) .. Boundary(request, at + 1) - 1
  BY DEF StartOf, Duration, Boundary
<1>7. PICK b : b = children'
  OBVIOUS
<1>8. SlicesDone(request, at + 1, target, b) /\ EvenSoFar(request, at + 1, b)
  BY <1>1, <1>2, <1>3, <1>4, <1>5, <1>6, <1>7, NextEvenSlice
<1>9. /\ request' = request /\ outcome' = "running" /\ Length' = Length /\ ~Follows'
      /\ at' <= Length'
  BY <1>1, <1>2, <1>3, <1>5 DEF Length, Follows
<1>10. request.kind # "vwap"
  BY DEF Follows
<1> QED BY <1>5, <1>7, <1>8, <1>9, <1>10 DEF SlicedInv

LEMMA CurveSliceStep == CallInv /\ SlicedInv /\ CurveSlice => SlicedInv'
<1> SUFFICES ASSUME CallInv, SlicedInv, CurveSlice PROVE SlicedInv'
  OBVIOUS
<1>1. Live /\ Slicing /\ Follows /\ outcome = "running" /\ at < Length
  BY DEF CurveSlice, Running, Live, Follows, Slicing
<1>2. /\ Sliceable(request) /\ request.qty \in Nat \ {0} /\ Length \in Nat
      /\ request.kind = "vwap" => request.weights[Length] > 0
  BY <1>1, SlicedLength DEF Sliceable
<1>3. /\ SlicesDone(request, at, done, children) /\ at \in Nat /\ done \in 0 .. request.qty
      /\ children \in Seq(Orders) /\ ideal \in Int
  BY <1>1 DEF SlicedInv, SlicesDone
<1>4. PICK target : target = IF at + 1 = Length THEN request.qty
                             ELSE Clamp(ideal', done, request.qty)
  OBVIOUS
<1>5. /\ children' = Released(children, done, target, StartOf(at))
      /\ done' = target /\ at' = at + 1
      /\ request' = request /\ outcome' = "running"
  BY <1>1, <1>4 DEF CurveSlice, Release, Released
<1>6. ideal' \in Int
  <2>1. CASE request.kind = "is"
    <3>1. ideal' \in 0 .. request.qty + FloatError
      BY <2>1 DEF CurveSlice, NextIdeals
    <3> QED BY <3>1
  <2>2. CASE request.kind # "is" /\ request.weights[at + 1] = 0
    BY <2>2, <1>3 DEF CurveSlice, NextIdeals
  <2>3. CASE request.kind # "is" /\ request.weights[at + 1] # 0
    <3>1. ideal' \in FloatTargets(request.qty, WeightUpTo(request.weights, at + 1),
                                  WeightUpTo(request.weights, Len(request.weights)))
      BY <2>3 DEF CurveSlice, NextIdeals
    <3> QED BY <1>2, <3>1, FloatTargetsType
  <2> QED BY <2>1, <2>2, <2>3
<1>7. target \in done .. request.qty
  <2>1. Clamp(ideal', done, request.qty) \in done .. request.qty
    <3>1. done \in Int /\ request.qty \in Int /\ done <= request.qty
      BY <1>2, <1>3
    <3> QED BY <1>6, <3>1, ClampBetween
  <2>2. request.qty \in done .. request.qty
    BY <1>2, <1>3
  <2> QED BY <1>4, <2>1, <2>2
<1>8. StartOf(at) = Boundary(request, at)
  BY DEF StartOf, Duration, Boundary
<1>9. Boundary(request, at) \in Nat /\ Boundary(request, at + 1) \in Nat
      /\ Boundary(request, at) \in Boundary(request, at) .. Boundary(request, at + 1) - 1
  <2>1. at + 1 \in Nat
    BY <1>3
  <2>2. /\ Boundary(request, at) \in Nat /\ Boundary(request, at + 1) \in Nat
        /\ Boundary(request, at) < Boundary(request, at + 1)
    BY <1>2, <1>3, <2>1, Boundaries
  <2> QED BY <2>2
<1>10. PICK b : b = children'
  OBVIOUS
<1>11. b = Released(children, done, target, Boundary(request, at))
  BY <1>5, <1>8, <1>10
<1>12. SlicesDone(request, at + 1, target, b)
  BY <1>2, <1>3, <1>7, <1>9, <1>11, NextSlice
<1>13. /\ Length' = Length /\ Follows' /\ at' <= Length'
       /\ at + 1 = Length => target = request.qty
  BY <1>1, <1>2, <1>3, <1>4, <1>5 DEF Length, Follows
<1>14. ASSUME request.kind = "vwap"
       PROVE  /\ VolumeBehindAll(request, at + 1, b)
              /\ at + 1 < Length => ideal' <= target \/ target = request.qty
  <2>1. VolumeBehindAll(request, at, children) /\ (ideal <= done \/ done = request.qty)
    BY <1>1, <1>14 DEF SlicedInv
  <2>2. target > done => request.weights[at + 1] > 0
    <3> SUFFICES ASSUME target > done, ~(request.weights[at + 1] > 0) PROVE FALSE
      OBVIOUS
    <3>1. at + 1 # Length
      BY <1>2, <1>14
    <3>2. /\ Length \in 1 .. request.slices /\ request.slices = Len(request.weights)
          /\ request.weights \in Seq(Int) /\ WellWeighted(request)
      BY <1>1, <1>14, SlicedLength, ScheduleAssumption DEF CallInv, ArgumentsOK
    <3>3. at + 1 \in DOMAIN request.weights
      BY <1>1, <1>3, <3>2
    <3>4. request.weights[at + 1] \in Int /\ request.weights[at + 1] >= 0
      BY <3>2, <3>3 DEF WellWeighted
    <3>5. request.weights[at + 1] = 0
      BY <3>4
    <3>6. ideal' = ideal
      BY <1>14, <3>5 DEF CurveSlice, NextIdeals
    <3>7. target = Clamp(ideal, done, request.qty)
      BY <1>4, <3>1, <3>6
    <3> QED BY <1>2, <1>3, <2>1, <3>7 DEF Clamp
  <2>3. VolumeBehindAll(request, at + 1, b)
    <3>1. done \in Nat /\ target \in Nat /\ done <= target
      BY <1>2, <1>3, <1>7
    <3> QED BY <1>3, <1>9, <1>11, <2>1, <2>2, <3>1, NextWeightedSlice
  <2>4. at + 1 < Length => ideal' <= target \/ target = request.qty
    <3> SUFFICES ASSUME at + 1 < Length PROVE ideal' <= target \/ target = request.qty
      OBVIOUS
    <3>1. target = Clamp(ideal', done, request.qty)
      BY <1>2, <1>3, <1>4
    <3> QED BY <1>2, <1>3, <1>6, <3>1 DEF Clamp
  <2> QED BY <2>3, <2>4
<1> QED BY <1>5, <1>6, <1>10, <1>12, <1>13, <1>14 DEF SlicedInv

LEMMA SlicedSteps == CallInv /\ SlicedInv /\ [Next]_vars => SlicedInv'
<1> SUFFICES ASSUME CallInv, SlicedInv, [Next]_vars PROVE SlicedInv'
  OBVIOUS
<1>1. CASE TwapSlice
  <2>1. Slicing /\ ~Follows /\ Running
    BY <1>1 DEF TwapSlice, Slicing, Follows
  <2>2. StartOf(at) \in StartOf(at) .. StartOf(at + 1) - 1
    <3>1. Sliceable(request)
      BY <2>1, SlicedLength DEF Running, Live
    <3>2. at \in Nat /\ at + 1 \in Nat
      BY <2>1 DEF SlicedInv, SlicesDone, Running, Live
    <3>3. /\ Boundary(request, at) \in Nat /\ Boundary(request, at + 1) \in Nat
          /\ Boundary(request, at) < Boundary(request, at + 1)
      BY <3>1, <3>2, Boundaries
    <3>4. StartOf(at) = Boundary(request, at) /\ StartOf(at + 1) = Boundary(request, at + 1)
      BY DEF StartOf, Duration, Boundary
    <3> QED BY <3>3, <3>4
  <2>3. /\ Release(TwapTarget(request.qty, request.slices, at + 1), StartOf(at))
        /\ UNCHANGED <<request, outcome, ideal, volume, pooled>>
    BY <1>1 DEF TwapSlice
  <2> QED BY <2>1, <2>2, <2>3, EvenSliceStep
<1>2. CASE RandomizedSlice
  <2>1. Slicing /\ ~Follows /\ Running
    BY <1>2 DEF RandomizedSlice, Slicing, Follows
  <2>2. PICK time \in StartOf(at) .. StartOf(at + 1) - 1 :
          Release(TwapTarget(request.qty, request.slices, at + 1), time)
    BY <1>2 DEF RandomizedSlice
  <2>3. UNCHANGED <<request, outcome, ideal, volume, pooled>>
    BY <1>2 DEF RandomizedSlice
  <2> QED BY <2>1, <2>2, <2>3, EvenSliceStep
<1>3. CASE CurveSlice
  BY <1>3, CurveSliceStep
<1>4. CASE PovSkip \/ PovStop \/ PovObserve \/ PoolBar
  <2>1. ~Slicing'
    BY <1>4 DEF PovSkip, PovStop, PovObserve, PoolBar, Slicing
  <2> QED BY <2>1 DEF SlicedInv
<1>5. CASE Finish
  <2>1. /\ outcome = "running" /\ Live /\ at = Length
        /\ request' = request /\ at' = at /\ done' = done /\ ideal' = ideal
        /\ children' = children
    BY <1>5 DEF Finish, Live
  <2>2. Length' = Length /\ Follows' = Follows /\ Slicing' = Slicing
    BY <2>1 DEF Length, Follows, Slicing
  <2> QED BY <2>1, <2>2 DEF SlicedInv
<1>6. CASE UNCHANGED vars
  BY <1>6 DEF vars, SlicedInv, Length, Follows, Slicing, Live
<1> QED BY <1>1, <1>2, <1>3, <1>4, <1>5, <1>6 DEF Next

LEMMA QtyBeforeIsBefore == \A time : QtyBefore(time) = Before(children, time)
BY DEF QtyBefore, Before

LEMMA SlicedExecutable ==
  CallInv /\ SlicedInv /\ outcome = "scheduled" /\ Slicing =>
    /\ children \in Seq(Orders) /\ Increasing(children)
    /\ \A i \in DOMAIN children : request.start <= children[i].time /\ children[i].time < request.end
    /\ QtyBefore(request.end) = request.qty
<1> SUFFICES ASSUME CallInv, SlicedInv, outcome = "scheduled", Slicing
    PROVE /\ children \in Seq(Orders) /\ Increasing(children)
          /\ \A i \in DOMAIN children : request.start <= children[i].time /\ children[i].time < request.end
          /\ QtyBefore(request.end) = request.qty
  OBVIOUS
<1>1. /\ Sliceable(request) /\ request.qty \in Nat /\ Length \in 1 .. request.slices
      /\ request.slices \in Nat /\ request.end \in Nat
      /\ ~Follows => Length = request.slices
  BY SlicedLength DEF Live, Sliceable
<1>2. SlicesDone(request, at, done, children) /\ at = Length
  BY DEF SlicedInv, Live
<1>3. /\ Boundary(request, at) \in Nat /\ Boundary(request, at) <= request.end
      /\ Boundary(request, request.slices) = request.end
  <2>1. at \in Nat /\ at <= request.slices
    BY <1>1, <1>2
  <2> QED BY <1>1, <2>1, Boundaries
<1>4. \A i \in DOMAIN children : children[i].time \in Nat
  <2> SUFFICES ASSUME NEW i \in DOMAIN children PROVE children[i].time \in Nat
    OBVIOUS
  <2>1. children \in Seq(Orders)
    BY <1>2 DEF SlicesDone
  <2>2. children[i] \in Orders
    BY <2>1
  <2> QED BY <2>2 DEF Orders
<1>5. \A i \in DOMAIN children : request.start <= children[i].time /\ children[i].time < request.end
  BY <1>1, <1>2, <1>3, <1>4 DEF SlicesDone
<1>6. Before(children, request.end) = done
  BY <1>1, <1>2, <1>3 DEF SlicesDone
<1>7. done = request.qty
  <2>1. CASE Follows
    BY <1>2, <2>1 DEF SlicedInv, Live
  <2>2. CASE ~Follows
    <3>1. EvenSoFar(request, at, children)
      BY <2>2 DEF SlicedInv, Live
    <3>2. request.slices \in 0 .. at /\ request.slices \in Nat \ {0}
      BY <1>1, <1>2, <2>2
    <3>3. Before(children, request.end) = TwapTarget(request.qty, request.slices, request.slices)
      BY <1>3, <3>1, <3>2 DEF EvenSoFar
    <3>4. TwapTarget(request.qty, request.slices, request.slices) = request.qty
      BY <1>1, <3>2, TwapStaysPaced
    <3> QED BY <1>6, <3>3, <3>4
  <2> QED BY <2>1, <2>2
<1> QED BY <1>2, <1>5, <1>6, <1>7, QtyBeforeIsBefore DEF SlicesDone

LEMMA PacedEvenlyHolds == CallInv /\ SlicedInv => PacedEvenly
<1> SUFFICES ASSUME CallInv, SlicedInv, Scheduled, request.kind \in {"twap", "randomized"},
                    NEW k \in 1 .. request.slices
             PROVE  LET ahead == 2 * (QtyBefore(StartOf(k)) * request.slices - request.qty * k)
                    IN  -request.slices <= ahead /\ ahead <= request.slices
  BY DEF PacedEvenly
<1>1. Live /\ Slicing /\ ~Follows /\ outcome = "scheduled"
  BY DEF Scheduled, Live, Slicing, Follows
<1>2. /\ request.qty \in Nat /\ request.slices \in Nat \ {0} /\ Length = request.slices
  BY <1>1, SlicedLength DEF Sliceable
<1>3. EvenSoFar(request, request.slices, children)
  BY <1>1, <1>2 DEF SlicedInv
<1>4. PICK q \in Nat, n \in Nat \ {0} : q = request.qty /\ n = request.slices
  BY <1>2
<1>5. PICK x : x = QtyBefore(StartOf(k))
  OBVIOUS
<1>6. x = TwapTarget(q, n, k)
  <2>1. k \in 0 .. request.slices
    BY <1>2
  <2>2. Before(children, Boundary(request, k)) = TwapTarget(request.qty, request.slices, k)
    BY <1>3, <2>1 DEF EvenSoFar
  <2>3. StartOf(k) = Boundary(request, k)
    BY DEF StartOf, Duration, Boundary
  <2> QED BY <1>4, <1>5, <2>2, <2>3, QtyBeforeIsBefore
<1>7. k \in Nat
  BY <1>2
<1>8. x \in Nat /\ 2 * (q * k) - n < 2 * (n * x) /\ 2 * (n * x) <= 2 * (q * k) + n
  BY <1>4, <1>6, <1>7, TwapStaysPaced
<1>9. x * n = n * x /\ n * x \in Nat /\ q * k \in Nat
  BY <1>4, <1>7, <1>8
<1>10. -n <= 2 * (x * n - q * k) /\ 2 * (x * n - q * k) <= n
  BY <1>4, <1>8, <1>9
<1> QED BY <1>4, <1>5, <1>10

LEMMA NoVolumeNoOrderHolds == CallInv /\ SlicedInv => NoVolumeNoOrder
<1> SUFFICES ASSUME CallInv, SlicedInv, Scheduled, request.kind = "vwap",
                    NEW i \in DOMAIN children
             PROVE  request.weights[1 + SliceContaining(children[i].time - request.start,
                                                        Duration, request.slices)] > 0
  BY DEF NoVolumeNoOrder
<1>1. Live /\ Slicing /\ outcome = "scheduled"
  BY DEF Scheduled, Live, Slicing
<1>2. /\ Sliceable(request) /\ Length \in 1 .. request.slices /\ request.slices \in Nat
      /\ request.start \in Nat /\ request.end \in Nat
  BY <1>1, SlicedLength DEF Sliceable
<1>3. VolumeBehindAll(request, at, children) /\ at = Length
  BY <1>1 DEF SlicedInv
<1>4. PICK k \in 0 .. at - 1 : /\ children[i].time = Boundary(request, k)
                               /\ request.weights[k + 1] > 0
  BY <1>3 DEF VolumeBehindAll
<1>5. k \in Nat /\ k < request.slices /\ k + 1 = 1 + k
  BY <1>2, <1>3
<1>6. PICK time : time = children[i].time
  OBVIOUS
<1>7. time \in request.start .. request.end - 1
  <2>1. request.start <= time /\ time < request.end
    BY <1>1, <1>6, SlicedExecutable
  <2>2. time \in Nat
    BY <1>2, <1>4, <1>5, <1>6, Boundaries
  <2> QED BY <1>2, <2>1, <2>2
<1>8. Boundary(request, k) <= time /\ time < Boundary(request, k + 1)
  <2>1. Boundary(request, k) \in Nat /\ Boundary(request, k) < Boundary(request, k + 1)
    BY <1>2, <1>5, Boundaries
  <2> QED BY <1>4, <1>6, <2>1
<1>9. k = SliceContaining(time - request.start, request.end - request.start, request.slices)
  BY <1>2, <1>5, <1>7, <1>8, OneSlice
<1> QED BY <1>4, <1>5, <1>6, <1>9 DEF Duration

----------------------------------------------------------------------------
(* POV *)

Vol(r, places) ==
  SumFunctionOnSet([i \in DOMAIN r.prints |-> r.prints[i].volume], places)

\* Of the first a observations, those of the window before a time.
Seen(r, a, time) == {i \in 1 .. a : r.prints[i].time >= r.start /\ r.prints[i].time < time}

\* The quantity due for a volume: its rate of it, at most the whole.
Due(r, v) == IF (v * r.rate) \div FullRate > r.qty THEN r.qty ELSE (v * r.rate) \div FullRate

\* After a observations: the volume v of those in the window, and child orders that at
\* every time make up what was due by then.
Participated(r, a, v, d, c) ==
  /\ a \in 0 .. Len(r.prints) /\ c \in Seq(Orders) /\ Increasing(c)
  /\ \A i \in 1 .. a : r.prints[i].time < r.end
  /\ \A i \in DOMAIN c : /\ r.start <= c[i].time /\ c[i].time < r.end
                         /\ \E j \in 1 .. a : c[i].time <= r.prints[j].time
  /\ v = Vol(r, Seen(r, a, r.end)) /\ d = Due(r, v)
  /\ \A t \in Nat : Before(c, t) = Due(r, Vol(r, Seen(r, a, t)))

LEMMA PrintTypes ==
  ASSUME NEW r, r.prints \in Seq([time : Nat, volume : Nat])
  PROVE  /\ Len(r.prints) \in Nat /\ DOMAIN r.prints = 1 .. Len(r.prints)
         /\ \A i \in 1 .. Len(r.prints) : r.prints[i].time \in Nat /\ r.prints[i].volume \in Nat
<1>1. PICK p : p = r.prints
  OBVIOUS
<1>2. p \in Seq([time : Nat, volume : Nat])
  BY <1>1
<1>3. Len(p) \in Nat /\ DOMAIN p = 1 .. Len(p)
  BY <1>2
<1>4. \A i \in 1 .. Len(p) : p[i].time \in Nat /\ p[i].volume \in Nat
  <2> SUFFICES ASSUME NEW i \in 1 .. Len(p) PROVE p[i].time \in Nat /\ p[i].volume \in Nat
    OBVIOUS
  <2>1. p[i] \in [time : Nat, volume : Nat]
    BY <1>2, ElementOfSeq
  <2> QED BY <2>1
<1> QED BY <1>1, <1>3, <1>4

LEMMA Volumes ==
  ASSUME NEW r, r.prints \in Seq([time : Nat, volume : Nat]),
         NEW T \in SUBSET (1 .. Len(r.prints))
  PROVE  /\ Vol(r, T) \in Nat
         /\ \A S \in SUBSET T : Vol(r, S) \in Nat /\ Vol(r, S) <= Vol(r, T)
         /\ \A i \in 1 .. Len(r.prints) :
              i \notin T => Vol(r, T \cup {i}) = Vol(r, T) + r.prints[i].volume
<1>1. PICK n \in Nat : n = Len(r.prints)
  BY PrintTypes
<1>2. PICK f : f = [i \in DOMAIN r.prints |-> r.prints[i].volume]
  OBVIOUS
<1>3. \A i \in 1 .. n : f[i] = r.prints[i].volume /\ f[i] \in Nat
  BY <1>1, <1>2, PrintTypes
<1>4. \A S : Vol(r, S) = SumFunctionOnSet(f, S)
  BY <1>2 DEF Vol
<1>5. IsFiniteSet(1 .. n) /\ T \in SUBSET (1 .. n)
  <2>1. n \in Int /\ 1 \in Int
    OBVIOUS
  <2> QED BY <1>1, <2>1, FS_Interval
<1>6. \A S \in SUBSET (1 .. n) : IsFiniteSet(S) /\ SumFunctionOnSet(f, S) \in Nat
  <2> SUFFICES ASSUME NEW S \in SUBSET (1 .. n)
               PROVE  IsFiniteSet(S) /\ SumFunctionOnSet(f, S) \in Nat
    OBVIOUS
  <2>1. IsFiniteSet(S) /\ \A i \in S : f[i] \in Nat
    BY <1>3, <1>5, FS_Subset
  <2> QED BY <2>1, SumOfNaturals
<1>7. \A S \in SUBSET T : SumFunctionOnSet(f, S) <= SumFunctionOnSet(f, T)
  <2> SUFFICES ASSUME NEW S \in SUBSET T
               PROVE  SumFunctionOnSet(f, S) <= SumFunctionOnSet(f, T)
    OBVIOUS
  <2>1. PICK R : R = T \ S
    OBVIOUS
  <2>2. S \cup R = T /\ S \cap R = {} /\ S \in SUBSET (1 .. n) /\ R \in SUBSET (1 .. n)
    BY <1>5, <2>1
  <2>3. \A i \in S \cup R : f[i] \in Int
    BY <1>3, <2>2
  <2>4. IsFiniteSet(S) /\ IsFiniteSet(R)
    BY <1>6, <2>2
  <2>5. SumFunctionOnSet(f, S \cup R) = SumFunctionOnSet(f, S) + SumFunctionOnSet(f, R)
    BY <2>2, <2>3, <2>4, SumUnion
  <2>6. SumFunctionOnSet(f, S) \in Nat /\ SumFunctionOnSet(f, R) \in Nat
    BY <1>6, <2>2
  <2>7. SumFunctionOnSet(f, T) = SumFunctionOnSet(f, S) + SumFunctionOnSet(f, R)
    BY <2>2, <2>5
  <2> QED BY <2>6, <2>7
<1>8. \A i \in 1 .. n : i \notin T =>
        SumFunctionOnSet(f, T \cup {i}) = SumFunctionOnSet(f, T) + f[i]
  <2> SUFFICES ASSUME NEW i \in 1 .. n, i \notin T
               PROVE  SumFunctionOnSet(f, T \cup {i}) = SumFunctionOnSet(f, T) + f[i]
    OBVIOUS
  <2>1. IsFiniteSet(T) /\ SumFunctionOnSet(f, T) \in Nat
    BY <1>5, <1>6
  <2>2. f[i] \in Int /\ \A y \in T : f[y] \in Int
    BY <1>3, <1>5
  <2>3. SumFunctionOnSet(f, T \cup {i}) = f[i] + SumFunctionOnSet(f, T)
    BY <2>1, <2>2, SumAdd
  <2> QED BY <2>1, <2>2, <2>3
<1> QED BY <1>1, <1>3, <1>4, <1>5, <1>6, <1>7, <1>8

LEMMA DueGrows ==
  ASSUME NEW r, r.rate \in Nat, r.qty \in Nat
  PROVE  /\ \A v \in Nat : Due(r, v) \in 0 .. r.qty
         /\ \A v, w \in Nat : v <= w => Due(r, v) <= Due(r, w)
         /\ Due(r, 0) = 0
         /\ \A v \in Nat : Clamp((v * r.rate) \div FullRate, 0, r.qty) = Due(r, v)
<1>1. PICK rate \in Nat, q \in Nat, full \in Nat \ {0} :
        rate = r.rate /\ q = r.qty /\ full = FullRate
  BY ScheduleAssumption
<1>2. \A v : Due(r, v) = IF (v * rate) \div full > q THEN q ELSE (v * rate) \div full
  BY <1>1 DEF Due
<1>3. \A v \in Nat : v * rate \in Nat /\ (v * rate) \div full \in Nat
  <2> SUFFICES ASSUME NEW v \in Nat PROVE v * rate \in Nat /\ (v * rate) \div full \in Nat
    OBVIOUS
  <2>1. v * rate \in Nat
    OBVIOUS
  <2> QED BY <2>1, DivisionBounds
<1>4. ASSUME NEW v \in Nat, NEW w \in Nat, v <= w
      PROVE  (v * rate) \div full <= (w * rate) \div full
  <2>1. PICK m \in Nat : w = v + m
    <3>1. w - v \in Nat /\ w = v + (w - v)
      BY <1>4
    <3> QED BY <3>1
  <2>2. w * rate = v * rate + m * rate /\ m * rate \in Nat /\ v * rate \in Nat /\ w * rate \in Nat
    BY <2>1
  <2>3. v * rate <= w * rate
    BY <2>2
  <2> QED BY <2>2, <2>3, DivisionMonotone
<1>5. (0 * rate) \div full = 0
  <2>1. 0 * rate = 0
    OBVIOUS
  <2> QED BY <2>1
<1>6. ASSUME NEW v \in Nat, NEW w \in Nat, v <= w PROVE Due(r, v) <= Due(r, w)
  BY <1>2, <1>3, <1>4, <1>6
<1>7. ASSUME NEW v \in Nat
      PROVE  Due(r, v) \in 0 .. r.qty /\ Clamp((v * r.rate) \div FullRate, 0, r.qty) = Due(r, v)
  <2>1. PICK x \in Nat : x = (v * rate) \div full
    BY <1>3
  <2>2. Due(r, v) = IF x > q THEN q ELSE x
    BY <1>2, <2>1
  <2>3. Clamp((v * r.rate) \div FullRate, 0, r.qty) = Clamp(x, 0, q)
    BY <1>1, <2>1
  <2>4. Clamp(x, 0, q) = IF x > q THEN q ELSE x
    BY DEF Clamp
  <2> QED BY <1>1, <2>2, <2>3, <2>4
<1>9. Due(r, 0) = 0
  BY <1>2, <1>5
<1> QED BY <1>6, <1>7, <1>9

LEMMA NothingSeen ==
  ASSUME NEW r, Observed(r)
  PROVE  Participated(r, 0, 0, 0, <<>>)
<1>1. \A t : Seen(r, 0, t) = {}
  BY DEF Seen
<1>2. Vol(r, {}) = 0
  BY SumEmpty DEF Vol
<1>3. Due(r, 0) = 0
  BY DueGrows DEF Observed
<1>4. Len(r.prints) \in Nat
  BY PrintTypes DEF Observed
<1>5. <<>> \in Seq(Orders) /\ Increasing(<<>>)
  BY DEF Increasing
<1>6. 0 \in 0 .. Len(r.prints) /\ \A i \in 1 .. 0 : FALSE
  BY <1>4
<1>7. \A t \in Nat : Before(<<>>, t) = Due(r, Vol(r, Seen(r, 0, t)))
  BY <1>1, <1>2, <1>3, BeforeEmpty
<1>8. \A i \in DOMAIN <<>> : FALSE
  OBVIOUS
<1> QED BY <1>1, <1>2, <1>3, <1>5, <1>6, <1>7, <1>8 DEF Participated

\* What is seen of one more observation.
LEMMA SeenNext ==
  ASSUME NEW r, Observed(r), NEW a \in Nat, a < Len(r.prints)
  PROVE  /\ \A t : Seen(r, a, t) \in SUBSET (1 .. a) /\ a + 1 \notin Seen(r, a, t)
         /\ \A t \in Nat :
              r.prints[a + 1].time < r.start \/ t <= r.prints[a + 1].time =>
                Seen(r, a + 1, t) = Seen(r, a, t)
         /\ \A t \in Nat :
              r.prints[a + 1].time >= r.start /\ r.prints[a + 1].time < t =>
                /\ Seen(r, a + 1, t) = Seen(r, a, t) \cup {a + 1}
                /\ \A u \in Nat : r.prints[a + 1].time < u => Seen(r, a, t) = Seen(r, a, u)
<1>1. PICK n \in Nat : n = Len(r.prints) /\ DOMAIN r.prints = 1 .. n
  BY PrintTypes DEF Observed
<1>2. /\ \A i \in 1 .. n : r.prints[i].time \in Nat
      /\ \A i, j \in 1 .. n : i <= j => r.prints[i].time <= r.prints[j].time
      /\ r.start \in Nat
  BY <1>1, PrintTypes DEF Observed
<1>3. a + 1 \in 1 .. n /\ \A i \in 1 .. a : i \in 1 .. n /\ i <= a + 1
  BY <1>1
<1>4. \A i : i \in 1 .. a + 1 <=> i \in 1 .. a \/ i = a + 1
  OBVIOUS
<1>5. a + 1 \notin 1 .. a
  OBVIOUS
<1>6. PICK last \in Nat : last = r.prints[a + 1].time
  BY <1>2, <1>3
<1>7. \A i \in 1 .. a : r.prints[i].time \in Nat /\ r.prints[i].time <= last
  BY <1>2, <1>3, <1>6
<1>8. \A t : Seen(r, a, t) \in SUBSET (1 .. a) /\ a + 1 \notin Seen(r, a, t)
  BY <1>5 DEF Seen
<1>9. ASSUME NEW t \in Nat, last < r.start \/ t <= last
      PROVE  Seen(r, a + 1, t) = Seen(r, a, t)
  <2>1. ~(last >= r.start /\ last < t)
    BY <1>2, <1>9
  <2> QED BY <1>4, <1>6, <2>1 DEF Seen
<1>10. ASSUME NEW t \in Nat, last >= r.start, last < t
       PROVE  Seen(r, a + 1, t) = Seen(r, a, t) \cup {a + 1}
  BY <1>4, <1>6, <1>10 DEF Seen
<1>11. ASSUME NEW t \in Nat, last < t, NEW u \in Nat, last < u
       PROVE  Seen(r, a, t) = Seen(r, a, u)
  <2>1. \A i \in 1 .. a : r.prints[i].time < t /\ r.prints[i].time < u
    BY <1>7, <1>11
  <2> QED BY <2>1 DEF Seen
<1> QED BY <1>6, <1>8, <1>9, <1>10, <1>11

LEMMA SkipObservation ==
  ASSUME NEW r, Observed(r), NEW a, NEW v, NEW d, NEW c, Participated(r, a, v, d, c),
         a < Len(r.prints), r.prints[a + 1].time < r.start
  PROVE  Participated(r, a + 1, v, d, c)
<1>1. PICK n \in Nat : n = Len(r.prints)
  BY PrintTypes DEF Observed
<1>2. a \in Nat /\ a + 1 \in 0 .. n /\ a < n /\ a + 1 \in 1 .. n
  BY <1>1 DEF Participated
<1>3. r.start \in Nat /\ r.end \in Nat /\ r.start < r.end /\ r.prints[a + 1].time \in Nat
  BY <1>1, <1>2, PrintTypes DEF Observed
<1>4. \A t \in Nat : Seen(r, a + 1, t) = Seen(r, a, t)
  BY <1>2, SeenNext
<1>5. \A i : i \in 1 .. a + 1 <=> i \in 1 .. a \/ i = a + 1
  BY <1>2
<1>6. \A i \in 1 .. a + 1 : r.prints[i].time < r.end
  BY <1>3, <1>5 DEF Participated
<1>7. \A i \in DOMAIN c : /\ r.start <= c[i].time /\ c[i].time < r.end
                          /\ \E j \in 1 .. a + 1 : c[i].time <= r.prints[j].time
  BY <1>5 DEF Participated
<1> QED BY <1>1, <1>2, <1>3, <1>4, <1>6, <1>7 DEF Participated

\* The child orders once an observation of a time has released up to its target: those
\* of one time share one.
Shared(c, d, target, time) ==
  IF target > d /\ c # <<>> /\ c[Len(c)].time = time
  THEN [c EXCEPT ![Len(c)].qty = @ + target - d]
  ELSE Released(c, d, target, time)

UpTo(c, time) == \A i \in DOMAIN c : c[i].time <= time

\* b has so much more than c from a time on, and no other times than c's and that one.
MoreFrom(b, c, time, extra) ==
  /\ \A t \in Nat : Before(b, t) = Before(c, t) + (IF time < t THEN extra ELSE 0)
  /\ \A i \in DOMAIN b : b[i].time = time \/ (i \in DOMAIN c /\ b[i].time = c[i].time)

LEMMA SharedAddsUp ==
  ASSUME NEW c \in Seq(Orders), Increasing(c), NEW d \in Nat, NEW target \in Nat, d <= target,
         NEW time \in Nat, UpTo(c, time), NEW b, b = Shared(c, d, target, time)
  PROVE  b \in Seq(Orders) /\ Increasing(b) /\ MoreFrom(b, c, time, target - d)
<1>1. PICK m \in Nat : m = Len(c) /\ DOMAIN c = 1 .. m
  OBVIOUS
<1>2. \A i \in 1 .. m : c[i].time \in Nat /\ c[i].qty \in Nat
  <2> SUFFICES ASSUME NEW i \in 1 .. m PROVE c[i].time \in Nat /\ c[i].qty \in Nat
    OBVIOUS
  <2>1. c[i] \in Orders
    BY <1>1
  <2> QED BY <2>1 DEF Orders
<1>3. b = Shared(c, d, target, time) /\ \A i \in DOMAIN c : c[i].time <= time
  BY DEF UpTo
<1>4. CASE target > d /\ c # <<>> /\ c[m].time = time
  <2>1. PICK extra \in Nat : extra = target - d
    BY <1>4
  <2>2. m \in 1 .. m /\ m = Len(c)
    BY <1>1, <1>4
  <2>3. b = [c EXCEPT ![Len(c)].qty = @ + target - d]
    BY <1>1, <1>3, <1>4 DEF Shared
  <2>4. b = Enlarged(c, extra)
    <3>1. c[m].qty + target - d = c[m].qty + extra
      BY <1>2, <2>1, <2>2
    <3> QED BY <1>1, <2>3, <3>1 DEF Enlarged
  <2>5. /\ b \in Seq(Orders) /\ Len(b) = m
        /\ \A i \in 1 .. m : b[i].time = c[i].time
        /\ \A t \in Nat : Before(b, t) = Before(c, t) + (IF time < t THEN extra ELSE 0)
    <3>1. c \in Seq(Orders) /\ c # <<>> /\ extra \in Nat /\ b = Enlarged(c, extra)
      BY <1>4, <2>4
    <3>2. [time |-> 0, qty |-> 1] \in Orders /\ 0 \in Nat
      BY DEF Orders
    <3>3. /\ b \in Seq(Orders) /\ Len(b) = Len(c)
          /\ \A i \in 1 .. Len(c) : b[i].time = c[i].time
      BY ONLY <3>1, <3>2, BeforeEnlarged
    <3>4. \A t \in Nat :
            Before(b, t) = Before(c, t) + (IF c[Len(c)].time < t THEN extra ELSE 0)
      BY ONLY <3>1, BeforeEnlarged
    <3> QED BY <1>1, <1>4, <3>3, <3>4
  <2>6. DOMAIN b = 1 .. m
    BY <2>5
  <2>7. Increasing(b)
    <3> SUFFICES ASSUME NEW i \in 1 .. m, NEW j \in 1 .. i - 1 PROVE b[j].time < b[i].time
      BY <2>6 DEF Increasing
    <3>1. j \in 1 .. m /\ c[j].time < c[i].time
      BY <1>1 DEF Increasing
    <3> QED BY <2>5, <3>1
  <2>8. MoreFrom(b, c, time, target - d)
    BY <1>1, <2>1, <2>5, <2>6 DEF MoreFrom
  <2> QED BY <2>5, <2>7, <2>8
<1>5. CASE ~(target > d /\ c # <<>> /\ c[m].time = time)
  <2>1. b = Released(c, d, target, time)
    BY <1>1, <1>3, <1>5 DEF Shared
  <2>2. /\ b \in Seq(Orders)
        /\ \A t \in Nat : Before(b, t) = Before(c, t) + (IF time < t THEN target - d ELSE 0)
        /\ Len(c) <= Len(b) /\ Len(b) <= Len(c) + 1
        /\ \A i \in 1 .. Len(c) : b[i] = c[i]
        /\ \A i \in DOMAIN b : i \notin DOMAIN c => b[i].time = time /\ target > d
    <3>1. /\ c \in Seq(Orders) /\ d \in Nat /\ target \in Nat /\ d <= target /\ time \in Nat
          /\ b = Released(c, d, target, time)
      BY <2>1
    <3> QED BY ONLY <3>1, ReleaseAddsUp
  <2>3. PICK n \in Nat : n = Len(b) /\ DOMAIN b = 1 .. n /\ m <= n /\ n <= m + 1
    BY <1>1, <2>2
  <2>4. Increasing(b)
    <3> SUFFICES ASSUME NEW i \in 1 .. n, NEW j \in 1 .. i - 1 PROVE b[j].time < b[i].time
      BY <2>3 DEF Increasing
    <3>1. j \in 1 .. m
      BY <2>3
    <3>2. b[j] = c[j]
      BY <1>1, <2>2, <3>1
    <3>3. CASE i \in 1 .. m
      <4>1. c[j].time < c[i].time /\ b[i] = c[i]
        BY <1>1, <2>2, <3>3 DEF Increasing
      <4> QED BY <3>2, <4>1
    <3>4. CASE i \notin 1 .. m
      <4>1. b[i].time = time /\ target > d /\ c # <<>>
        BY <1>1, <2>2, <2>3, <3>1, <3>4
      <4>2. m \in 1 .. m /\ c[m].time # time
        BY <1>5, <3>1, <4>1
      <4>3. c[m].time < time
        <5>1. c[m].time <= time /\ c[m].time \in Nat
          BY <1>1, <1>2, <1>3, <4>2
        <5> QED BY <4>2, <5>1
      <4>4. c[j].time <= c[m].time
        <5>1. CASE j = m
          BY <1>2, <4>2, <5>1
        <5>2. CASE j # m
          <6>1. j \in 1 .. m - 1
            BY <3>1, <5>2
          <6>2. c[j].time < c[m].time
            BY <1>1, <4>2, <6>1 DEF Increasing
          <6> QED BY <1>2, <3>1, <4>2, <6>2
        <5> QED BY <5>1, <5>2
      <4> QED BY <1>2, <3>1, <3>2, <4>1, <4>2, <4>3, <4>4
    <3> QED BY <3>3, <3>4
  <2>5. ASSUME NEW i \in DOMAIN b
        PROVE  b[i].time = time \/ (i \in DOMAIN c /\ b[i].time = c[i].time)
    BY <1>1, <2>2
  <2>6. MoreFrom(b, c, time, target - d)
    BY <2>2, <2>5 DEF MoreFrom
  <2> QED BY <2>2, <2>4, <2>6
<1> QED BY <1>4, <1>5

LEMMA NextObservation ==
  ASSUME NEW r, Observed(r), NEW a, NEW v, NEW d, NEW c, Participated(r, a, v, d, c),
         a < Len(r.prints), NEW time, time = r.prints[a + 1].time, r.start <= time, time < r.end,
         NEW w, w = v + r.prints[a + 1].volume,
         NEW target, target = Clamp((w * r.rate) \div FullRate, 0, r.qty),
         NEW b, b = Shared(c, d, target, time)
  PROVE  Participated(r, a + 1, w, target, b)
<1>1. PICK n \in Nat : n = Len(r.prints)
  BY PrintTypes DEF Observed
<1>2. a \in Nat /\ a + 1 \in 0 .. n /\ a < n /\ a + 1 \in 1 .. n
  BY <1>1 DEF Participated
<1>3. /\ r.start \in Nat /\ r.end \in Nat /\ r.start < r.end /\ time \in Nat
      /\ r.prints[a + 1].volume \in Nat /\ r.rate \in Nat /\ r.qty \in Nat
      /\ r.prints \in Seq([time : Nat, volume : Nat])
  BY <1>1, <1>2, PrintTypes DEF Observed
<1>4. \A i \in 1 .. a : i \in 1 .. n /\ r.prints[i].time \in Nat /\ r.prints[i].time <= time
  <2> SUFFICES ASSUME NEW i \in 1 .. a
               PROVE  i \in 1 .. n /\ r.prints[i].time \in Nat /\ r.prints[i].time <= time
    OBVIOUS
  <2>1. i \in 1 .. n /\ i <= a + 1 /\ DOMAIN r.prints = 1 .. n
    BY <1>1, <1>2, <1>3, PrintTypes
  <2>2. r.prints[i].time <= r.prints[a + 1].time
    BY <1>2, <2>1 DEF Observed
  <2> QED BY <1>1, <1>3, <2>1, <2>2, PrintTypes
<1>5. \A t : Seen(r, a, t) \in SUBSET (1 .. n) /\ a + 1 \notin Seen(r, a, t)
  BY <1>1, <1>2, <1>4, SeenNext
<1>6. \A t : /\ Vol(r, Seen(r, a, t)) \in Nat
             /\ Vol(r, Seen(r, a, t) \cup {a + 1})
                  = Vol(r, Seen(r, a, t)) + r.prints[a + 1].volume
  <2> SUFFICES ASSUME NEW t
               PROVE  /\ Vol(r, Seen(r, a, t)) \in Nat
                      /\ Vol(r, Seen(r, a, t) \cup {a + 1})
                           = Vol(r, Seen(r, a, t)) + r.prints[a + 1].volume
    OBVIOUS
  <2>1. PICK T \in SUBSET (1 .. Len(r.prints)) : T = Seen(r, a, t)
    BY <1>1, <1>5
  <2>2. /\ Vol(r, T) \in Nat
        /\ \A i \in 1 .. Len(r.prints) :
             i \notin T => Vol(r, T \cup {i}) = Vol(r, T) + r.prints[i].volume
    BY <1>3, Volumes
  <2>3. a + 1 \in 1 .. Len(r.prints) /\ a + 1 \notin T
    BY <1>1, <1>2, <1>5, <2>1
  <2> QED BY <2>1, <2>2, <2>3
<1>7. v = Vol(r, Seen(r, a, r.end)) /\ v \in Nat /\ d = Due(r, v)
  BY <1>6 DEF Participated
<1>8. w \in Nat /\ v <= w
  <2>1. PICK y \in Nat : y = r.prints[a + 1].volume
    BY <1>3
  <2>2. w = v + y /\ v \in Nat
    BY <1>7, <2>1
  <2> QED BY <2>1, <2>2
<1>9. target = Due(r, w) /\ target \in Nat /\ d \in Nat /\ d <= target
  BY <1>3, <1>7, <1>8, DueGrows
<1>10. \A t \in Nat : t <= time => Seen(r, a + 1, t) = Seen(r, a, t)
  BY <1>1, <1>2, SeenNext
<1>11. \A t \in Nat : time < t => /\ Seen(r, a + 1, t) = Seen(r, a, t) \cup {a + 1}
                                  /\ Seen(r, a, t) = Seen(r, a, r.end)
  <2> SUFFICES ASSUME NEW t \in Nat, time < t
               PROVE  /\ Seen(r, a + 1, t) = Seen(r, a, t) \cup {a + 1}
                      /\ Seen(r, a, t) = Seen(r, a, r.end)
    OBVIOUS
  <2>1. PICK end \in Nat : end = r.end
    BY <1>3
  <2>2. /\ r.prints[a + 1].time >= r.start /\ r.prints[a + 1].time < t
        /\ r.prints[a + 1].time < end /\ a < Len(r.prints)
    BY <1>1, <1>2, <1>3, <2>1
  <2>3. Seen(r, a + 1, t) = Seen(r, a, t) \cup {a + 1} /\ Seen(r, a, t) = Seen(r, a, end)
    BY <1>2, <2>2, SeenNext
  <2> QED BY <2>1, <2>3
<1>12. c \in Seq(Orders) /\ Increasing(c) /\ \A i \in DOMAIN c : c[i].time <= time
  <2>1. c \in Seq(Orders) /\ Increasing(c)
    BY DEF Participated
  <2>2. ASSUME NEW i \in DOMAIN c PROVE c[i].time <= time
    <3>1. PICK j \in 1 .. a : c[i].time <= r.prints[j].time
      BY DEF Participated
    <3>2. c[i] \in Orders
      BY <2>1
    <3>3. c[i].time \in Nat
      BY <3>2 DEF Orders
    <3>4. r.prints[j].time \in Nat /\ r.prints[j].time <= time
      BY <1>4
    <3> QED BY ONLY <1>3, <3>1, <3>3, <3>4
  <2> QED BY <2>1, <2>2
<1>13. /\ b \in Seq(Orders) /\ Increasing(b)
       /\ \A t \in Nat : Before(b, t) = Before(c, t) + (IF time < t THEN target - d ELSE 0)
       /\ \A i \in DOMAIN b : \/ b[i].time = time
                              \/ i \in DOMAIN c /\ b[i].time = c[i].time
  <2>1. /\ c \in Seq(Orders) /\ Increasing(c) /\ d \in Nat /\ target \in Nat /\ d <= target
        /\ time \in Nat /\ UpTo(c, time) /\ b = Shared(c, d, target, time)
    BY <1>3, <1>9, <1>12 DEF UpTo
  <2>2. b \in Seq(Orders) /\ Increasing(b) /\ MoreFrom(b, c, time, target - d)
    BY ONLY <2>1, SharedAddsUp
  <2> QED BY <2>2 DEF MoreFrom
<1>14. \A i : i \in 1 .. a + 1 <=> i \in 1 .. a \/ i = a + 1
  BY <1>2
<1>15. \A i \in 1 .. a + 1 : r.prints[i].time < r.end
  BY <1>14 DEF Participated
<1>16. ASSUME NEW i \in DOMAIN b
       PROVE  /\ r.start <= b[i].time /\ b[i].time < r.end
              /\ \E j \in 1 .. a + 1 : b[i].time <= r.prints[j].time
  <2>1. CASE b[i].time = time
    <3>1. a + 1 \in 1 .. a + 1 /\ b[i].time <= r.prints[a + 1].time
      BY <1>3, <1>14, <2>1
    <3> QED BY <2>1, <3>1
  <2>2. CASE i \in DOMAIN c /\ b[i].time = c[i].time
    BY <1>14, <2>2 DEF Participated
  <2> QED BY <1>13, <2>1, <2>2
<1>17. w = Vol(r, Seen(r, a + 1, r.end))
  BY <1>3, <1>6, <1>7, <1>11
<1>18. ASSUME NEW t \in Nat
       PROVE  Before(b, t) = Due(r, Vol(r, Seen(r, a + 1, t)))
  <2>1. Before(c, t) = Due(r, Vol(r, Seen(r, a, t)))
    BY DEF Participated
  <2>2. CASE t <= time
    <3>1. Seen(r, a + 1, t) = Seen(r, a, t) /\ Before(b, t) = Before(c, t) + 0
      BY <1>3, <1>10, <1>13, <2>2
    <3>2. Before(c, t) \in Nat
      <4>1. Vol(r, Seen(r, a, t)) \in Nat
        BY <1>6
      <4>2. Due(r, Vol(r, Seen(r, a, t))) \in 0 .. r.qty
        BY <1>3, <4>1, DueGrows
      <4> QED BY <2>1, <4>2
    <3> QED BY <2>1, <3>1, <3>2
  <2>3. CASE time < t
    <3>1. Seen(r, a + 1, t) = Seen(r, a, r.end) \cup {a + 1} /\ Seen(r, a, t) = Seen(r, a, r.end)
      BY <1>11, <2>3
    <3>2. Before(c, t) = d
      BY <1>7, <2>1, <3>1
    <3>3. Before(b, t) = Before(c, t) + (target - d)
      BY <1>13, <2>3
    <3>4. Before(b, t) = target
      BY <1>9, <3>2, <3>3
    <3>5. Vol(r, Seen(r, a + 1, t)) = w
      BY <1>6, <1>7, <3>1
    <3> QED BY <1>9, <3>4, <3>5
  <2>4. time \in Nat /\ t \in Nat
    BY <1>3
  <2>5. t <= time \/ time < t
    BY <2>4
  <2> QED BY <2>2, <2>3, <2>5
<1> QED BY <1>1, <1>2, <1>9, <1>13, <1>15, <1>16, <1>17, <1>18 DEF Participated

\* The loop ends with the tape, after the window, or with the whole quantity.
Ended(r, a, d) ==
  \/ a = Len(r.prints)
  \/ a < Len(r.prints) /\ r.prints[a + 1].time >= r.start
       /\ (r.prints[a + 1].time >= r.end \/ d = r.qty)

\* What is left of the tape would not change what is due.
LEMMA EndedInFull ==
  ASSUME NEW r, Observed(r), NEW a, NEW v, NEW d, NEW c, Participated(r, a, v, d, c),
         Ended(r, a, d), NEW t \in Nat, t <= r.end
  PROVE  Before(c, t) = Due(r, Vol(r, Seen(r, Len(r.prints), t)))
<1>1. PICK n \in Nat : n = Len(r.prints) /\ DOMAIN r.prints = 1 .. n
  BY PrintTypes DEF Observed
<1>2. /\ a \in 0 .. n /\ a \in Nat
      /\ r.rate \in Nat /\ r.qty \in Nat /\ r.prints \in Seq([time : Nat, volume : Nat])
      /\ r.end \in Nat
      /\ \A i \in 1 .. n : r.prints[i].time \in Nat
      /\ \A i, j \in 1 .. n : i <= j => r.prints[i].time <= r.prints[j].time
  <2>1. /\ r.rate \in Nat /\ r.qty \in Nat /\ r.prints \in Seq([time : Nat, volume : Nat])
        /\ r.end \in Nat
    BY DEF Observed
  <2>2. \A i \in 1 .. n : r.prints[i].time \in Nat
    BY <1>1, <2>1, PrintTypes
  <2>3. \A i, j \in 1 .. n : i <= j => r.prints[i].time <= r.prints[j].time
    BY <1>1 DEF Observed
  <2>4. a \in 0 .. n
    BY <1>1 DEF Participated
  <2>5. a \in Nat
    BY <2>4
  <2> QED BY ONLY <2>1, <2>2, <2>3, <2>4, <2>5
<1>3. Before(c, t) = Due(r, Vol(r, Seen(r, a, t)))
  BY DEF Participated
<1>4. CASE a = n
  BY <1>1, <1>3, <1>4
<1>5. CASE a < n /\ t <= r.prints[a + 1].time
  <2>1. a + 1 \in 1 .. n
    BY <1>2, <1>5
  <2>2. ASSUME NEW i \in 1 .. n, r.prints[i].time < t PROVE i \in 1 .. a
    <3>1. ASSUME a + 1 <= i PROVE FALSE
      <4>1. r.prints[a + 1].time <= r.prints[i].time
        BY <1>2, <2>1, <3>1
      <4>2. r.prints[a + 1].time \in Nat /\ r.prints[i].time \in Nat
        BY <1>2, <2>1
      <4> QED BY <1>5, <2>2, <4>1, <4>2
    <3> QED BY <1>2, <3>1
  <2>3. \A i \in 1 .. a : i \in 1 .. n
    BY <1>2
  <2>4. Seen(r, n, t) = Seen(r, a, t)
    BY <2>2, <2>3 DEF Seen
  <2> QED BY <1>1, <1>3, <2>4
<1>6. CASE a < n /\ ~(t <= r.prints[a + 1].time)
  <2>1. a + 1 \in 1 .. n
    BY <1>2, <1>6
  <2>2. r.prints[a + 1].time \in Nat /\ r.prints[a + 1].time < t
        /\ r.prints[a + 1].time < r.end /\ r.prints[a + 1].time >= r.start
    <3>1. r.prints[a + 1].time \in Nat
      BY <1>2, <2>1
    <3>2. r.prints[a + 1].time < t /\ r.prints[a + 1].time < r.end
      <4>1. PICK now \in Nat, end \in Nat : now = r.prints[a + 1].time /\ end = r.end
        BY <1>2, <3>1
      <4>2. ~(t <= now) /\ t <= end
        BY <1>6, <4>1
      <4>3. now < t /\ now < end
        BY <4>2
      <4> QED BY <4>1, <4>3
    <3>3. a # Len(r.prints)
      BY <1>1, <1>2, <1>6
    <3> QED BY <3>1, <3>2, <3>3 DEF Ended
  <2>3. d = r.qty
    <3>1. a # Len(r.prints)
      BY <1>1, <1>2, <1>6
    <3>2. ~(r.prints[a + 1].time >= r.end)
      BY <1>2, <2>2
    <3> QED BY <3>1, <3>2 DEF Ended
  <2>4. Seen(r, a, t) = Seen(r, a, r.end)
    <3>1. PICK end \in Nat : end = r.end
      BY <1>2
    <3>2. a < Len(r.prints) /\ r.prints[a + 1].time < end
      BY <1>1, <1>6, <2>2, <3>1
    <3>3. Seen(r, a, t) = Seen(r, a, end)
      BY <1>2, <2>2, <3>2, SeenNext
    <3> QED BY <3>1, <3>3
  <2>5. Before(c, t) = r.qty /\ Due(r, Vol(r, Seen(r, a, t))) = r.qty
    BY <1>3, <2>3, <2>4 DEF Participated
  <2>6. PICK S, T : S = Seen(r, a, t) /\ T = Seen(r, n, t)
    OBVIOUS
  <2>7. S \in SUBSET T /\ T \in SUBSET (1 .. Len(r.prints))
    <3>1. \A i \in 1 .. a : i \in 1 .. n
      BY <1>2
    <3> QED BY <1>1, <2>6, <3>1 DEF Seen
  <2>8. Vol(r, S) \in Nat /\ Vol(r, T) \in Nat /\ Vol(r, S) <= Vol(r, T)
    BY <1>2, <2>7, Volumes
  <2>9. Due(r, Vol(r, S)) <= Due(r, Vol(r, T)) /\ Due(r, Vol(r, T)) \in 0 .. r.qty
    BY <1>2, <2>8, DueGrows
  <2>10. Due(r, Vol(r, T)) = r.qty
    BY <1>2, <2>5, <2>6, <2>9
  <2> QED BY <1>1, <2>5, <2>6, <2>10
<1> QED BY <1>2, <1>4, <1>5, <1>6

PovInv ==
  Live /\ request.kind = "pov" =>
    /\ Participated(request, at, volume, done, children)
    /\ outcome = "scheduled" => Ended(request, at, done)

LEMMA PovInit == Init => PovInv
<1> SUFFICES ASSUME Init, Live, request.kind = "pov" PROVE PovInv
  BY DEF PovInv
<1>1. request \in Requests /\ outcome = "running" /\ ArgumentsOK(request)
  BY OutcomeOfChecks DEF Init, Live
<1>2. Observed(request)
  BY <1>1 DEF ArgumentsOK
<1>3. at = 0 /\ volume = 0 /\ done = 0 /\ children = <<>>
  BY DEF Init
<1> QED BY <1>1, <1>2, <1>3, NothingSeen DEF PovInv

LEMMA PovSteps == CallInv /\ PovInv /\ [Next]_vars => PovInv'
<1> SUFFICES ASSUME CallInv, PovInv, [Next]_vars PROVE PovInv'
  OBVIOUS
<1>1. CASE TwapSlice \/ RandomizedSlice \/ CurveSlice \/ PoolBar
  <2>1. request' = request /\ request.kind # "pov"
    BY <1>1 DEF TwapSlice, RandomizedSlice, CurveSlice, PoolBar, Follows
  <2> QED BY <2>1 DEF PovInv
<1>2. CASE PovSkip
  <2>1. /\ Live /\ outcome' = "running" /\ request' = request /\ request.kind = "pov"
        /\ at < Len(request.prints) /\ at' = at + 1
        /\ request.prints[at + 1].time < request.start
        /\ volume' = volume /\ done' = done /\ children' = children
    BY <1>2 DEF PovSkip, Running, Live, Length, Observation, BeforeWindow
  <2>2. Observed(request) /\ Participated(request, at, volume, done, children)
    BY <2>1 DEF CallInv, ArgumentsOK, PovInv
  <2>3. Participated(request, at + 1, volume, done, children)
    BY <2>1, <2>2, SkipObservation
  <2> QED BY <2>1, <2>3 DEF PovInv
<1>3. CASE PovStop
  <2>1. /\ Live /\ request' = request /\ request.kind = "pov" /\ at < Len(request.prints)
        /\ ~(request.prints[at + 1].time < request.start)
        /\ request.prints[at + 1].time >= request.end \/ done = request.qty
        /\ at' = at /\ volume' = volume /\ done' = done /\ children' = children
    BY <1>3 DEF PovStop, Running, Live, Length, Observation, BeforeWindow
  <2>2. Observed(request) /\ Participated(request, at, volume, done, children)
    BY <2>1 DEF CallInv, ArgumentsOK, PovInv
  <2>3. request.prints[at + 1].time >= request.start
    <3>1. PICK n \in Nat : n = Len(request.prints)
      BY <2>2, PrintTypes DEF Observed
    <3>2. at \in 0 .. n /\ at < n
      BY <2>1, <2>2, <3>1 DEF Participated
    <3>3. at + 1 \in 1 .. n
      BY <3>2
    <3>4. request.prints[at + 1].time \in Nat /\ request.start \in Nat
      BY <2>2, <3>1, <3>3, PrintTypes DEF Observed
    <3> QED BY <2>1, <3>4
  <2>4. Ended(request, at, done)
    BY <2>1, <2>3 DEF Ended
  <2> QED BY <2>1, <2>2, <2>4 DEF PovInv
<1>4. CASE PovObserve
  <2>1. /\ Live /\ outcome' = "running" /\ request' = request /\ request.kind = "pov"
        /\ at < Len(request.prints)
        /\ ~(request.prints[at + 1].time < request.start)
        /\ request.prints[at + 1].time < request.end
    BY <1>4 DEF PovObserve, Running, Live, Length, Observation, BeforeWindow
  <2>2. Observed(request) /\ Participated(request, at, volume, done, children)
    BY <2>1 DEF CallInv, ArgumentsOK, PovInv
  <2>3. PICK time : time = request.prints[at + 1].time
    OBVIOUS
  <2>4. PICK w : w = volume + request.prints[at + 1].volume
    OBVIOUS
  <2>5. PICK target : target = Clamp((w * request.rate) \div FullRate, 0, request.qty)
    OBVIOUS
  <2>6. PICK b : b = Shared(children, done, target, time)
    OBVIOUS
  <2>7. volume' = w /\ done' = target /\ at' = at + 1 /\ children' = b
    <3>1. volume' = w
      BY <1>4, <2>4 DEF PovObserve, Observation
    <3>2. target = Clamp((volume' * request.rate) \div FullRate, 0, request.qty)
          /\ time = Observation.time
      BY <2>3, <2>5, <3>1 DEF Observation
    <3> QED BY <1>4, <2>6, <3>1, <3>2 DEF PovObserve, Release, Released, Shared
  <2>8. request.start <= time /\ time < request.end
    <3>1. PICK n \in Nat : n = Len(request.prints)
      BY <2>2, PrintTypes DEF Observed
    <3>2. at \in 0 .. n /\ at < n
      BY <2>1, <2>2, <3>1 DEF Participated
    <3>3. at + 1 \in 1 .. n
      BY <3>2
    <3>4. time \in Nat /\ request.start \in Nat
      BY <2>2, <2>3, <3>1, <3>3, PrintTypes DEF Observed
    <3> QED BY <2>1, <2>3, <3>4
  <2>9. Participated(request, at + 1, w, target, b)
    BY <2>1, <2>2, <2>3, <2>4, <2>5, <2>6, <2>8, NextObservation
  <2> QED BY <2>1, <2>7, <2>9 DEF PovInv
<1>5. CASE Finish
  <2>1. /\ Live /\ at = Length /\ request' = request
        /\ at' = at /\ volume' = volume /\ done' = done /\ children' = children
    BY <1>5 DEF Finish, Live
  <2>2. request.kind = "pov" => at = Len(request.prints)
    BY <2>1 DEF Length
  <2> QED BY <2>1, <2>2 DEF PovInv, Ended
<1>6. CASE UNCHANGED vars
  BY <1>6 DEF vars, PovInv, Live
<1> QED BY <1>1, <1>2, <1>3, <1>4, <1>5, <1>6 DEF Next

----------------------------------------------------------------------------
(* The volume profile *)

\* Of the first a bars, those whose time of day is in slice k.
Bars(r, a, k) ==
  {i \in 1 .. a : r.prints[i].time % r.day \in Boundary(r, k) .. Boundary(r, k + 1) - 1}

Pooled(r, a) == [k \in 0 .. r.slices - 1 |-> Vol(r, Bars(r, a, k))]

\* The pool once the next bar, of a time of day, is added.
PooledWith(r, a, x) ==
  IF x >= r.start /\ x < r.end
  THEN [Pooled(r, a) EXCEPT ![SliceContaining(x - r.start, r.end - r.start, r.slices)] =
          @ + r.prints[a + 1].volume]
  ELSE Pooled(r, a)

\* A bar adds its volume to the one slice that holds its time of day, if any.
LEMMA PoolNext ==
  ASSUME NEW r, Sliceable(r), r.day \in Nat \ {0}, r.prints \in Seq([time : Nat, volume : Nat]),
         NEW a \in Nat, a < Len(r.prints), NEW x, x = r.prints[a + 1].time % r.day,
         NEW next, next = PooledWith(r, a, x)
  PROVE  next = Pooled(r, a + 1)
<1>1. PICK n \in Nat : n = Len(r.prints)
  BY PrintTypes
<1>2. a + 1 \in 1 .. n /\ \A i \in 1 .. a : i \in 1 .. n
  BY <1>1
<1>3. PICK day \in Nat \ {0}, time \in Nat : day = r.day /\ time = r.prints[a + 1].time
  BY <1>1, <1>2, PrintTypes
<1>4. x \in Nat
  <2>1. x = time % day
    BY <1>3
  <2>2. time % day \in Nat
    OBVIOUS
  <2> QED BY <2>1, <2>2
<1>5. PICK s \in Nat, e \in Nat, m \in Nat \ {0} : s = r.start /\ e = r.end /\ m = r.slices /\ s < e
  BY DEF Sliceable
<1>6. PICK vol \in Nat : vol = r.prints[a + 1].volume
  BY <1>1, <1>2, PrintTypes
<1>7. PICK pool : pool = Pooled(r, a)
  OBVIOUS
<1>8. /\ DOMAIN pool = 0 .. m - 1
      /\ \A k \in 0 .. m - 1 : pool[k] = Vol(r, Bars(r, a, k))
  BY <1>5, <1>7 DEF Pooled
<1>9. ASSUME NEW k
      PROVE  /\ Bars(r, a + 1, k) = IF x \in Boundary(r, k) .. Boundary(r, k + 1) - 1
                                    THEN Bars(r, a, k) \cup {a + 1} ELSE Bars(r, a, k)
             /\ Bars(r, a, k) \in SUBSET (1 .. n) /\ a + 1 \notin Bars(r, a, k)
  <2>1. PICK W : W = Boundary(r, k) .. Boundary(r, k + 1) - 1
    OBVIOUS
  <2>2. \A i : i \in 1 .. a + 1 <=> i \in 1 .. a \/ i = a + 1
    OBVIOUS
  <2>3. a + 1 \notin 1 .. a
    OBVIOUS
  <2>4. /\ Bars(r, a + 1, k) = {i \in 1 .. a + 1 : r.prints[i].time % r.day \in W}
        /\ Bars(r, a, k) = {i \in 1 .. a : r.prints[i].time % r.day \in W}
    BY <2>1 DEF Bars
  <2>5. Bars(r, a + 1, k) = IF x \in W THEN Bars(r, a, k) \cup {a + 1} ELSE Bars(r, a, k)
    BY <2>2, <2>3, <2>4
  <2> QED BY <1>2, <2>1, <2>3, <2>4, <2>5
<1>10. \A k : /\ Vol(r, Bars(r, a, k)) \in Nat
              /\ Vol(r, Bars(r, a, k) \cup {a + 1}) = Vol(r, Bars(r, a, k)) + vol
  <2> SUFFICES ASSUME NEW k
               PROVE  /\ Vol(r, Bars(r, a, k)) \in Nat
                      /\ Vol(r, Bars(r, a, k) \cup {a + 1}) = Vol(r, Bars(r, a, k)) + vol
    OBVIOUS
  <2>1. PICK T \in SUBSET (1 .. Len(r.prints)) : T = Bars(r, a, k)
    BY <1>1, <1>9
  <2>2. /\ Vol(r, T) \in Nat
        /\ \A i \in 1 .. Len(r.prints) :
             i \notin T => Vol(r, T \cup {i}) = Vol(r, T) + r.prints[i].volume
    BY Volumes
  <2>3. a + 1 \in 1 .. Len(r.prints) /\ a + 1 \notin T
    BY <1>1, <1>2, <1>9, <2>1
  <2> QED BY <1>6, <2>1, <2>2, <2>3
<1>11. /\ \A k \in 0 .. m - 1 : Boundary(r, k) \in Nat /\ Boundary(r, k + 1) \in Nat
       /\ \A k \in 0 .. m - 1 : s <= Boundary(r, k) /\ Boundary(r, k + 1) <= e
  <2> SUFFICES ASSUME NEW k \in 0 .. m - 1
               PROVE  /\ Boundary(r, k) \in Nat /\ Boundary(r, k + 1) \in Nat
                      /\ s <= Boundary(r, k) /\ Boundary(r, k + 1) <= e
    OBVIOUS
  <2>1. k \in Nat /\ k + 1 \in Nat /\ 0 <= k /\ k + 1 <= m
    OBVIOUS
  <2>2. /\ Boundary(r, 0) = s /\ Boundary(r, m) = e
        /\ \A l \in Nat : Boundary(r, l) \in Nat
        /\ \A j, l \in Nat : j <= l => Boundary(r, j) <= Boundary(r, l)
    BY <1>5, Boundaries
  <2> QED BY <2>1, <2>2
<1>12. Pooled(r, a + 1) = [k \in 0 .. m - 1 |-> Vol(r, Bars(r, a + 1, k))]
  BY <1>5 DEF Pooled
<1>13. CASE x >= s /\ x < e
  <2>1. PICK j : j = SliceContaining(x - r.start, r.end - r.start, r.slices)
    OBVIOUS
  <2>2. x \in r.start .. r.end - 1
    BY <1>4, <1>5, <1>13
  <2>3. /\ j \in 0 .. m - 1 /\ Boundary(r, j) <= x /\ x < Boundary(r, j + 1)
        /\ \A k \in Nat : Boundary(r, k) <= x /\ x < Boundary(r, k + 1) => k = j
    BY <1>5, <2>1, <2>2, OneSlice
  <2>4. next = [pool EXCEPT ![j] = @ + vol]
    BY <1>5, <1>6, <1>7, <1>13, <2>1 DEF PooledWith
  <2>5. ASSUME NEW k \in 0 .. m - 1
        PROVE  next[k] = Vol(r, Bars(r, a + 1, k))
    <3>1. x \in Boundary(r, k) .. Boundary(r, k + 1) - 1 <=> k = j
      <4>1. PICK low \in Nat, high \in Nat : low = Boundary(r, k) /\ high = Boundary(r, k + 1)
        BY <1>11
      <4>2. x \in low .. high - 1 <=> low <= x /\ x < high
        BY <1>4
      <4>3. k \in Nat
        OBVIOUS
      <4>4. low <= x /\ x < high => k = j
        BY <2>3, <4>1, <4>3
      <4>5. k = j => low <= x /\ x < high
        BY <2>3, <4>1
      <4> QED BY <4>1, <4>2, <4>4, <4>5
    <3>2. CASE k = j
      BY <1>8, <1>9, <1>10, <2>4, <3>1, <3>2
    <3>3. CASE k # j
      BY <1>8, <1>9, <2>4, <3>1, <3>3
    <3> QED BY <3>2, <3>3
  <2>6. DOMAIN next = 0 .. m - 1 /\ next = [k \in DOMAIN next |-> next[k]]
    BY <1>7, <1>8, <2>4 DEF Pooled
  <2> QED BY <1>12, <2>5, <2>6
<1>14. CASE ~(x >= s /\ x < e)
  <2>1. next = pool
    BY <1>5, <1>7, <1>14 DEF PooledWith
  <2>2. ASSUME NEW k \in 0 .. m - 1
        PROVE  Vol(r, Bars(r, a, k)) = Vol(r, Bars(r, a + 1, k))
    <3>1. x \notin Boundary(r, k) .. Boundary(r, k + 1) - 1
      <4>1. PICK low \in Nat, high \in Nat : /\ low = Boundary(r, k) /\ high = Boundary(r, k + 1)
                                             /\ s <= low /\ high <= e
        BY <1>11
      <4>2. x \notin low .. high - 1
        BY <1>4, <1>14, <4>1
      <4> QED BY <4>1, <4>2
    <3> QED BY <1>9, <3>1
  <2>3. pool = [k \in 0 .. m - 1 |-> Vol(r, Bars(r, a, k))]
    BY <1>5, <1>7 DEF Pooled
  <2> QED BY <1>12, <2>1, <2>2, <2>3
<1> QED BY <1>13, <1>14

ProfileInv ==
  Live /\ request.kind = "profile" =>
    /\ at \in 0 .. Len(request.prints) /\ pooled = Pooled(request, at)
    /\ outcome = "scheduled" => at = Len(request.prints)

LEMMA ProfileInit == Init => ProfileInv
<1> SUFFICES ASSUME Init, Live, request.kind = "profile" PROVE ProfileInv
  BY DEF ProfileInv
<1>1. request \in Requests /\ outcome = "running"
  BY OutcomeOfChecks DEF Init, Live
<1>2. Len(request.prints) \in Nat
  BY <1>1, ScheduleAssumption, PrintTypes
<1>3. at = 0 /\ pooled = [k \in 0 .. request.slices - 1 |-> 0]
  BY DEF Init
<1>4. \A k : Vol(request, Bars(request, 0, k)) = 0
  <2>1. \A k : Bars(request, 0, k) = {}
    BY DEF Bars
  <2>2. Vol(request, {}) = 0
    BY SumEmpty DEF Vol
  <2> QED BY <2>1, <2>2
<1>5. Pooled(request, 0) = [k \in 0 .. request.slices - 1 |-> 0]
  BY <1>4 DEF Pooled
<1> QED BY <1>1, <1>2, <1>3, <1>5 DEF ProfileInv

LEMMA ProfileSteps == CallInv /\ ProfileInv /\ [Next]_vars => ProfileInv'
<1> SUFFICES ASSUME CallInv, ProfileInv, [Next]_vars PROVE ProfileInv'
  OBVIOUS
<1>1. CASE TwapSlice \/ RandomizedSlice \/ CurveSlice \/ PovSkip \/ PovStop \/ PovObserve
  <2>1. request' = request /\ request.kind # "profile"
    BY <1>1 DEF TwapSlice, RandomizedSlice, CurveSlice, PovSkip, PovStop, PovObserve, Follows
  <2> QED BY <2>1 DEF ProfileInv
<1>2. CASE PoolBar
  <2>1. /\ Live /\ outcome' = "running" /\ request' = request /\ request.kind = "profile"
        /\ at < Len(request.prints) /\ at' = at + 1
    BY <1>2 DEF PoolBar, Running, Live, Length
  <2>2. /\ Sliceable(request) /\ request.day \in Nat \ {0}
        /\ request.prints \in Seq([time : Nat, volume : Nat])
    BY <2>1, ScheduleAssumption DEF CallInv, ArgumentsOK
  <2>3. /\ at \in Nat /\ at + 1 \in 0 .. Len(request.prints)
        /\ pooled = Pooled(request, at)
    BY <2>1, <2>2, PrintTypes DEF ProfileInv
  <2>4. PICK x : x = request.prints[at + 1].time % request.day
    OBVIOUS
  <2>5. pooled' = PooledWith(request, at, x)
    BY <1>2, <2>3, <2>4 DEF PoolBar, InWindow, TimeOfDay, Observation, Duration, PooledWith
  <2>6. pooled' = Pooled(request, at + 1)
    <3>1. PICK next : next = pooled'
      OBVIOUS
    <3>2. at < Len(request.prints)
      BY <2>1
    <3> QED BY <2>2, <2>3, <2>4, <2>5, <3>1, <3>2, PoolNext
  <2> QED BY <2>1, <2>3, <2>6 DEF ProfileInv
<1>3. CASE Finish
  <2>1. /\ Live /\ at = Length /\ request' = request /\ at' = at /\ pooled' = pooled
    BY <1>3 DEF Finish, Live
  <2>2. request.kind = "profile" => at = Len(request.prints)
    BY <2>1 DEF Length
  <2> QED BY <2>1, <2>2 DEF ProfileInv
<1>4. CASE UNCHANGED vars
  BY <1>4 DEF vars, ProfileInv, Live
<1> QED BY <1>1, <1>2, <1>3, <1>4 DEF Next

----------------------------------------------------------------------------
(* What every call of the schedulers promises *)

IInv == CallInv /\ SlicedInv /\ PovInv /\ ProfileInv

\* The inductive invariant: a call that runs has passed its checks, and its loop has
\* done so far what the whole call promises, slice by slice, observation by observation
\* or bar by bar.
THEOREM ScheduleInvariant == Spec => []IInv
<1>1. Init => IInv
  BY SlicedInit, PovInit, ProfileInit DEF IInv
<1>2. IInv /\ [Next]_vars => IInv'
  BY CallSteps, SlicedSteps, PovSteps, ProfileSteps DEF IInv
<1> QED BY <1>1, <1>2, PTL DEF Spec

LEMMA PovExecutable ==
  ASSUME CallInv, PovInv, outcome = "scheduled", request.kind = "pov"
  PROVE  /\ Observed(request) /\ Participated(request, at, volume, done, children)
         /\ \A t \in Nat : t <= request.end =>
              QtyBefore(t) = Due(request, Vol(request, Seen(request, Len(request.prints), t)))
<1>1. Observed(request) /\ Participated(request, at, volume, done, children) /\ Ended(request, at, done)
  BY DEF CallInv, ArgumentsOK, Live, PovInv
<1>2. \A t \in Nat : t <= request.end =>
        Before(children, t) = Due(request, Vol(request, Seen(request, Len(request.prints), t)))
  BY <1>1, EndedInFull
<1> QED BY <1>1, <1>2, QtyBeforeIsBefore

LEMMA ExecutableOfInvariant == IInv => SchedulesAreExecutable
<1> SUFFICES ASSUME IInv, Scheduled
    PROVE /\ \A i \in DOMAIN children :
               /\ children[i].qty > 0
               /\ children[i].time >= request.start /\ children[i].time < request.end
               /\ \A j \in 1 .. i - 1 : children[j].time < children[i].time
          /\ IF request.kind = "pov" THEN QtyBefore(request.end) <= request.qty
                                     ELSE QtyBefore(request.end) = request.qty
  BY DEF SchedulesAreExecutable
<1>1. /\ CallInv /\ outcome = "scheduled" /\ request \in Requests
      /\ Slicing \/ request.kind = "pov"
  BY ScheduleAssumption DEF IInv, CallInv, Scheduled, Slicing
<1>2. /\ children \in Seq(Orders) /\ Increasing(children)
      /\ \A i \in DOMAIN children :
           request.start <= children[i].time /\ children[i].time < request.end
  <2>1. CASE Slicing
    BY <1>1, <2>1, SlicedExecutable DEF IInv
  <2>2. CASE request.kind = "pov"
    BY <1>1, <2>2, PovExecutable DEF IInv, Participated
  <2> QED BY <1>1, <2>1, <2>2
<1>3. ASSUME NEW i \in DOMAIN children
      PROVE  /\ children[i].qty > 0 /\ children[i].time >= request.start
             /\ \A j \in 1 .. i - 1 : children[j].time < children[i].time
  <2>1. children[i] \in Orders /\ request.start \in Nat
    BY <1>1, <1>2, ScheduleAssumption
  <2>2. children[i].qty \in Nat \ {0} /\ children[i].time \in Nat
    BY <2>1 DEF Orders
  <2>3. request.start <= children[i].time
    BY <1>2
  <2> QED BY <1>2, <2>1, <2>2, <2>3 DEF Increasing
<1>4. request.kind = "pov" => QtyBefore(request.end) <= request.qty
  <2> SUFFICES ASSUME request.kind = "pov" PROVE QtyBefore(request.end) <= request.qty
    OBVIOUS
  <2>1. PICK end \in Nat : end = request.end
    BY <1>1, ScheduleAssumption
  <2>2. PICK T : T = Seen(request, Len(request.prints), end)
    OBVIOUS
  <2>3. QtyBefore(end) = Due(request, Vol(request, T)) /\ Observed(request)
    BY <1>1, <2>1, <2>2, PovExecutable DEF IInv
  <2>4. T \in SUBSET (1 .. Len(request.prints))
    BY <2>2 DEF Seen
  <2>5. Vol(request, T) \in Nat
    BY <2>3, <2>4, Volumes DEF Observed
  <2>6. Due(request, Vol(request, T)) \in 0 .. request.qty /\ request.qty \in Nat
    BY <2>3, <2>5, DueGrows DEF Observed
  <2> QED BY <2>1, <2>3, <2>6
<1>5. request.kind # "pov" => QtyBefore(request.end) = request.qty
  BY <1>1, SlicedExecutable DEF IInv
<1> QED BY <1>2, <1>3, <1>4, <1>5

\* schedule.rs:88-90, state.rs:84-99: every schedule a call returns, of any of the
\* schedulers and for every window, quantity and tape, is one the engine can execute:
\* child orders of at least one unit at increasing times inside the window that add up
\* to the quantity, or for POV to no more.
THEOREM EveryScheduleIsExecutable == Spec => []SchedulesAreExecutable
BY ScheduleInvariant, ExecutableOfInvariant, PTL

\* twap.rs:18-26, vwap.rs:34-35: TWAP, randomized or not, is within half a unit of its
\* even share at the end of each slice, and VWAP has no child order in a slice without
\* volume, whatever the floating-point error.
THEOREM EveryPaceIsKept == Spec => []PacedAsPromised
<1>1. IInv => PacedAsPromised
  BY PacedEvenlyHolds, NoVolumeNoOrderHolds DEF IInv, PacedAsPromised
<1> QED BY <1>1, ScheduleInvariant, PTL

LEMMA ParticipationOfInvariant == IInv => WithinParticipation
<1> SUFFICES ASSUME IInv, Scheduled, request.kind = "pov", NEW time \in request.start .. request.end
             PROVE  LET share == (VolumeOf(SeenBefore(time)) * request.rate) \div FullRate
                    IN  QtyBefore(time) = IF share > request.qty THEN request.qty ELSE share
  BY DEF WithinParticipation
<1>1. CallInv /\ PovInv /\ outcome = "scheduled" /\ Observed(request)
  BY PovExecutable DEF IInv, Scheduled
<1>2. time \in Nat /\ time <= request.end
  BY <1>1 DEF Observed
<1>3. QtyBefore(time) = Due(request, Vol(request, Seen(request, Len(request.prints), time)))
  BY <1>1, <1>2, PovExecutable
<1>4. DOMAIN request.prints = 1 .. Len(request.prints)
  BY <1>1, PrintTypes DEF Observed
<1>5. Seen(request, Len(request.prints), time) = SeenBefore(time)
  BY <1>4 DEF Seen, SeenBefore
<1>6. Vol(request, SeenBefore(time)) = VolumeOf(SeenBefore(time))
  BY DEF Vol, VolumeOf
<1> QED BY <1>3, <1>5, <1>6 DEF Due

\* pov.rs:46-51: at every time of the window the child orders of POV are exactly its rate
\* of the volume printed in the window before it, rounded down, or the whole quantity.
THEOREM ParticipationIsKept == Spec => []WithinParticipation
BY ScheduleInvariant, ParticipationOfInvariant, PTL

LEMMA ProfileOfInvariant == IInv => ProfileMatchesSlices
<1> SUFFICES ASSUME IInv, outcome = "scheduled", request.kind = "profile",
                    NEW k \in 0 .. request.slices - 1
             PROVE  pooled[k] = VolumeOf({i \in DOMAIN request.prints :
                      TimeOfDay(request.prints[i].time) \in StartOf(k) .. StartOf(k + 1) - 1})
  BY DEF ProfileMatchesSlices
<1>1. pooled = Pooled(request, Len(request.prints)) /\ request \in Requests
  BY DEF IInv, ProfileInv, CallInv, Live
<1>2. pooled[k] = Vol(request, Bars(request, Len(request.prints), k))
  BY <1>1 DEF Pooled
<1>3. DOMAIN request.prints = 1 .. Len(request.prints)
  BY <1>1, ScheduleAssumption, PrintTypes
<1>4. /\ StartOf(k) = Boundary(request, k) /\ StartOf(k + 1) = Boundary(request, k + 1)
      /\ \A i : TimeOfDay(request.prints[i].time) = request.prints[i].time % request.day
  BY DEF StartOf, Duration, Boundary, TimeOfDay
<1>5. Bars(request, Len(request.prints), k)
        = {i \in DOMAIN request.prints :
             TimeOfDay(request.prints[i].time) \in StartOf(k) .. StartOf(k + 1) - 1}
  BY <1>3, <1>4 DEF Bars
<1> QED BY <1>2, <1>5 DEF Vol, VolumeOf

\* vwap.rs:103-107, 169-174: the profile volume_profile_from_bars returns has for each
\* slice the volume of exactly the bars whose time of day lies between the boundaries
\* the schedules use.
THEOREM EveryBarIsPooled == Spec => []ProfileMatchesSlices
BY ScheduleInvariant, ProfileOfInvariant, PTL

----------------------------------------------------------------------------
(* The trajectory of implementation shortfall: lowest terms *)

\* A factor of both, taken out of a numerator and a denominator.
LEMMA CommonFactor ==
  ASSUME NEW x \in Nat, NEW c \in Nat \ {0}, x % c = 0
  PROVE  x \div c \in Nat /\ x = (x \div c) * c
<1>1. /\ x \div c \in Nat
      /\ x % c = x - (x \div c) * c
  BY DivisionBounds
<1>2. PICK q \in Nat : q = x \div c
  BY <1>1
<1>3. x = q * c
  BY <1>1, <1>2
<1> QED BY <1>2, <1>3

LEMMA LowestTerms ==
  ASSUME NEW num \in Nat, NEW den \in Nat \ {0},
         NEW common, common = Max({n \in 1 .. den : den % n = 0 /\ num % n = 0})
  PROVE  /\ common \in Nat \ {0}
         /\ num \div common \in Nat /\ num = (num \div common) * common
         /\ den \div common \in Nat \ {0} /\ den = (den \div common) * common
<1> DEFINE S == {n \in 1 .. den : den % n = 0 /\ num % n = 0}
           T == {m \in Nat : den - m \in S}
<1>1. 1 \in S
  OBVIOUS
<1>2. den - 1 \in T
  BY <1>1
<1>3. PICK low \in T : \A m \in T : low <= m
  BY <1>2, LeastNat
<1>4. den - low \in S /\ \A n \in S : den - low >= n
  <2>1. den - low \in S
    OBVIOUS
  <2>2. ASSUME NEW n \in S PROVE den - low >= n
    <3>1. n \in 1 .. den /\ den - n \in Nat /\ den - (den - n) = n
      OBVIOUS
    <3>2. den - n \in T
      BY <3>1
    <3>3. low \in Nat /\ low <= den - n
      BY <1>3, <3>2
    <3> QED BY <3>1, <3>3
  <2> QED BY <2>1, <2>2
<1>5. common \in S
  <2>1. common = CHOOSE x \in S : \A y \in S : x >= y
    BY DEF Max
  <2> HIDE DEF S
  <2> QED BY <1>4, <2>1
<1>6. common \in Nat \ {0} /\ den % common = 0 /\ num % common = 0
  BY <1>5
<1>7. num \div common \in Nat /\ num = (num \div common) * common
  BY <1>6, CommonFactor
<1>8. den \div common \in Nat /\ den = (den \div common) * common
  BY <1>6, CommonFactor
<1>9. den \div common # 0
  <2>1. ASSUME den \div common = 0 PROVE FALSE
    <3>1. den = 0 * common
      BY <1>8, <2>1
    <3> QED BY <1>6, <3>1
  <2> QED BY <2>1
<1> QED BY <1>6, <1>7, <1>8, <1>9

----------------------------------------------------------------------------
(* The trajectory: its recurrences *)

\* s(m) d^(m - 1) and d^k, for a curve of urgency u / d.
FollowsSinh(T, u, d, n) ==
  /\ T \in [0 .. n -> Int]
  /\ T[0] = 0 /\ T[1] = 1
  /\ \A m \in 1 .. n - 1 : T[m + 1] = (2 * d + u) * T[m] - d * d * T[m - 1]

FollowsScale(p, d, n) ==
  /\ p \in [0 .. n -> Int]
  /\ p[0] = 1
  /\ \A k \in 0 .. n - 1 : p[k + 1] = d * p[k]

SinhCurve(u, d, n) ==
  CHOOSE s : s = [m \in 0 .. n |->
                    IF m <= 1 THEN m ELSE (2 * d + u) * s[m - 1] - d * d * s[m - 2]]

ScaleCurve(d, n) ==
  CHOOSE p : p = [k \in 0 .. n |-> IF k = 0 THEN 1 ELSE d * p[k - 1]]

LEMMA SinhExists ==
  ASSUME NEW n \in Nat \ {0}, NEW u \in Int, NEW d \in Int
  PROVE  FollowsSinh(SinhCurve(u, d, n), u, d, n)
<1> DEFINE Value(g, m) == IF m <= 1 THEN m ELSE (2 * d + u) * g[m - 1] - d * d * g[m - 2]
           Good(g, m) == g \in [0 .. m -> Int] /\ \A i \in 0 .. m : g[i] = Value(g, i)
           N == {m \in Nat : \E g : Good(g, m)}
<1>1. 0 \in N
  <2>1. Good([i \in 0 .. 0 |-> 0], 0)
    OBVIOUS
  <2> QED BY <2>1
<1>2. ASSUME NEW m \in N PROVE m + 1 \in N
  <2>0. m \in Nat
    OBVIOUS
  <2>1. PICK g : Good(g, m)
    OBVIOUS
  <2>2. PICK v : v = Value(g, m + 1)
    OBVIOUS
  <2>3. v \in Int
    <3>1. CASE m + 1 <= 1
      BY <2>0, <2>2, <3>1
    <3>2. CASE ~(m + 1 <= 1)
      <4>1. PICK x \in Int, y \in Int : x = g[(m + 1) - 1] /\ y = g[(m + 1) - 2]
        BY <2>0, <2>1, <3>2
      <4>2. v = (2 * d + u) * x - d * d * y
        BY <2>2, <3>2, <4>1
      <4> QED BY <4>2
    <3> QED BY <3>1, <3>2
  <2> DEFINE h == [i \in 0 .. m + 1 |-> IF i <= m THEN g[i] ELSE v]
  <2>4. h \in [0 .. m + 1 -> Int]
    BY <2>0, <2>1, <2>3
  <2>5. ASSUME NEW i \in 0 .. m + 1 PROVE h[i] = Value(h, i)
    <3>1. i > 1 => h[i - 1] = g[i - 1] /\ h[i - 2] = g[i - 2]
      BY <2>0
    <3>2. Value(h, i) = Value(g, i)
      <4> HIDE DEF h
      <4> QED BY <3>1, <2>0
    <3>3. CASE i <= m
      <4>1. i \in 0 .. m /\ h[i] = g[i]
        BY <2>0, <3>3
      <4>2. g[i] = Value(g, i)
        BY <2>1, <4>1
      <4> HIDE DEF h, Value
      <4> QED BY <3>2, <4>1, <4>2
    <3>4. CASE ~(i <= m)
      <4>1. i = m + 1 /\ h[i] = v
        BY <2>0, <3>4
      <4> HIDE DEF h, Value
      <4> QED BY <2>2, <3>2, <4>1
    <3> QED BY <3>3, <3>4
  <2>6. Good(h, m + 1)
    <3> HIDE DEF h, Value
    <3> QED BY <2>4, <2>5
  <2> HIDE DEF h, Good
  <2> QED BY <2>0, <2>6
<1> HIDE DEF Good
<1>3. N = Nat
  <2> HIDE DEF N
  <2>1. N \in SUBSET Nat
    BY DEF N
  <2> QED BY <1>1, <1>2, <2>1, SetInduction
<1>4. PICK g : Good(g, n)
  BY <1>3
<1> DEFINE Step(s) == [m \in 0 .. n |->
                          IF m <= 1 THEN m ELSE (2 * d + u) * s[m - 1] - d * d * s[m - 2]]
<1>5. g = Step(g)
  BY <1>4 DEF Good
<1>6. PICK s : s = SinhCurve(u, d, n)
  OBVIOUS
<1>7. s = Step(s)
  <2> HIDE DEF Step
  <2>1. SinhCurve(u, d, n) = CHOOSE f : f = Step(f)
    BY DEF SinhCurve, Step
  <2> QED BY <1>5, <1>6, <2>1
<1>8. \A m \in 0 .. n : s[m] = Value(s, m)
  <2> SUFFICES ASSUME NEW m \in 0 .. n PROVE s[m] = Value(s, m)
    OBVIOUS
  <2>1. Step(s)[m] = Value(s, m)
    OBVIOUS
  <2> HIDE DEF Step, Value
  <2> QED BY <1>7, <2>1
<1>9. \A m \in 0 .. n : g[m] = Value(g, m) /\ g[m] \in Int
  BY <1>4 DEF Good
<1>10. s[0] = 0 /\ s[1] = 1 /\ g[0] = 0 /\ g[1] = 1
  <2>1. 0 \in 0 .. n /\ 1 \in 0 .. n
    OBVIOUS
  <2>2. Value(s, 0) = 0 /\ Value(s, 1) = 1 /\ Value(g, 0) = 0 /\ Value(g, 1) = 1
    OBVIOUS
  <2> HIDE DEF Value
  <2> QED BY <1>8, <1>9, <2>1, <2>2
<1>11. ASSUME NEW m \in 1 .. n - 1
       PROVE  /\ s[m + 1] = (2 * d + u) * s[m] - d * d * s[m - 1]
              /\ g[m + 1] = (2 * d + u) * g[m] - d * d * g[m - 1]
  <2>1. m + 1 \in 0 .. n /\ ~(m + 1 <= 1) /\ (m + 1) - 1 = m /\ (m + 1) - 2 = m - 1
    OBVIOUS
  <2>2. s[m + 1] = Value(s, m + 1) /\ g[m + 1] = Value(g, m + 1)
    BY <1>8, <1>9, <2>1
  <2> QED BY <2>1, <2>2
<1>12. \A m \in 0 .. n : s[m] = g[m]
  <2> DEFINE M == {m \in Nat : m < n => s[m] = g[m] /\ s[m + 1] = g[m + 1]}
  <2>1. 0 \in M
    BY <1>10
  <2>2. ASSUME NEW m \in M PROVE m + 1 \in M
    <3> SUFFICES ASSUME m + 1 < n PROVE s[m + 1] = g[m + 1] /\ s[m + 2] = g[m + 2]
      OBVIOUS
    <3>1. m \in Nat /\ m < n /\ m + 1 \in 1 .. n - 1 /\ (m + 1) - 1 = m /\ (m + 1) + 1 = m + 2
      OBVIOUS
    <3>2. s[m] = g[m] /\ s[m + 1] = g[m + 1]
      BY <3>1
    <3>3. s[m + 2] = (2 * d + u) * s[m + 1] - d * d * s[m]
      BY <1>11, <3>1
    <3>4. g[m + 2] = (2 * d + u) * g[m + 1] - d * d * g[m]
      BY <1>11, <3>1
    <3> QED BY <3>2, <3>3, <3>4
  <2>3. M = Nat
    <3> HIDE DEF M
    <3>1. M \in SUBSET Nat
      BY DEF M
    <3> QED BY <2>1, <2>2, <3>1, SetInduction
  <2> SUFFICES ASSUME NEW m \in 0 .. n PROVE s[m] = g[m]
    OBVIOUS
  <2>4. CASE m < n
    <3>1. m \in M
      <4> HIDE DEF M
      <4> QED BY <2>3
    <3> QED BY <2>4, <3>1
  <2>5. CASE m = n
    <3>1. n - 1 \in M
      <4> HIDE DEF M
      <4> QED BY <2>3
    <3>2. n - 1 < n /\ (n - 1) + 1 = n
      OBVIOUS
    <3> QED BY <2>5, <3>1, <3>2
  <2> QED BY <2>4, <2>5
<1>13. s \in [0 .. n -> Int]
  <2>1. s = [m \in 0 .. n |-> s[m]]
    BY <1>7
  <2>2. \A m \in 0 .. n : s[m] \in Int
    BY <1>9, <1>12
  <2> QED BY <2>1, <2>2
<1>14. FollowsSinh(s, u, d, n)
  <2> HIDE DEF Step, Value
  <2> QED BY <1>10, <1>11, <1>13 DEF FollowsSinh
<1> QED BY <1>6, <1>14

LEMMA ScaleExists ==
  ASSUME NEW n \in Nat, NEW d \in Int
  PROVE  FollowsScale(ScaleCurve(d, n), d, n)
<1> DEFINE Value(g, k) == IF k = 0 THEN 1 ELSE d * g[k - 1]
           Good(g, k) == g \in [0 .. k -> Int] /\ \A i \in 0 .. k : g[i] = Value(g, i)
           N == {k \in Nat : \E g : Good(g, k)}
<1>1. 0 \in N
  <2>1. Good([i \in 0 .. 0 |-> 1], 0)
    OBVIOUS
  <2> QED BY <2>1
<1>2. ASSUME NEW k \in N PROVE k + 1 \in N
  <2>0. k \in Nat
    OBVIOUS
  <2>1. PICK g : Good(g, k)
    OBVIOUS
  <2>2. PICK v \in Int : v = d * g[k]
    <3>1. PICK x \in Int : x = g[k]
      BY <2>0, <2>1
    <3> QED BY <3>1
  <2> DEFINE h == [i \in 0 .. k + 1 |-> IF i <= k THEN g[i] ELSE v]
  <2>3. h \in [0 .. k + 1 -> Int]
    BY <2>0, <2>1, <2>2
  <2>4. ASSUME NEW i \in 0 .. k + 1 PROVE h[i] = Value(h, i)
    <3>1. i > 0 => h[i - 1] = g[i - 1]
      BY <2>0
    <3>2. Value(h, i) = Value(g, i)
      <4> HIDE DEF h
      <4> QED BY <3>1, <2>0
    <3>3. CASE i <= k
      <4>1. i \in 0 .. k /\ h[i] = g[i]
        BY <2>0, <3>3
      <4>2. g[i] = Value(g, i)
        BY <2>1, <4>1
      <4> HIDE DEF h, Value
      <4> QED BY <3>2, <4>1, <4>2
    <3>4. CASE ~(i <= k)
      <4>1. i = k + 1 /\ h[i] = v
        BY <2>0, <3>4
      <4>2. Value(g, k + 1) = v
        BY <2>0, <2>2
      <4> HIDE DEF h, Value
      <4> QED BY <3>2, <4>1, <4>2
    <3> QED BY <3>3, <3>4
  <2>5. Good(h, k + 1)
    <3> HIDE DEF h, Value
    <3> QED BY <2>3, <2>4
  <2> HIDE DEF h, Good
  <2> QED BY <2>0, <2>5
<1> HIDE DEF Good
<1>3. N = Nat
  <2> HIDE DEF N
  <2>1. N \in SUBSET Nat
    BY DEF N
  <2> QED BY <1>1, <1>2, <2>1, SetInduction
<1>4. PICK g : Good(g, n)
  BY <1>3
<1> DEFINE Step(p) == [k \in 0 .. n |-> IF k = 0 THEN 1 ELSE d * p[k - 1]]
<1>5. g = Step(g)
  BY <1>4 DEF Good
<1>6. PICK p : p = ScaleCurve(d, n)
  OBVIOUS
<1>7. p = Step(p)
  <2> HIDE DEF Step
  <2>1. ScaleCurve(d, n) = CHOOSE f : f = Step(f)
    BY DEF ScaleCurve, Step
  <2> QED BY <1>5, <1>6, <2>1
<1>8. p[0] = 1
  <2>1. Step(p)[0] = 1
    OBVIOUS
  <2> HIDE DEF Step
  <2> QED BY <1>7, <2>1
<1>9. \A k \in 0 .. n - 1 : p[k + 1] = d * p[k]
  <2> SUFFICES ASSUME NEW k \in 0 .. n - 1 PROVE p[k + 1] = d * p[k]
    OBVIOUS
  <2>1. Step(p)[k + 1] = d * p[k]
    <3>1. k + 1 \in 0 .. n /\ k + 1 # 0 /\ (k + 1) - 1 = k
      OBVIOUS
    <3> QED BY <3>1
  <2> HIDE DEF Step
  <2> QED BY <1>7, <2>1
<1>10. \A k \in 0 .. n : p[k] \in Int
  <2> DEFINE M == {k \in Nat : k <= n => p[k] \in Int}
  <2>1. 0 \in M
    BY <1>8
  <2>2. ASSUME NEW k \in M PROVE k + 1 \in M
    <3> SUFFICES ASSUME k + 1 <= n PROVE p[k + 1] \in Int
      OBVIOUS
    <3>1. k \in 0 .. n - 1 /\ p[k] \in Int
      OBVIOUS
    <3> QED BY <1>9, <3>1
  <2>3. M = Nat
    <3> HIDE DEF M
    <3>1. M \in SUBSET Nat
      BY DEF M
    <3> QED BY <2>1, <2>2, <3>1, SetInduction
  <2> QED BY <2>3
<1>11. p \in [0 .. n -> Int]
  <2>1. p = [k \in 0 .. n |-> p[k]]
    BY <1>7
  <2> QED BY <1>10, <2>1
<1> QED BY <1>6, <1>8, <1>9, <1>11 DEF FollowsScale

----------------------------------------------------------------------------
(* The trajectory: how it falls *)

LEMMA Products ==
  ASSUME NEW x \in Nat, NEW y \in Nat
  PROVE  x * y \in Nat /\ (x > 0 /\ y > 0 => x * y > 0)
OBVIOUS

LEMMA ProductMonotone ==
  ASSUME NEW x \in Int, NEW y \in Int, NEW c \in Nat, x <= y
  PROVE  c * x <= c * y
<1>1. PICK z \in Nat : y = x + z
  OBVIOUS
<1>2. c * z \in Nat
  BY Products
<1>3. c * y = c * x + c * z
  BY <1>1
<1> QED BY <1>2, <1>3

LEMMA ProductCancels ==
  ASSUME NEW x \in Int, NEW y \in Int, NEW c \in Nat \ {0}
  PROVE  /\ c * x <= c * y => x <= y
         /\ c * x < c * y => x < y
<1>1. ASSUME c * x < c * y PROVE x < y
  <2>1. x * c < y * c
    BY <1>1
  <2> QED BY <2>1, ProductReflects
<1>2. ASSUME c * x <= c * y, y < x PROVE FALSE
  <2>1. PICK z \in Nat : x = y + z /\ z > 0
    BY <1>2
  <2>2. c * z \in Nat /\ c * z > 0
    BY <2>1, Products
  <2>3. c * x = c * y + c * z
    BY <2>1
  <2>4. c * y \in Int
    OBVIOUS
  <2> QED BY <1>2, <2>2, <2>3, <2>4
<1> QED BY <1>1, <1>2

\* d^k is positive.
LEMMA ScalePositive ==
  ASSUME NEW n \in Nat, NEW d \in Nat \ {0}, NEW p, FollowsScale(p, d, n)
  PROVE  \A k \in 0 .. n : p[k] \in Nat \ {0}
<1> DEFINE N == {k \in Nat : k <= n => p[k] \in Nat \ {0}}
<1>1. 0 \in N
  BY DEF FollowsScale
<1>2. ASSUME NEW k \in N PROVE k + 1 \in N
  <2> SUFFICES ASSUME k + 1 <= n PROVE p[k + 1] \in Nat \ {0}
    OBVIOUS
  <2>1. PICK x \in Nat \ {0} : x = p[k]
    OBVIOUS
  <2>2. p[k + 1] = d * x
    BY <2>1 DEF FollowsScale
  <2>3. d * x \in Nat /\ d * x > 0
    BY Products
  <2> QED BY <2>2, <2>3
<1>3. N = Nat
  <2> HIDE DEF N
  <2>1. N \in SUBSET Nat
    BY DEF N
  <2> QED BY <1>1, <1>2, <2>1, SetInduction
<1> QED BY <1>3

\* One step of the recurrence grows by more than d.
LEMMA GrowthStep ==
  ASSUME NEW u \in Nat, NEW d \in Nat \ {0}, NEW a \in Nat, NEW b \in Int, b - d * a >= 1
  PROVE  b >= 1 /\ ((2 * d + u) * b - d * d * a) - d * b >= 1
<1>1. d * a \in Nat
  BY Products
<1>2. PICK x \in Nat \ {0} : x = b - d * a
  BY <1>1
<1>3. b \in Nat /\ b >= 1
  BY <1>1
<1>4. ((2 * d + u) * b - d * d * a) - d * b = d * x + u * b
  BY <1>2
<1>5. d * x \in Nat /\ d * x > 0 /\ u * b \in Nat
  BY <1>3, Products
<1> QED BY <1>3, <1>4, <1>5

LEMMA SinhGrows ==
  ASSUME NEW n \in Nat \ {0}, NEW u \in Nat, NEW d \in Nat \ {0}, NEW T, FollowsSinh(T, u, d, n)
  PROVE  /\ \A m \in 0 .. n : T[m] \in Nat /\ (m > 0 => T[m] >= 1)
         /\ \A m \in 0 .. n - 1 : d * T[m] <= T[m + 1]
<1> DEFINE N == {m \in Nat : m < n => T[m] \in Nat /\ T[m + 1] - d * T[m] >= 1}
<1>0. \A m \in 0 .. n : T[m] \in Int
  BY DEF FollowsSinh
<1>1. 0 \in N
  BY DEF FollowsSinh
<1>2. ASSUME NEW m \in N PROVE m + 1 \in N
  <2> SUFFICES ASSUME m + 1 < n
               PROVE  T[m + 1] \in Nat /\ T[m + 2] - d * T[m + 1] >= 1
    OBVIOUS
  <2>1. PICK a \in Nat, b \in Int : a = T[m] /\ b = T[m + 1]
    BY <1>0
  <2>2. b - d * a >= 1
    BY <2>1
  <2>3. m + 1 \in 1 .. n - 1 /\ (m + 1) + 1 = m + 2 /\ (m + 1) - 1 = m
    OBVIOUS
  <2>4. T[m + 2] = (2 * d + u) * b - d * d * a
    BY <2>1, <2>3 DEF FollowsSinh
  <2> QED BY <2>1, <2>2, <2>4, GrowthStep
<1>3. N = Nat
  <2> HIDE DEF N
  <2>1. N \in SUBSET Nat
    BY DEF N
  <2> QED BY <1>1, <1>2, <2>1, SetInduction
<1>4. ASSUME NEW m \in 0 .. n - 1
      PROVE  T[m] \in Nat /\ T[m + 1] \in Nat /\ T[m + 1] >= 1 /\ d * T[m] <= T[m + 1]
  <2>1. m \in N
    <3> HIDE DEF N
    <3> QED BY <1>3
  <2>2. PICK a \in Nat, b \in Int : a = T[m] /\ b = T[m + 1]
    BY <1>0, <2>1
  <2>3. b - d * a >= 1 /\ d * a \in Nat
    BY <2>1, <2>2, Products
  <2>4. b >= 1 /\ d * a <= b
    BY <2>3
  <2> QED BY <2>2, <2>4
<1> HIDE DEF N
<1>5. ASSUME NEW m \in 0 .. n PROVE T[m] \in Nat /\ (m > 0 => T[m] >= 1)
  <2>1. CASE m = 0
    BY <2>1, <1>4
  <2>2. CASE m > 0
    <3>1. m - 1 \in 0 .. n - 1 /\ (m - 1) + 1 = m
      BY <2>2
    <3> QED BY <1>4, <3>1
  <2> QED BY <2>1, <2>2
<1> QED BY <1>4, <1>5

\* What is held, in parts of q / T[n]: it starts at T[n], never rises and ends at zero.
LEMMA CurveFalls ==
  ASSUME NEW n \in Nat \ {0}, NEW u \in Nat, NEW d \in Nat \ {0},
         NEW T, FollowsSinh(T, u, d, n), NEW p, FollowsScale(p, d, n)
  PROVE  /\ T[n] \in Nat \ {0}
         /\ T[n - 0] * p[0] = T[n] /\ T[n - n] * p[n] = 0
         /\ \A k \in 0 .. n : T[n - k] * p[k] \in 0 .. T[n]
         /\ \A k \in 0 .. n - 1 : T[n - (k + 1)] * p[k + 1] <= T[n - k] * p[k]
<1>1. /\ \A m \in 0 .. n : T[m] \in Nat /\ (m > 0 => T[m] >= 1)
      /\ \A m \in 0 .. n - 1 : d * T[m] <= T[m + 1]
  BY SinhGrows
<1>2. \A k \in 0 .. n : p[k] \in Nat \ {0}
  BY ScalePositive
<1>3. ASSUME NEW k \in 0 .. n - 1
      PROVE  T[n - (k + 1)] * p[k + 1] <= T[n - k] * p[k]
  <2>1. n - (k + 1) \in 0 .. n - 1 /\ (n - (k + 1)) + 1 = n - k /\ n - (k + 1) \in 0 .. n
    OBVIOUS
  <2>2. PICK a \in Nat, b \in Nat : a = T[n - (k + 1)] /\ b = T[n - k] /\ d * a <= b
    BY <1>1, <2>1
  <2>3. PICK x \in Nat : x = p[k] /\ p[k + 1] = d * x
    BY <1>2 DEF FollowsScale
  <2>4. x * (d * a) <= x * b
    BY <2>2, ProductMonotone
  <2>5. a * (d * x) = x * (d * a) /\ b * x = x * b
    OBVIOUS
  <2> QED BY <2>2, <2>3, <2>4, <2>5
<1>4. T[n - 0] * p[0] = T[n] /\ T[n - n] * p[n] = 0
  <2>1. n - 0 = n /\ n - n = 0 /\ T[0] = 0 /\ p[0] = 1
    BY DEF FollowsSinh, FollowsScale
  <2>2. PICK x \in Nat, y \in Nat : x = T[n] /\ y = p[n]
    BY <1>1, <1>2
  <2>3. x * 1 = x /\ 0 * y = 0
    OBVIOUS
  <2> QED BY <2>1, <2>2, <2>3
<1>5. \A k \in 0 .. n : T[n - k] * p[k] \in Nat
  <2> SUFFICES ASSUME NEW k \in 0 .. n PROVE T[n - k] * p[k] \in Nat
    OBVIOUS
  <2>1. n - k \in 0 .. n
    OBVIOUS
  <2> QED BY <1>1, <1>2, <2>1, Products
<1> DEFINE N == {k \in Nat : k <= n => T[n - k] * p[k] <= T[n]}
<1>6. 0 \in N
  BY <1>1, <1>4
<1>7. ASSUME NEW k \in N PROVE k + 1 \in N
  <2> SUFFICES ASSUME k + 1 <= n PROVE T[n - (k + 1)] * p[k + 1] <= T[n]
    OBVIOUS
  <2>1. k \in 0 .. n - 1 /\ k + 1 \in 0 .. n /\ k \in 0 .. n
    OBVIOUS
  <2>2. PICK x \in Nat, y \in Nat, z \in Nat :
          x = T[n - (k + 1)] * p[k + 1] /\ y = T[n - k] * p[k] /\ z = T[n]
    BY <1>1, <1>5, <2>1
  <2>3. x <= y
    BY <1>3, <2>1, <2>2
  <2>4. y <= z
    BY <2>2
  <2> QED BY <2>2, <2>3, <2>4
<1>8. N = Nat
  <2> HIDE DEF N
  <2>1. N \in SUBSET Nat
    BY DEF N
  <2> QED BY <1>6, <1>7, <2>1, SetInduction
<1>9. \A k \in 0 .. n : T[n - k] * p[k] \in 0 .. T[n]
  <2> SUFFICES ASSUME NEW k \in 0 .. n PROVE T[n - k] * p[k] \in 0 .. T[n]
    OBVIOUS
  <2>1. T[n - k] * p[k] <= T[n]
    BY <1>8
  <2> QED BY <1>1, <1>5, <2>1
<1> QED BY <1>1, <1>3, <1>4, <1>9

----------------------------------------------------------------------------
(* The trajectory against the even pace *)

\* The step of sinh(m t) / m, which never falls: it rises when kappa is not zero.
LEMMA ConvexStep ==
  ASSUME NEW u \in Nat, NEW d \in Nat \ {0}, NEW m \in Nat, NEW a \in Nat, NEW b \in Nat \ {0},
         m * b - (m + 1) * (d * a) >= 0,
         NEW c, c = (2 * d + u) * b - d * d * a
  PROVE  /\ (m + 1) * c - (m + 2) * (d * b) >= 0
         /\ u > 0 => (m + 1) * c - (m + 2) * (d * b) >= 1
<1>1. PICK x \in Nat : x = m * b - (m + 1) * (d * a)
  OBVIOUS
<1>2. (m + 1) * c - (m + 2) * (d * b) = d * x + u * ((m + 1) * b)
  BY <1>1
<1>3. d * x \in Nat
  BY Products
<1>4. PICK y \in Nat : y = (m + 1) * b /\ y > 0
  BY Products
<1>5. u * y \in Nat /\ (u > 0 => u * y > 0)
  BY <1>4, Products
<1> QED BY <1>2, <1>3, <1>4, <1>5

LEMMA SinhConvex ==
  ASSUME NEW n \in Nat \ {0}, NEW u \in Nat, NEW d \in Nat \ {0}, NEW T, FollowsSinh(T, u, d, n)
  PROVE  \A m \in 0 .. n - 1 :
           /\ (m + 1) * (d * T[m]) <= m * T[m + 1]
           /\ u > 0 /\ m > 0 => (m + 1) * (d * T[m]) < m * T[m + 1]
<1> DEFINE Gap(m) == m * T[m + 1] - (m + 1) * (d * T[m])
           N == {m \in Nat : m < n => Gap(m) >= 0 /\ (u > 0 /\ m > 0 => Gap(m) >= 1)}
<1>0. \A m \in 0 .. n : T[m] \in Nat /\ (m > 0 => T[m] >= 1)
  BY SinhGrows
<1>1. 0 \in N
  BY DEF FollowsSinh
<1>2. ASSUME NEW m \in N PROVE m + 1 \in N
  <2> SUFFICES ASSUME m + 1 < n
               PROVE  Gap(m + 1) >= 0 /\ (u > 0 => Gap(m + 1) >= 1)
    OBVIOUS
  <2>1. m \in Nat /\ m \in 0 .. n /\ m + 1 \in 0 .. n
    OBVIOUS
  <2>2. PICK a \in Nat, b \in Nat \ {0} : a = T[m] /\ b = T[m + 1]
    BY <1>0, <2>1
  <2>3. m * b - (m + 1) * (d * a) >= 0
    BY <2>2
  <2>4. m + 1 \in 1 .. n - 1 /\ (m + 1) + 1 = m + 2 /\ (m + 1) - 1 = m
    OBVIOUS
  <2>5. PICK c : c = T[m + 2] /\ c = (2 * d + u) * b - d * d * a
    BY <2>2, <2>4 DEF FollowsSinh
  <2>6. Gap(m + 1) = (m + 1) * c - (m + 2) * (d * b)
    BY <2>2, <2>4, <2>5
  <2> HIDE DEF Gap, N
  <2> QED BY <2>1, <2>3, <2>5, <2>6, ConvexStep
<1>3. N = Nat
  <2> HIDE DEF N
  <2>1. N \in SUBSET Nat
    BY DEF N
  <2> QED BY <1>1, <1>2, <2>1, SetInduction
<1> SUFFICES ASSUME NEW m \in 0 .. n - 1
             PROVE  /\ (m + 1) * (d * T[m]) <= m * T[m + 1]
                    /\ u > 0 /\ m > 0 => (m + 1) * (d * T[m]) < m * T[m + 1]
  OBVIOUS
<1>4. m \in N
  <2> HIDE DEF N
  <2> QED BY <1>3
<1>5. Gap(m) >= 0 /\ (u > 0 /\ m > 0 => Gap(m) >= 1)
  <2> HIDE DEF Gap
  <2> QED BY <1>4
<1>6. PICK x \in Nat, y \in Nat : x = (m + 1) * (d * T[m]) /\ y = m * T[m + 1]
  <2>1. PICK a \in Nat, b \in Nat : a = T[m] /\ b = T[m + 1]
    BY <1>0
  <2>2. d * a \in Nat /\ m * b \in Nat
    BY Products
  <2>3. (m + 1) * (d * a) \in Nat
    BY <2>2, Products
  <2> QED BY <2>1, <2>2, <2>3
<1> QED BY <1>5, <1>6

\* The step of what is held against the even share of what is left.
LEMMA EvenShareStep ==
  ASSUME NEW n \in Nat \ {0}, NEW d \in Nat \ {0}, NEW m \in Nat,
         NEW a \in Nat, NEW b \in Nat, NEW x \in Nat \ {0}, NEW t \in Nat,
         (m + 1) * (d * a) <= m * b, n * (b * x) <= (m + 1) * t
  PROVE  /\ n * (a * (d * x)) <= m * t
         /\ (m + 1) * (d * a) < m * b => n * (a * (d * x)) < m * t
<1>1. PICK y \in Nat \ {0} : y = n * x
  BY Products
<1>2. PICK e \in Nat, f \in Nat : e = (m + 1) * (d * a) /\ f = m * b
  <2>1. d * a \in Nat /\ m * b \in Nat
    BY Products
  <2> QED BY <2>1, Products
<1>3. y * e <= y * f /\ (e < f => y * e < y * f)
  <2>1. e <= f
    BY <1>2
  <2>2. y * e <= y * f
    BY <2>1, ProductMonotone
  <2>3. ASSUME e < f PROVE y * e < y * f
    <3>1. e + 1 <= f
      BY <2>3
    <3>2. y * (e + 1) <= y * f
      BY <3>1, ProductMonotone
    <3>3. y * (e + 1) = y * e + y /\ y * e \in Int /\ y * f \in Int
      OBVIOUS
    <3> QED BY <3>2, <3>3
  <2> QED BY <2>2, <2>3
<1>4. m * (n * (b * x)) <= m * ((m + 1) * t)
  <2>1. n * (b * x) \in Int /\ (m + 1) * t \in Int
    OBVIOUS
  <2> QED BY <2>1, ProductMonotone
<1>5. /\ y * f = m * (n * (b * x))
      /\ y * e = (m + 1) * (n * (a * (d * x)))
      /\ m * ((m + 1) * t) = (m + 1) * (m * t)
  BY <1>1, <1>2
<1>6. PICK v \in Int, w \in Int : v = n * (a * (d * x)) /\ w = m * t
  OBVIOUS
<1>7. /\ (m + 1) * v <= (m + 1) * w
      /\ e < f => (m + 1) * v < (m + 1) * w
  <2>1. y * e \in Int /\ y * f \in Int /\ (m + 1) * w \in Int
    OBVIOUS
  <2> QED BY <1>3, <1>4, <1>5, <1>6, <2>1
<1>8. m + 1 \in Nat \ {0}
  OBVIOUS
<1> QED BY <1>2, <1>6, <1>7, <1>8, ProductCancels

\* What is held never exceeds the even share of what is left to the end; inside the
\* window it is less when kappa is not zero.
LEMMA CurveAheadOfEven ==
  ASSUME NEW n \in Nat \ {0}, NEW u \in Nat, NEW d \in Nat \ {0},
         NEW T, FollowsSinh(T, u, d, n), NEW p, FollowsScale(p, d, n)
  PROVE  \A k \in 0 .. n :
           /\ n * (T[n - k] * p[k]) <= (n - k) * T[n]
           /\ u > 0 /\ 0 < k /\ k < n => n * (T[n - k] * p[k]) < (n - k) * T[n]
<1>1. \A m \in 0 .. n : T[m] \in Nat
  BY SinhGrows
<1>2. \A k \in 0 .. n : p[k] \in Nat \ {0}
  BY ScalePositive
<1>3. PICK t \in Nat : t = T[n]
  BY <1>1
<1> DEFINE Held(k) == n * (T[n - k] * p[k])
<1>4. ASSUME NEW k \in 0 .. n - 1, Held(k) <= (n - k) * t
      PROVE  /\ Held(k + 1) <= (n - (k + 1)) * t
             /\ u > 0 /\ k + 1 < n => Held(k + 1) < (n - (k + 1)) * t
  <2>1. PICK m \in 0 .. n - 1 : m = n - (k + 1)
    OBVIOUS
  <2>2. m + 1 = n - k /\ m \in 0 .. n /\ m + 1 \in 0 .. n /\ k \in 0 .. n
    BY <2>1
  <2>3. PICK a \in Nat, b \in Nat : a = T[m] /\ b = T[m + 1]
    BY <1>1, <2>2
  <2>4. PICK x \in Nat \ {0} : x = p[k] /\ p[k + 1] = d * x
    BY <1>2, <2>2 DEF FollowsScale
  <2>5. (m + 1) * (d * a) <= m * b /\ (u > 0 /\ m > 0 => (m + 1) * (d * a) < m * b)
    BY <2>3, SinhConvex
  <2>6. n * (b * x) <= (m + 1) * t
    BY <1>4, <2>2, <2>3, <2>4
  <2>7. /\ n * (a * (d * x)) <= m * t
        /\ (m + 1) * (d * a) < m * b => n * (a * (d * x)) < m * t
    BY <2>1, <2>5, <2>6, EvenShareStep
  <2>8. Held(k + 1) = n * (a * (d * x))
    BY <2>1, <2>3, <2>4
  <2>9. k + 1 < n => m > 0
    BY <2>1
  <2> HIDE DEF Held
  <2> QED BY <2>1, <2>5, <2>7, <2>8, <2>9
<1> DEFINE N == {k \in Nat : k <= n => Held(k) <= (n - k) * t}
<1>5. 0 \in N
  <2>1. T[n - 0] * p[0] = t
    BY <1>3 DEF FollowsScale
  <2>2. Held(0) = n * t /\ n - 0 = n /\ n * t \in Nat
    BY <2>1, Products
  <2> HIDE DEF Held
  <2> QED BY <2>2
<1> HIDE DEF Held
<1>6. ASSUME NEW k \in N PROVE k + 1 \in N
  <2> SUFFICES ASSUME k + 1 <= n PROVE Held(k + 1) <= (n - (k + 1)) * t
    OBVIOUS
  <2>1. k \in 0 .. n - 1 /\ Held(k) <= (n - k) * t
    OBVIOUS
  <2> QED BY <1>4, <2>1
<1>7. N = Nat
  <2> HIDE DEF N
  <2>1. N \in SUBSET Nat
    BY DEF N
  <2> QED BY <1>5, <1>6, <2>1, SetInduction
<1>8. \A k \in 0 .. n : Held(k) <= (n - k) * t
  BY <1>7
<1>9. ASSUME NEW k \in 0 .. n, u > 0, 0 < k, k < n PROVE Held(k) < (n - k) * t
  <2>1. k - 1 \in 0 .. n - 1 /\ k - 1 \in 0 .. n /\ (k - 1) + 1 = k
    BY <1>9
  <2>2. Held(k - 1) <= (n - (k - 1)) * t
    BY <1>8, <2>1
  <2>3. Held((k - 1) + 1) < (n - ((k - 1) + 1)) * t
    BY <1>4, <1>9, <2>1, <2>2
  <2> QED BY <2>1, <2>3
<1> QED BY <1>3, <1>8, <1>9 DEF Held

----------------------------------------------------------------------------
(* Two trajectories *)

LEMMA FasterStep ==
  ASSUME NEW u \in Nat, NEW d \in Nat \ {0}, NEW v \in Nat, NEW e \in Nat \ {0},
         v * d <= u * e,
         NEW a \in Nat, NEW b \in Nat, NEW f \in Nat, NEW g \in Nat,
         (d * g) * a <= (e * b) * f
  PROVE  (d * ((2 * e + v) * g - e * e * f)) * b <= (e * ((2 * d + u) * b - d * d * a)) * g
<1>1. PICK x \in Nat : u * e = v * d + x
  <2>1. u * e \in Nat /\ v * d \in Nat
    BY Products
  <2>2. u * e = v * d + (u * e - v * d) /\ u * e - v * d \in Nat
    BY <2>1
  <2> QED BY <2>2
<1>2. PICK y \in Nat : (e * b) * f = (d * g) * a + y
  <2>1. e * b \in Nat /\ d * g \in Nat
    BY Products
  <2>2. (e * b) * f \in Nat /\ (d * g) * a \in Nat
    BY <2>1, Products
  <2>3. (e * b) * f - (d * g) * a \in Nat
    BY <2>2
  <2>4. (e * b) * f = (d * g) * a + ((e * b) * f - (d * g) * a)
    BY <2>2
  <2> QED BY <2>3, <2>4
<1>3. b * g \in Nat /\ d * e \in Nat
  BY Products
<1>4. x * (b * g) \in Nat /\ (d * e) * y \in Nat
  BY <1>3, Products
<1>5. (e * ((2 * d + u) * b - d * d * a)) * g - (d * ((2 * e + v) * g - e * e * f)) * b
        = (u * e - v * d) * (b * g) + (d * e) * ((e * b) * f - (d * g) * a)
  OBVIOUS
<1>6. (u * e - v * d) * (b * g) = x * (b * g)
  BY <1>1
<1>7. (d * e) * ((e * b) * f - (d * g) * a) = (d * e) * y
  <2>1. (e * b) * f \in Int /\ (d * g) * a \in Int
    OBVIOUS
  <2>2. (e * b) * f - (d * g) * a = y
    BY <1>2, <2>1
  <2> QED BY <2>2
<1>8. PICK l \in Int, r \in Int : /\ l = (d * ((2 * e + v) * g - e * e * f)) * b
                                  /\ r = (e * ((2 * d + u) * b - d * d * a)) * g
  OBVIOUS
<1>9. r - l = x * (b * g) + (d * e) * y
  BY <1>5, <1>6, <1>7, <1>8
<1> QED BY <1>4, <1>8, <1>9

\* sinh(m t) grows by a larger factor where the urgency is larger.
LEMMA SinhFaster ==
  ASSUME NEW n \in Nat \ {0},
         NEW u \in Nat, NEW d \in Nat \ {0}, NEW T, FollowsSinh(T, u, d, n),
         NEW v \in Nat, NEW e \in Nat \ {0}, NEW S, FollowsSinh(S, v, e, n),
         v * d <= u * e
  PROVE  \A m \in 0 .. n - 1 : (d * S[m + 1]) * T[m] <= (e * T[m + 1]) * S[m]
<1> DEFINE N == {m \in Nat : m < n => (d * S[m + 1]) * T[m] <= (e * T[m + 1]) * S[m]}
<1>0. \A m \in 0 .. n : T[m] \in Nat /\ S[m] \in Nat
  BY SinhGrows
<1>1. 0 \in N
  <2>1. (d * S[0 + 1]) * T[0] <= (e * T[0 + 1]) * S[0]
    BY DEF FollowsSinh
  <2> QED BY <2>1
<1>2. ASSUME NEW m \in N PROVE m + 1 \in N
  <2> SUFFICES ASSUME m + 1 < n
               PROVE  (d * S[m + 2]) * T[m + 1] <= (e * T[m + 2]) * S[m + 1]
    OBVIOUS
  <2>1. m \in Nat /\ m \in 0 .. n /\ m + 1 \in 0 .. n
    OBVIOUS
  <2>2. PICK a \in Nat, b \in Nat, f \in Nat, g \in Nat :
          a = T[m] /\ b = T[m + 1] /\ f = S[m] /\ g = S[m + 1]
    BY <1>0, <2>1
  <2>3. (d * g) * a <= (e * b) * f
    BY <2>2
  <2>4. m + 1 \in 1 .. n - 1 /\ (m + 1) + 1 = m + 2 /\ (m + 1) - 1 = m
    OBVIOUS
  <2>5. T[m + 2] = (2 * d + u) * b - d * d * a
    BY <2>2, <2>4 DEF FollowsSinh
  <2>6. S[m + 2] = (2 * e + v) * g - e * e * f
    BY <2>2, <2>4 DEF FollowsSinh
  <2>7. (d * ((2 * e + v) * g - e * e * f)) * b <= (e * ((2 * d + u) * b - d * d * a)) * g
    BY <2>3, FasterStep
  <2> HIDE DEF N
  <2> QED BY <2>2, <2>5, <2>6, <2>7
<1>3. N = Nat
  <2> HIDE DEF N
  <2>1. N \in SUBSET Nat
    BY DEF N
  <2> QED BY <1>1, <1>2, <2>1, SetInduction
<1> QED BY <1>3

LEMMA HoldsLessStep ==
  ASSUME NEW d \in Nat \ {0}, NEW e \in Nat \ {0},
         NEW a \in Nat, NEW b \in Nat, NEW f \in Nat, NEW g \in Nat \ {0},
         NEW x \in Nat, NEW y \in Nat, NEW s \in Nat, NEW t \in Nat,
         (d * g) * a <= (e * b) * f, (b * x) * s <= (g * y) * t
  PROVE  (a * (d * x)) * s <= (f * (e * y)) * t
<1>1. x * s \in Nat /\ e * f \in Nat
  BY Products
<1>2. (x * s) * ((d * g) * a) <= (x * s) * ((e * b) * f)
  <2>1. (d * g) * a \in Int /\ (e * b) * f \in Int
    OBVIOUS
  <2> QED BY <1>1, <2>1, ProductMonotone
<1>3. (e * f) * ((b * x) * s) <= (e * f) * ((g * y) * t)
  <2>1. (b * x) * s \in Int /\ (g * y) * t \in Int
    OBVIOUS
  <2> QED BY <1>1, <2>1, ProductMonotone
<1>4. PICK l \in Int, r \in Int : l = (a * (d * x)) * s /\ r = (f * (e * y)) * t
  OBVIOUS
<1>5. /\ (x * s) * ((d * g) * a) = g * l
      /\ (x * s) * ((e * b) * f) = (e * f) * ((b * x) * s)
      /\ (e * f) * ((g * y) * t) = g * r
  BY <1>4
<1>6. g * l <= g * r
  <2>1. PICK h \in Int : h = (e * f) * ((b * x) * s)
    OBVIOUS
  <2>2. g * l <= h /\ h <= g * r
    BY <1>2, <1>3, <1>5, <2>1
  <2>3. g * l \in Int /\ g * r \in Int
    OBVIOUS
  <2> QED BY <2>2, <2>3
<1> QED BY <1>4, <1>6, ProductCancels

\* Where the urgency is larger, less is held.
LEMMA FasterHoldsLess ==
  ASSUME NEW n \in Nat \ {0},
         NEW u \in Nat, NEW d \in Nat \ {0}, NEW T, FollowsSinh(T, u, d, n),
         NEW p, FollowsScale(p, d, n),
         NEW v \in Nat, NEW e \in Nat \ {0}, NEW S, FollowsSinh(S, v, e, n),
         NEW q, FollowsScale(q, e, n),
         v * d <= u * e
  PROVE  \A k \in 0 .. n : (T[n - k] * p[k]) * S[n] <= (S[n - k] * q[k]) * T[n]
<1>1. \A m \in 0 .. n : /\ T[m] \in Nat /\ S[m] \in Nat
                        /\ m > 0 => S[m] \in Nat \ {0}
  BY SinhGrows
<1>2. \A k \in 0 .. n : p[k] \in Nat /\ q[k] \in Nat
  BY ScalePositive
<1>3. PICK t \in Nat, s \in Nat : t = T[n] /\ s = S[n]
  BY <1>1
<1> DEFINE N == {k \in Nat : k <= n => (T[n - k] * p[k]) * s <= (S[n - k] * q[k]) * t}
<1>4. 0 \in N
  <2>1. p[0] = 1 /\ q[0] = 1 /\ n - 0 = n
    BY DEF FollowsScale
  <2>2. (t * 1) * s <= (s * 1) * t
    <3>1. (t * 1) * s = (s * 1) * t /\ (t * 1) * s \in Int
      OBVIOUS
    <3> QED BY <3>1
  <2> QED BY <1>3, <2>1, <2>2
<1>5. ASSUME NEW k \in N PROVE k + 1 \in N
  <2> SUFFICES ASSUME k + 1 <= n
               PROVE  (T[n - (k + 1)] * p[k + 1]) * s <= (S[n - (k + 1)] * q[k + 1]) * t
    OBVIOUS
  <2>1. k \in Nat /\ (T[n - k] * p[k]) * s <= (S[n - k] * q[k]) * t
    OBVIOUS
  <2> HIDE DEF N
  <2>2. PICK m \in 0 .. n - 1 : m = n - (k + 1)
    BY <2>1
  <2>3. /\ m + 1 = n - k /\ m \in 0 .. n /\ m + 1 \in 0 .. n /\ m + 1 > 0
        /\ k \in 0 .. n /\ k \in 0 .. n - 1
    BY <2>1, <2>2
  <2>4. PICK a \in Nat, b \in Nat, f \in Nat, g \in Nat \ {0} :
          a = T[m] /\ b = T[m + 1] /\ f = S[m] /\ g = S[m + 1]
    BY <1>1, <2>3
  <2>5. PICK x \in Nat, y \in Nat :
          x = p[k] /\ y = q[k] /\ p[k + 1] = d * x /\ q[k + 1] = e * y
    BY <1>2, <2>3 DEF FollowsScale
  <2>6. (d * g) * a <= (e * b) * f
    BY <2>2, <2>4, SinhFaster
  <2>7. (b * x) * s <= (g * y) * t
    BY <2>1, <2>3, <2>4, <2>5
  <2>8. (a * (d * x)) * s <= (f * (e * y)) * t
    BY <2>6, <2>7, HoldsLessStep
  <2> QED BY <2>2, <2>4, <2>5, <2>8
<1>6. N = Nat
  <2> HIDE DEF N
  <2>1. N \in SUBSET Nat
    BY DEF N
  <2> QED BY <1>4, <1>5, <2>1, SetInduction
<1>7. \A k \in 0 .. n : (T[n - k] * p[k]) * s <= (S[n - k] * q[k]) * t
  BY <1>6
<1> QED BY <1>3, <1>7

----------------------------------------------------------------------------
(* The trajectory costs least *)

LEMMA Squares == ASSUME NEW x \in Int PROVE x * x \in Nat
<1>1. CASE x \in Nat
  BY <1>1, Products
<1>2. CASE -x \in Nat
  <2>1. (-x) * (-x) \in Nat
    BY <1>2, Products
  <2>2. (-x) * (-x) = x * x
    OBVIOUS
  <2> QED BY <2>1, <2>2
<1> QED BY <1>1, <1>2

\* The cost of one slice under another trajectory h, scaled by a denominator, against
\* that of x.
LEMMA SliceCost ==
  ASSUME NEW a \in Nat, NEW b \in Nat, NEW scale \in Int,
         NEW h1 \in Int, NEW h2 \in Int, NEW x1 \in Int, NEW x2 \in Int,
         NEW e1, e1 = scale * h1 - x1, NEW e2, e2 = scale * h2 - x2
  PROVE  a * ((x1 - x2) * (x1 - x2)) + b * (x2 * x2)
           <= (scale * scale) * (a * ((h1 - h2) * (h1 - h2)) + b * (h2 * h2))
                + (2 * (a * (x1 - x2)) * (e2 - e1) - 2 * (b * x2) * e2)
<1>1. e1 \in Int /\ e2 \in Int
  OBVIOUS
<1>2. a * ((e1 - e2) * (e1 - e2)) \in Nat /\ b * (e2 * e2) \in Nat
  BY <1>1, Squares, Products
<1>3. PICK l, m, c :
        /\ l = a * ((x1 - x2) * (x1 - x2)) + b * (x2 * x2)
        /\ m = (scale * scale) * (a * ((h1 - h2) * (h1 - h2)) + b * (h2 * h2))
        /\ c = 2 * (a * (x1 - x2)) * (e2 - e1) - 2 * (b * x2) * e2
  OBVIOUS
<1>4. l \in Int /\ m \in Int /\ c \in Int
  BY <1>1, <1>3
<1>5. m + c - l = a * ((e1 - e2) * (e1 - e2)) + b * (e2 * e2)
  BY <1>3
<1> QED BY <1>2, <1>3, <1>4, <1>5

\* What is sold in the slices of a trajectory, and what is held after them.
Paces(y, n) == [k \in 1 .. n |-> y[k] - y[k + 1]]
Rests(y, n) == [k \in 1 .. n |-> y[k + 1]]

\* A trajectory on which the pace falls by what the risk of holding costs is the
\* cheapest of those with its ends: slice by slice, what is lost to another one is at
\* most what that one is ahead by, and at the end it is ahead by nothing.
LEMMA CheapestCurve ==
  ASSUME NEW n \in Nat \ {0}, NEW a \in Nat, NEW b \in Nat, NEW scale \in Int,
         NEW x, NEW h, \A k \in 1 .. n + 1 : x[k] \in Int /\ h[k] \in Int,
         scale * h[1] = x[1], x[n + 1] = 0, h[n + 1] = 0,
         \A k \in 2 .. n : a * ((x[k - 1] - x[k]) - (x[k] - x[k + 1])) = b * x[k],
         NEW fx, fx = SumOfSquares(Paces(x, n)), NEW gx, gx = SumOfSquares(Rests(x, n)),
         NEW fh, fh = SumOfSquares(Paces(h, n)), NEW gh, gh = SumOfSquares(Rests(h, n))
  PROVE  /\ fx \in Int /\ gx \in Int /\ fh \in Int /\ gh \in Int
         /\ a * fx + b * gx <= (scale * scale) * (a * fh + b * gh)
<1> DEFINE F(y) == [k \in 1 .. n |-> (y[k] - y[k + 1]) * (y[k] - y[k + 1])]
           G(y) == [k \in 1 .. n |-> y[k + 1] * y[k + 1]]
           Sum(f, j) == SumFunctionOnSet(f, 1 .. j)
           Ahead(k) == scale * h[k] - x[k]
           Lead(j) == IF j < n THEN 2 * (a * (x[j + 1] - x[j + 2])) * Ahead(j + 1) ELSE 0
           Cost(y, j) == a * Sum(F(y), j) + b * Sum(G(y), j)
           N == {j \in Nat : j <= n => Cost(x, j) <= (scale * scale) * Cost(h, j) + Lead(j)}
<1>1. fx = Sum(F(x), n) /\ gx = Sum(G(x), n) /\ fh = Sum(F(h), n) /\ gh = Sum(G(h), n)
  <2>1. ASSUME NEW y
        PROVE  /\ SumOfSquares(Paces(y, n)) = Sum(F(y), n)
               /\ SumOfSquares(Rests(y, n)) = Sum(G(y), n)
    <3>0. PICK f, g : f = Paces(y, n) /\ g = Rests(y, n)
      OBVIOUS
    <3>1. f = [k \in 1 .. n |-> y[k] - y[k + 1]] /\ g = [k \in 1 .. n |-> y[k + 1]]
      BY <3>0 DEF Paces, Rests
    <3>2. DOMAIN f = 1 .. n /\ DOMAIN g = 1 .. n
      BY <3>1
    <3>3. [k \in 1 .. n |-> f[k] * f[k]] = F(y) /\ [k \in 1 .. n |-> g[k] * g[k]] = G(y)
      BY <3>1
    <3>4. SumOfSquares(f) = Sum(F(y), n)
      BY <3>2, <3>3 DEF SumOfSquares
    <3>5. SumOfSquares(g) = Sum(G(y), n)
      BY <3>2, <3>3 DEF SumOfSquares
    <3> QED BY <3>0, <3>4, <3>5
  <2> HIDE DEF Sum, F, G
  <2> QED BY <2>1
<1>2. ASSUME NEW y, \A k \in 1 .. n + 1 : y[k] \in Int
      PROVE  /\ \A k \in 1 .. n : F(y)[k] \in Int /\ G(y)[k] \in Int
             /\ \A j \in 0 .. n : Sum(F(y), j) \in Int /\ Sum(G(y), j) \in Int
             /\ Sum(F(y), 0) = 0 /\ Sum(G(y), 0) = 0
             /\ \A j \in 0 .. n - 1 :
                  /\ Sum(F(y), j + 1) = Sum(F(y), j)
                                          + (y[j + 1] - y[j + 2]) * (y[j + 1] - y[j + 2])
                  /\ Sum(G(y), j + 1) = Sum(G(y), j) + y[j + 2] * y[j + 2]
  <2>1. \A k \in 1 .. n : F(y)[k] \in Int /\ G(y)[k] \in Int
    <3> SUFFICES ASSUME NEW k \in 1 .. n PROVE F(y)[k] \in Int /\ G(y)[k] \in Int
      OBVIOUS
    <3>0. k \in 1 .. n + 1 /\ k + 1 \in 1 .. n + 1
      OBVIOUS
    <3>1. PICK v \in Int, w \in Int : v = y[k] /\ w = y[k + 1]
      BY <1>2, <3>0
    <3>2. F(y)[k] = (v - w) * (v - w) /\ G(y)[k] = w * w
      BY <3>1
    <3> QED BY <3>2
  <2>2. PICK f, g : f = F(y) /\ g = G(y)
    OBVIOUS
  <2>3. \A k \in 1 .. n : f[k] \in Int /\ g[k] \in Int
    BY <2>1, <2>2
  <2>4. \A j \in 0 .. n : Sum(f, j) \in Int /\ Sum(g, j) \in Int
    <3> SUFFICES ASSUME NEW j \in 0 .. n PROVE Sum(f, j) \in Int /\ Sum(g, j) \in Int
      OBVIOUS
    <3>1. IsFiniteSet(1 .. j)
      BY FS_Interval
    <3>2. \A k \in 1 .. j : f[k] \in Int /\ g[k] \in Int
      BY <2>3
    <3> QED BY <3>1, <3>2, SumType
  <2>5. Sum(f, 0) = 0 /\ Sum(g, 0) = 0
    <3>1. 1 .. 0 = {}
      OBVIOUS
    <3> QED BY <3>1, SumEmpty
  <2>6. ASSUME NEW j \in 0 .. n - 1
        PROVE  Sum(f, j + 1) = Sum(f, j) + f[j + 1] /\ Sum(g, j + 1) = Sum(g, j) + g[j + 1]
    <3>1. j \in Nat /\ \A i \in 1 .. j + 1 : f[i] \in Int /\ g[i] \in Int
      BY <2>3
    <3> QED BY <3>1, SumLast
  <2>7. ASSUME NEW j \in 0 .. n - 1
        PROVE  /\ f[j + 1] = (y[j + 1] - y[j + 2]) * (y[j + 1] - y[j + 2])
               /\ g[j + 1] = y[j + 2] * y[j + 2]
    <3>1. j + 1 \in 1 .. n /\ (j + 1) + 1 = j + 2
      OBVIOUS
    <3> QED BY <2>2, <3>1
  <2> HIDE DEF Sum, F, G
  <2> QED BY <2>1, <2>2, <2>4, <2>5, <2>6, <2>7
<1> HIDE DEF Sum, F, G
<1>3. 0 \in N
  <2>1. Ahead(1) = 0
    <3>1. PICK y \in Int : y = x[1] /\ scale * h[1] = y
      OBVIOUS
    <3> QED BY <3>1
  <2>2. Lead(0) = 0
    <3>0. 0 + 1 \in 1 .. n + 1 /\ 0 + 2 \in 1 .. n + 1
      OBVIOUS
    <3>1. PICK v \in Int, w \in Int : v = x[0 + 1] /\ w = x[0 + 2]
      BY <3>0
    <3>2. Lead(0) = 2 * (a * (v - w)) * Ahead(1)
      BY <3>1
    <3> QED BY <2>1, <3>2
  <2>3. Cost(x, 0) = 0 /\ Cost(h, 0) = 0
    <3>1. /\ Sum(F(x), 0) = 0 /\ Sum(G(x), 0) = 0
          /\ Sum(F(h), 0) = 0 /\ Sum(G(h), 0) = 0
      BY <1>2
    <3>2. a * 0 + b * 0 = 0
      OBVIOUS
    <3> QED BY <3>1, <3>2
  <2>4. Cost(x, 0) <= (scale * scale) * Cost(h, 0) + Lead(0)
    <3> HIDE DEF Cost, Lead
    <3>1. (scale * scale) * 0 = 0
      OBVIOUS
    <3> QED BY <2>2, <2>3, <3>1
  <2> HIDE DEF Cost, Lead
  <2> QED BY <2>4
<1>4. ASSUME NEW j \in N PROVE j + 1 \in N
  <2> SUFFICES ASSUME j + 1 <= n
               PROVE  Cost(x, j + 1) <= (scale * scale) * Cost(h, j + 1) + Lead(j + 1)
    BY DEF N
  <2>1. /\ j \in 0 .. n - 1 /\ j \in 0 .. n /\ j < n
        /\ Cost(x, j) <= (scale * scale) * Cost(h, j) + Lead(j)
    <3> HIDE DEF Cost, Lead
    <3> QED OBVIOUS
  <2> HIDE DEF N
  <2>2. PICK x1 \in Int, x2 \in Int, h1 \in Int, h2 \in Int :
          x1 = x[j + 1] /\ x2 = x[j + 2] /\ h1 = h[j + 1] /\ h2 = h[j + 2]
    <3>1. j + 1 \in 1 .. n + 1 /\ j + 2 \in 1 .. n + 1
      BY <2>1
    <3> QED BY <3>1
  <2>3. PICK sx \in Int, tx \in Int, sh \in Int, th \in Int :
          sx = Sum(F(x), j) /\ tx = Sum(G(x), j) /\ sh = Sum(F(h), j) /\ th = Sum(G(h), j)
    BY <1>2, <2>1
  <2>4. /\ Sum(F(x), j + 1) = sx + (x1 - x2) * (x1 - x2)
        /\ Sum(G(x), j + 1) = tx + x2 * x2
    BY <1>2, <2>1, <2>2, <2>3
  <2>5. /\ Sum(F(h), j + 1) = sh + (h1 - h2) * (h1 - h2)
        /\ Sum(G(h), j + 1) = th + h2 * h2
    BY <1>2, <2>1, <2>2, <2>3
  <2>6. PICK e1 \in Int, e2 \in Int :
          /\ e1 = Ahead(j + 1) /\ e1 = scale * h1 - x1
          /\ e2 = Ahead(j + 2) /\ e2 = scale * h2 - x2
    <3>1. Ahead(j + 1) = scale * h1 - x1 /\ Ahead(j + 2) = scale * h2 - x2
      BY <2>2
    <3>2. scale * h1 - x1 \in Int /\ scale * h2 - x2 \in Int
      OBVIOUS
    <3> HIDE DEF Ahead
    <3> QED BY <3>1, <3>2
  <2> HIDE DEF Ahead
  <2>7. Lead(j) = 2 * (a * (x1 - x2)) * e1
    BY <2>1, <2>2, <2>6
  <2>8. Lead(j + 1) = 2 * (a * (x1 - x2)) * e2 - 2 * (b * x2) * e2
    <3>1. CASE j + 1 < n
      <4>1. j + 2 \in 2 .. n /\ (j + 2) - 1 = j + 1 /\ (j + 2) + 1 = j + 3
            /\ (j + 1) + 1 = j + 2 /\ (j + 1) + 2 = j + 3 /\ j + 3 \in 1 .. n + 1
        BY <2>1, <3>1
      <4>2. PICK x3 \in Int : x3 = x[j + 3]
        BY <4>1
      <4>3. a * ((x1 - x2) - (x2 - x3)) = b * x2
        BY <2>2, <4>1, <4>2
      <4>4. Lead(j + 1) = 2 * (a * (x2 - x3)) * e2
        BY <2>2, <2>6, <3>1, <4>1, <4>2
      <4>5. a * (x2 - x3) = a * (x1 - x2) - b * x2
        BY <4>3
      <4>6. PICK u \in Int, v \in Int, w \in Int :
              u = a * (x2 - x3) /\ v = a * (x1 - x2) /\ w = b * x2 /\ u = v - w
        BY <4>5
      <4>7. 2 * (v - w) * e2 = 2 * v * e2 - 2 * w * e2
        OBVIOUS
      <4> HIDE DEF Lead
      <4> QED BY <4>4, <4>6, <4>7
    <3>2. CASE j + 1 = n
      <4>0. j + 2 = n + 1
        BY <2>1, <3>2
      <4>1. x2 = 0 /\ h2 = 0
        BY <2>2, <4>0
      <4>2. e2 = 0
        BY <2>6, <4>1
      <4>3. Lead(j + 1) = 0
        BY <3>2
      <4>4. 2 * (a * (x1 - x2)) * 0 - 2 * (b * x2) * 0 = 0
        OBVIOUS
      <4> HIDE DEF Lead
      <4> QED BY <4>2, <4>3, <4>4
    <3>3. j + 1 < n \/ j + 1 = n
      BY <2>1
    <3> QED BY <3>1, <3>2, <3>3
  <2>9. a * ((x1 - x2) * (x1 - x2)) + b * (x2 * x2)
          <= (scale * scale) * (a * ((h1 - h2) * (h1 - h2)) + b * (h2 * h2))
               + (2 * (a * (x1 - x2)) * (e2 - e1) - 2 * (b * x2) * e2)
    BY <2>6, SliceCost
  <2>10. /\ Cost(x, j) = a * sx + b * tx
         /\ Cost(h, j) = a * sh + b * th
         /\ Cost(x, j + 1) = (a * sx + b * tx) + (a * ((x1 - x2) * (x1 - x2)) + b * (x2 * x2))
         /\ Cost(h, j + 1) = (a * sh + b * th) + (a * ((h1 - h2) * (h1 - h2)) + b * (h2 * h2))
    <3>1. Cost(x, j) = a * sx + b * tx /\ Cost(h, j) = a * sh + b * th
      BY <2>3
    <3>2. /\ Cost(x, j + 1) = a * (sx + (x1 - x2) * (x1 - x2)) + b * (tx + x2 * x2)
          /\ Cost(h, j + 1) = a * (sh + (h1 - h2) * (h1 - h2)) + b * (th + h2 * h2)
      BY <2>4, <2>5
    <3> HIDE DEF Cost
    <3> QED BY <3>1, <3>2
  <2> HIDE DEF Cost, Lead
  <2>11. PICK cx \in Int, ch \in Int, dx \in Int, dh \in Int :
           /\ cx = a * sx + b * tx /\ ch = a * sh + b * th
           /\ dx = a * ((x1 - x2) * (x1 - x2)) + b * (x2 * x2)
           /\ dh = a * ((h1 - h2) * (h1 - h2)) + b * (h2 * h2)
    OBVIOUS
  <2>12. PICK m1 \in Int, m2 \in Int, m3 \in Int :
           /\ m1 = 2 * (a * (x1 - x2)) * e1 /\ m2 = 2 * (a * (x1 - x2)) * e2
           /\ m3 = 2 * (b * x2) * e2
           /\ 2 * (a * (x1 - x2)) * (e2 - e1) = m2 - m1
    OBVIOUS
  <2>13. /\ cx <= (scale * scale) * ch + m1
         /\ dx <= (scale * scale) * dh + ((m2 - m1) - m3)
         /\ Cost(x, j + 1) = cx + dx /\ Cost(h, j + 1) = ch + dh
         /\ Lead(j + 1) = m2 - m3
    BY <2>1, <2>7, <2>8, <2>9, <2>10, <2>11, <2>12
  <2>14. PICK z \in Int : z = scale * scale
    OBVIOUS
  <2>15. cx + dx <= z * (ch + dh) + (m2 - m3)
    <3>1. z * (ch + dh) = z * ch + z * dh /\ z * ch \in Int /\ z * dh \in Int
      OBVIOUS
    <3> QED BY <2>13, <2>14, <3>1
  <2> QED BY <2>13, <2>14, <2>15
<1>5. N = Nat
  <2> HIDE DEF N
  <2>1. N \in SUBSET Nat
    BY DEF N
  <2> QED BY <1>3, <1>4, <2>1, SetInduction
<1>6. Cost(x, n) <= (scale * scale) * Cost(h, n) + Lead(n)
  <2> HIDE DEF Cost, Lead
  <2>1. n \in N
    <3> HIDE DEF N
    <3> QED BY <1>5
  <2> QED BY <2>1
<1>7. Lead(n) = 0
  OBVIOUS
<1>8. fx \in Int /\ gx \in Int /\ fh \in Int /\ gh \in Int
  <2>1. n \in 0 .. n
    OBVIOUS
  <2>2. Sum(F(x), n) \in Int /\ Sum(G(x), n) \in Int
    BY <1>2, <2>1
  <2>3. Sum(F(h), n) \in Int /\ Sum(G(h), n) \in Int
    BY <1>2, <2>1
  <2> QED BY <1>1, <2>2, <2>3
<1>9. a * fx + b * gx <= (scale * scale) * (a * fh + b * gh) + 0
  <2> HIDE DEF Lead
  <2> QED BY <1>1, <1>6, <1>7
<1>10. PICK v : v = (scale * scale) * (a * fh + b * gh)
  OBVIOUS
<1>11. v \in Int /\ v + 0 = v
  <2>1. PICK y, z : y = scale * scale /\ z = a * fh + b * gh
    OBVIOUS
  <2>2. y \in Int /\ z \in Int
    BY <1>8, <2>1
  <2>3. v = y * z
    BY <1>10, <2>1
  <2> QED BY <2>2, <2>3
<1> QED BY <1>8, <1>9, <1>10, <1>11

----------------------------------------------------------------------------
(* The calls of implementation shortfall *)

\* What the checks leave to the loops.
Tradable(r) ==
  r \in ShortfallCalls /\ Sliceable(r) /\ r.qty \in Nat \ {0} /\ Sound(r)

LEMMA ShortfallCallTypes ==
  ASSUME NEW r \in ShortfallCalls
  PROVE  /\ r.start \in Nat /\ r.end \in Nat /\ r.qty \in Nat /\ r.slices \in Nat
         /\ r.risk \in Int /\ r.volatility \in Int /\ r.temporary \in Int /\ r.permanent \in Int
         /\ Sound(r) \in BOOLEAN /\ Second \in Nat \ {0}
<1>1. r \in [start : Nat, end : Nat, qty : Nat, slices : Nat,
             risk : Int, volatility : Int, temporary : Int, permanent : Int]
  BY ShortfallAssumption
<1>2. Sound(r) \in BOOLEAN
  BY DEF Sound
<1>3. Second \in Nat \ {0}
  BY ShortfallAssumption
<1> QED BY <1>1, <1>2, <1>3

LEMMA ShortfallChecksPassed ==
  ASSUME NEW r \in ShortfallCalls
  PROVE  /\ ShortfallChecks(r) \in Seq(Listed)
         /\ AllPass(ShortfallChecks(r)) => Tradable(r)
<1> DEFINE last == <<Check(~Sound(r), "InvalidParameter")>>
<1>1. ShortfallChecks(r) = WindowChecks(r) \o last
  BY DEF ShortfallChecks
<1>2. PICK b \in BOOLEAN : b = ~Sound(r)
  BY ShortfallCallTypes
<1>3. last \in Seq(Listed)
  <2>1. Check(b, "InvalidParameter") \in Listed
    BY CheckType DEF Errors
  <2>2. last = <<Check(b, "InvalidParameter")>>
    BY <1>2
  <2> HIDE DEF last
  <2> QED BY <2>1, <2>2
<1>4. AllPass(last) => Sound(r)
  <2> SUFFICES ASSUME AllPass(last) PROVE Sound(r)
    OBVIOUS
  <2>1. ~last[1].fails
    BY DEF AllPass
  <2> QED BY <2>1 DEF Check
<1> HIDE DEF last
<1>5. /\ WindowChecks(r) \in Seq(Listed)
      /\ AllPass(WindowChecks(r)) => Sliceable(r) /\ r.qty \in Nat \ {0}
  BY ShortfallCallTypes, WindowChecksPassed
<1>6. AllPass(ShortfallChecks(r)) => AllPass(WindowChecks(r)) /\ AllPass(last)
  BY <1>1, <1>3, <1>5, PassBoth
<1>7. ShortfallChecks(r) \in Seq(Listed)
  BY <1>1, <1>3, <1>5, ConcatProperties
<1> QED BY <1>4, <1>5, <1>6, <1>7 DEF Tradable

LEMMA RatioTypes ==
  ASSUME NEW r, Tradable(r)
  PROVE  /\ UrgencyRatio(r)[1] \in Nat
         /\ UrgencyRatio(r)[2] \in Nat \ {0}
         /\ Eta(r) * Horizon(r) = UrgencyRatio(r)[2]
         /\ UrgencyRatio(r)[1]
              = 2 * r.risk * r.volatility * r.volatility * DurationOf(r) * DurationOf(r)
         /\ UrgencyRatio(r)[1] = 0 <=> r.risk * r.volatility = 0
<1>1. PICK d \in Nat \ {0} : d = DurationOf(r)
  BY DEF Tradable, Sliceable, DurationOf
<1>2. PICK a \in Nat, v \in Nat : a = r.risk /\ v = r.volatility
  BY ShortfallCallTypes DEF Tradable, Sound
<1>3. PICK h \in Nat \ {0} : h = Horizon(r)
  <2>1. Second * r.slices \in Nat /\ Second * r.slices > 0
    BY ShortfallCallTypes, Products DEF Tradable, Sliceable
  <2> QED BY <2>1 DEF Horizon
<1>4. PICK e \in Nat \ {0} : e = Eta(r)
  <2>1. PICK t \in Int, m \in Int : t = r.temporary /\ m = r.permanent
    BY ShortfallCallTypes DEF Tradable
  <2>2. Eta(r) = 2 * t * h - m * d
    BY <1>1, <1>3, <2>1 DEF Eta
  <2>3. Eta(r) > 0
    BY DEF Tradable, Sound
  <2> QED BY <2>2, <2>3
<1>5. UrgencyRatio(r)[1] = 2 * a * v * v * d * d /\ UrgencyRatio(r)[2] = h * e
  BY <1>1, <1>2, <1>3, <1>4 DEF UrgencyRatio
<1>6. /\ 2 * a * v * v * d * d \in Nat
      /\ 2 * a * v * v * d * d = 0 <=> a * v = 0
  <2>1. PICK x \in Nat, y \in Nat, z \in Nat : x = a * v /\ y = v /\ z = d * d /\ z > 0
    BY Products
  <2>2. 2 * a * v * v * d * d = 2 * ((x * y) * z)
    BY <2>1
  <2>3. PICK w \in Nat : w = x * y
    BY Products
  <2>4. w * z \in Nat /\ (w > 0 => w * z > 0)
    BY <2>1, <2>3, Products
  <2>5. x = 0 => w * z = 0
    <3>1. 0 * y = 0 /\ 0 * z = 0
      OBVIOUS
    <3> QED BY <2>3, <3>1
  <2>6. x > 0 => w > 0
    <3>1. v = 0 => x = 0
      <4>1. a * 0 = 0
        OBVIOUS
      <4> QED BY <2>1, <4>1
    <3> QED BY <2>1, <2>3, <3>1, Products
  <2> QED BY <2>1, <2>2, <2>4, <2>5, <2>6
<1>7. h * e \in Nat /\ h * e > 0 /\ h * e = e * h
  BY Products
<1> QED BY <1>1, <1>2, <1>3, <1>4, <1>5, <1>6, <1>7

\* The curve of a call follows the recurrences of its urgency in lowest terms.
LEMMA CurveOfCall ==
  ASSUME NEW r, Tradable(r)
  PROVE  \E u \in Nat, d \in Nat \ {0}, common \in Nat \ {0} :
           /\ UrgencyRatio(r)[1] = u * common /\ UrgencyRatio(r)[2] = d * common
           /\ FollowsSinh(Sinh(r), u, d, r.slices)
           /\ FollowsScale(Scale(r), d, r.slices)
           /\ NoUrgency(r) <=> u = 0
<1>1. PICK num \in Nat, den \in Nat \ {0} :
        num = UrgencyRatio(r)[1] /\ den = UrgencyRatio(r)[2]
  BY RatioTypes
<1>2. PICK common : common = Max({n \in 1 .. den : den % n = 0 /\ num % n = 0})
  OBVIOUS
<1>3. PICK u, d : u = num \div common /\ d = den \div common
  OBVIOUS
<1>4. /\ common \in Nat \ {0} /\ u \in Nat /\ d \in Nat \ {0}
      /\ num = u * common /\ den = d * common
  BY <1>2, <1>3, LowestTerms
<1>5. Urgency(r) = <<u, d>>
  BY <1>1, <1>2, <1>3 DEF Urgency
<1>6. Urgency(r)[1] = u /\ Urgency(r)[2] = d
  BY <1>5
<1>7. PICK n \in Nat \ {0} : n = r.slices
  BY DEF Tradable, Sliceable
<1>8. Sinh(r) = SinhCurve(u, d, n)
  BY <1>6, <1>7 DEF Sinh, SinhCurve
<1>9. Scale(r) = ScaleCurve(d, n)
  BY <1>6, <1>7 DEF Scale, ScaleCurve
<1>10. FollowsSinh(SinhCurve(u, d, n), u, d, n) /\ FollowsScale(ScaleCurve(d, n), d, n)
  BY <1>4, SinhExists, ScaleExists
<1>11. NoUrgency(r) <=> u = 0
  BY <1>6 DEF NoUrgency
<1> QED BY <1>1, <1>4, <1>7, <1>8, <1>9, <1>10, <1>11

LEMMA FlatCalls ==
  ASSUME NEW r, Tradable(r)
  PROVE  NoUrgency(r) <=> r.risk * r.volatility = 0
<1>1. PICK u \in Nat, d \in Nat \ {0}, common \in Nat \ {0} :
        UrgencyRatio(r)[1] = u * common /\ (NoUrgency(r) <=> u = 0)
  BY CurveOfCall
<1>2. u * common = 0 <=> u = 0
  <2>1. 0 * common = 0 /\ (u > 0 => u * common > 0)
    BY Products
  <2> QED BY <2>1
<1> QED BY <1>1, <1>2, RatioTypes

----------------------------------------------------------------------------
(* What is held *)

\* What is held after k of the slices, in parts of Denominator(r).
LEMMA Holdings ==
  ASSUME NEW r, Tradable(r)
  PROVE  /\ Denominator(r) \in Nat \ {0}
         /\ Holding(r, 0) = r.qty * Denominator(r) /\ Holding(r, 0) > 0
         /\ Holding(r, r.slices) = 0
         /\ \A k \in 0 .. r.slices : /\ Holding(r, k) \in Nat
                                     /\ Holding(r, k) <= r.qty * Denominator(r)
         /\ \A k \in 0 .. r.slices - 1 : Holding(r, k + 1) <= Holding(r, k)
<1>1. PICK n \in Nat \ {0}, q \in Nat \ {0} : n = r.slices /\ q = r.qty
  BY DEF Tradable, Sliceable
<1>2. PICK T, p : T = Sinh(r) /\ p = Scale(r)
  OBVIOUS
<1>3. PICK u \in Nat, d \in Nat \ {0} : FollowsSinh(T, u, d, n) /\ FollowsScale(p, d, n)
  BY <1>1, <1>2, CurveOfCall
<1>4. PICK t \in Nat \ {0} : t = T[n] /\ t = Denominator(r)
  BY <1>1, <1>2, <1>3, CurveFalls DEF Denominator
<1>5. \A k \in 0 .. n : T[n - k] \in Int /\ p[k] \in Int
  <2> SUFFICES ASSUME NEW k \in 0 .. n PROVE T[n - k] \in Int /\ p[k] \in Int
    OBVIOUS
  <2>1. n - k \in 0 .. n
    OBVIOUS
  <2> QED BY <1>3, <2>1 DEF FollowsSinh, FollowsScale
<1>6. \A k \in 0 .. n : Holding(r, k) = q * (T[n - k] * p[k])
  <2> SUFFICES ASSUME NEW k \in 0 .. n PROVE Holding(r, k) = q * (T[n - k] * p[k])
    OBVIOUS
  <2>1. PICK x \in Int, y \in Int : x = T[n - k] /\ y = p[k]
    BY <1>5
  <2>2. Holding(r, k) = q * x * y
    BY <1>1, <1>2, <2>1 DEF Holding
  <2> QED BY <2>1, <2>2
<1>7. /\ T[n - 0] * p[0] = t /\ T[n - n] * p[n] = 0
      /\ \A k \in 0 .. n : T[n - k] * p[k] \in 0 .. t
      /\ \A k \in 0 .. n - 1 : T[n - (k + 1)] * p[k + 1] <= T[n - k] * p[k]
  <2>1. /\ T[n - 0] * p[0] = T[n] /\ T[n - n] * p[n] = 0
        /\ \A k \in 0 .. n : T[n - k] * p[k] \in 0 .. T[n]
    BY <1>3, CurveFalls
  <2>2. \A k \in 0 .. n - 1 : T[n - (k + 1)] * p[k + 1] <= T[n - k] * p[k]
    BY <1>3, CurveFalls
  <2> QED BY <1>4, <2>1, <2>2
<1>8. Holding(r, 0) = q * t /\ Holding(r, n) = 0 /\ q * t > 0
  <2>1. 0 \in 0 .. n /\ n \in 0 .. n /\ q * 0 = 0 /\ q * t > 0
    BY Products
  <2> QED BY <1>6, <1>7, <2>1
<1>9. ASSUME NEW k \in 0 .. n PROVE Holding(r, k) \in Nat /\ Holding(r, k) <= q * t
  <2>1. PICK x \in Nat : x = T[n - k] * p[k] /\ x <= t
    BY <1>7
  <2>2. q * x \in Nat /\ q * x <= q * t
    BY <2>1, Products, ProductMonotone
  <2> QED BY <1>6, <2>1, <2>2
<1>10. ASSUME NEW k \in 0 .. n - 1 PROVE Holding(r, k + 1) <= Holding(r, k)
  <2>1. k \in 0 .. n /\ k + 1 \in 0 .. n
    OBVIOUS
  <2>2. PICK x \in Int, y \in Int : x = T[n - (k + 1)] * p[k + 1] /\ y = T[n - k] * p[k]
    BY <1>7, <2>1
  <2>3. q * x <= q * y
    BY <1>7, <2>2, ProductMonotone
  <2> QED BY <1>6, <2>1, <2>2, <2>3
<1> QED BY <1>1, <1>4, <1>8, <1>9, <1>10

LEMMA HoldsBelowEven ==
  ASSUME NEW r, Tradable(r), ~NoUrgency(r), NEW k \in 1 .. r.slices - 1
  PROVE  r.slices * Holding(r, k) < r.qty * ((r.slices - k) * Denominator(r))
<1>1. PICK n \in Nat \ {0}, q \in Nat \ {0} : n = r.slices /\ q = r.qty
  BY DEF Tradable, Sliceable
<1>2. PICK T, p : T = Sinh(r) /\ p = Scale(r)
  OBVIOUS
<1>3. PICK u \in Nat, d \in Nat \ {0} :
        FollowsSinh(T, u, d, n) /\ FollowsScale(p, d, n) /\ u > 0
  BY <1>1, <1>2, CurveOfCall
<1>4. k \in 0 .. n /\ 0 < k /\ k < n /\ n - k \in 0 .. n /\ n \in 0 .. n
  BY <1>1
<1>5. PICK x \in Int, y \in Int, t \in Int : x = T[n - k] /\ y = p[k] /\ t = T[n]
  BY <1>3, <1>4 DEF FollowsSinh, FollowsScale
<1>6. n * (x * y) < (n - k) * t
  BY <1>3, <1>4, <1>5, CurveAheadOfEven
<1>7. n * (x * y) + 1 <= (n - k) * t
  <2>1. n * (x * y) \in Int /\ (n - k) * t \in Int
    BY <1>4
  <2> QED BY <1>6, <2>1
<1>8. q * (n * (x * y) + 1) <= q * ((n - k) * t)
  <2>1. n * (x * y) + 1 \in Int /\ (n - k) * t \in Int
    BY <1>4
  <2> QED BY <1>7, <2>1, ProductMonotone
<1>9. q * (n * (x * y) + 1) = n * (q * x * y) + q
  OBVIOUS
<1>10. Holding(r, k) = q * x * y /\ Denominator(r) = t
  BY <1>1, <1>2, <1>5 DEF Holding, Denominator
<1>11. PICK l \in Int, m \in Int : l = n * (q * x * y) /\ m = q * ((n - k) * t)
  BY <1>4
<1>12. l + q <= m
  BY <1>8, <1>9, <1>11
<1>13. l < m
  BY <1>12
<1> QED BY <1>1, <1>10, <1>11, <1>13

LEMMA AverseHoldsLess ==
  ASSUME NEW r, Tradable(r), NEW s, Tradable(s),
         s.slices = r.slices, s.qty = r.qty,
         UrgencyRatio(s)[2] = UrgencyRatio(r)[2],
         UrgencyRatio(s)[1] <= UrgencyRatio(r)[1],
         NEW k \in 0 .. r.slices
  PROVE  Holding(r, k) * Denominator(s) <= Holding(s, k) * Denominator(r)
<1>1. PICK n \in Nat \ {0}, q \in Nat \ {0} :
        n = r.slices /\ q = r.qty /\ n = s.slices /\ q = s.qty
  BY DEF Tradable, Sliceable
<1>2. PICK T, p, S, o : T = Sinh(r) /\ p = Scale(r) /\ S = Sinh(s) /\ o = Scale(s)
  OBVIOUS
<1>3. PICK u \in Nat, d \in Nat \ {0}, c \in Nat \ {0} :
        /\ FollowsSinh(T, u, d, n) /\ FollowsScale(p, d, n)
        /\ UrgencyRatio(r)[1] = u * c /\ UrgencyRatio(r)[2] = d * c
  BY <1>1, <1>2, CurveOfCall
<1>4. PICK v \in Nat, e \in Nat \ {0}, b \in Nat \ {0} :
        /\ FollowsSinh(S, v, e, n) /\ FollowsScale(o, e, n)
        /\ UrgencyRatio(s)[1] = v * b /\ UrgencyRatio(s)[2] = e * b
  BY <1>1, <1>2, CurveOfCall
<1>5. v * d <= u * e
  <2>1. e * b = d * c /\ v * b <= u * c
    BY <1>3, <1>4
  <2>2. e * (v * b) <= e * (u * c)
    <3>1. v * b \in Int /\ u * c \in Int
      OBVIOUS
    <3> QED BY <2>1, <3>1, ProductMonotone
  <2>3. e * (v * b) = c * (v * d)
    <3>1. e * (v * b) = v * (e * b) /\ c * (v * d) = v * (d * c)
      OBVIOUS
    <3> QED BY <2>1, <3>1
  <2>4. e * (u * c) = c * (u * e)
    OBVIOUS
  <2>5. v * d \in Int /\ u * e \in Int /\ c * (v * d) <= c * (u * e)
    BY <2>2, <2>3, <2>4
  <2> QED BY <2>5, ProductCancels
<1>6. k \in 0 .. n /\ n - k \in 0 .. n /\ n \in 0 .. n
  BY <1>1
<1>7. PICK x \in Int, y \in Int, t \in Int, f \in Int, g \in Int, w \in Int :
        /\ x = T[n - k] /\ y = p[k] /\ t = T[n]
        /\ f = S[n - k] /\ g = o[k] /\ w = S[n]
  BY <1>3, <1>4, <1>6 DEF FollowsSinh, FollowsScale
<1>8. (x * y) * w <= (f * g) * t
  BY <1>3, <1>4, <1>5, <1>6, <1>7, FasterHoldsLess
<1>9. q * ((x * y) * w) <= q * ((f * g) * t)
  BY <1>8, ProductMonotone
<1>10. q * ((x * y) * w) = (q * x * y) * w /\ q * ((f * g) * t) = (q * f * g) * t
  OBVIOUS
<1>11. /\ Holding(r, k) = q * x * y /\ Denominator(r) = t
       /\ Holding(s, k) = q * f * g /\ Denominator(s) = w
  BY <1>1, <1>2, <1>7 DEF Holding, Denominator
<1> QED BY <1>9, <1>10, <1>11

\* The pace falls by what the risk of holding costs.
LEMMA PaceFalls ==
  ASSUME NEW r, Tradable(r), NEW k \in 1 .. r.slices - 1
  PROVE  UrgencyRatio(r)[2] * ((Holding(r, k - 1) - Holding(r, k))
                                 - (Holding(r, k) - Holding(r, k + 1)))
           = UrgencyRatio(r)[1] * Holding(r, k)
<1>1. PICK n \in Nat \ {0}, q \in Nat \ {0} : n = r.slices /\ q = r.qty
  BY DEF Tradable, Sliceable
<1>2. PICK T, p : T = Sinh(r) /\ p = Scale(r)
  OBVIOUS
<1>3. PICK u \in Nat, d \in Nat \ {0}, c \in Nat \ {0} :
        /\ FollowsSinh(T, u, d, n) /\ FollowsScale(p, d, n)
        /\ UrgencyRatio(r)[1] = u * c /\ UrgencyRatio(r)[2] = d * c
  BY <1>1, <1>2, CurveOfCall
<1>4. PICK m \in 1 .. n - 1 : /\ m = n - k /\ n - (k - 1) = m + 1 /\ n - (k + 1) = m - 1
                              /\ m + 1 \in 0 .. n /\ m - 1 \in 0 .. n /\ m \in 0 .. n
                              /\ k - 1 \in 0 .. n - 1 /\ k \in 0 .. n - 1
                              /\ (k - 1) + 1 = k /\ k - 1 \in 0 .. n
  BY <1>1
<1>5. PICK a \in Int, b \in Int, e \in Int, x \in Int :
        a = T[m - 1] /\ b = T[m] /\ e = T[m + 1] /\ x = p[k - 1]
  BY <1>3, <1>4 DEF FollowsSinh, FollowsScale
<1>6. e = (2 * d + u) * b - d * d * a
  BY <1>3, <1>5 DEF FollowsSinh
<1>7. p[k] = d * x /\ p[k + 1] = d * (d * x)
  <2>1. p[(k - 1) + 1] = d * p[k - 1] /\ p[k + 1] = d * p[k]
    BY <1>3, <1>4 DEF FollowsScale
  <2> QED BY <1>4, <1>5, <2>1
<1>8. /\ Holding(r, k - 1) = q * e * x
      /\ Holding(r, k) = q * b * (d * x)
      /\ Holding(r, k + 1) = q * a * (d * (d * x))
  BY <1>1, <1>2, <1>4, <1>5, <1>7 DEF Holding
<1>9. (d * c) * ((q * e * x - q * b * (d * x)) - (q * b * (d * x) - q * a * (d * (d * x))))
        = (u * c) * (q * b * (d * x))
  BY <1>6
<1> QED BY <1>3, <1>8, <1>9

----------------------------------------------------------------------------
(* The rounded curve *)

LEMMA TwapBound ==
  ASSUME NEW total \in Nat, NEW n \in Nat \ {0}, NEW k \in 1 .. n
  PROVE  /\ TwapTarget(total, n, k) \in Nat
         /\ 2 * (n * TwapTarget(total, n, k)) <= 2 * (total * k) + n
         /\ TwapTarget(total, n, n) = total
<1>1. k \in Nat
  OBVIOUS
<1> QED BY <1>1, TwapStaysPaced

LEMMA TwapWithinTotal ==
  ASSUME NEW total \in Nat \ {0}, NEW n \in Nat \ {0}, NEW k \in 1 .. n
  PROVE  TwapTarget(total, n, k) \in 0 .. total
<1>1. PICK t \in Nat : /\ t = TwapTarget(total, n, k)
                       /\ 2 * (n * t) <= 2 * (total * k) + n
                       /\ k = n => t = total
  BY TwapBound
<1>2. CASE k = n
  BY <1>1, <1>2
<1>3. CASE k < n
  <2>1. ASSUME t > total PROVE FALSE
    <3>1. n * (total + 1) <= n * t
      BY <2>1, ProductMonotone
    <3>2. total * k <= total * (n - 1)
      BY <1>3, ProductMonotone
    <3>3. PICK x \in Int, y \in Int, z \in Int : x = n * t /\ y = total * k /\ z = n * total
      OBVIOUS
    <3>4. z + n <= x /\ y <= z - total /\ 2 * x <= 2 * y + n
      <4>1. n * (total + 1) = z + n /\ total * (n - 1) = z - total
        BY <3>3
      <4> QED BY <1>1, <3>1, <3>2, <3>3, <4>1
    <3> QED BY <3>4
  <2> QED BY <1>1, <2>1
<1> QED BY <1>2, <1>3

\* A quantity off the curve by at most half a unit is not behind TWAP where the curve
\* is ahead of the even pace.
LEMMA NearestAhead ==
  ASSUME NEW q \in Nat \ {0}, NEW n \in Nat \ {0}, NEW k \in Nat,
         NEW t \in Nat \ {0}, NEW x \in Int, n * x < q * ((n - k) * t),
         NEW v \in Int, -t <= 2 * (v * t - (q * t - x)),
         NEW w \in Nat, 2 * (n * w) <= 2 * (q * k) + n
  PROVE  w <= v
<1> SUFFICES ASSUME v + 1 <= w PROVE FALSE
  OBVIOUS
<1>1. n * (v + 1) <= n * w
  BY ProductMonotone
<1>2. PICK e \in Int : e = 2 * (v * t - (q * t - x))
  OBVIOUS
<1>3. n * (-t) <= n * e
  BY <1>2, ProductMonotone
<1>4. n * e = 2 * (n * v) * t - 2 * (n * q) * t + 2 * (n * x)
  BY <1>2
<1>5. PICK a \in Int, b \in Int, c \in Int, y \in Int :
        a = n * v /\ b = n * w /\ c = q * k /\ y = n * x
  OBVIOUS
<1>6. a + n <= b /\ 2 * b <= 2 * c + n
  <2>1. n * (v + 1) = a + n
    BY <1>5
  <2> QED BY <1>1, <1>5, <2>1
<1>7. 2 * a + n <= 2 * c
  BY <1>6
<1>8. t * (2 * a + n) <= t * (2 * c)
  BY <1>7, ProductMonotone
<1>9. q * ((n - k) * t) = (n * q) * t - c * t
  BY <1>5
<1>10. PICK g \in Int, h \in Int, i \in Int, j \in Int :
         g = (n * q) * t /\ h = c * t /\ i = a * t /\ j = n * t
  OBVIOUS
<1>11. y < g - h
  BY <1>5, <1>9, <1>10
<1>12. -j <= 2 * i - 2 * g + 2 * y
  <2>1. n * (-t) = -j /\ 2 * a * t = 2 * i /\ 2 * (n * q) * t = 2 * g
    BY <1>10
  <2> QED BY <1>3, <1>4, <1>5, <2>1
<1>13. 2 * i + j <= 2 * h
  <2>1. t * (2 * a + n) = 2 * i + j /\ t * (2 * c) = 2 * h
    BY <1>10
  <2> QED BY <1>8, <2>1
<1> QED BY <1>11, <1>12, <1>13

LEMMA NearestWithin ==
  ASSUME NEW q \in Nat, NEW t \in Nat \ {0}, NEW num \in 0 .. q * t, NEW v \in Nearest(num, t)
  PROVE  v \in 0 .. q /\ -t <= 2 * (v * t - num)
<1>1. num \in Nat /\ q * t \in Nat /\ num <= q * t
  BY Products
<1>2. num \div t \in Nat
  BY <1>1, DivisionBounds
<1>3. v \in Nat /\ 2 * (v * t - num) \in -t .. t
  BY <1>2 DEF Nearest
<1>4. ASSUME q + 1 <= v PROVE FALSE
  <2>1. t * (q + 1) <= t * v
    BY <1>3, <1>4, ProductMonotone
  <2>2. t * (q + 1) = q * t + t /\ t * v = v * t
    BY <1>3
  <2>3. PICK x \in Int, y \in Int : x = v * t /\ y = q * t
    BY <1>3
  <2>4. y + t <= x /\ 2 * (x - num) <= t /\ num <= y
    BY <1>1, <1>3, <2>1, <2>2, <2>3
  <2> QED BY <1>1, <2>3, <2>4
<1> QED BY <1>3, <1>4

LEMMA RoundedTarget ==
  ASSUME NEW r, Tradable(r), NEW k \in 1 .. r.slices,
         NEW v \in Nearest(Holding(r, 0) - Holding(r, k), Denominator(r))
  PROVE  /\ v \in 0 .. r.qty
         /\ ~NoUrgency(r) /\ k < r.slices => TwapTarget(r.qty, r.slices, k) <= v
<1>1. PICK n \in Nat \ {0}, q \in Nat \ {0} : n = r.slices /\ q = r.qty
  BY DEF Tradable, Sliceable
<1>2. PICK t \in Nat \ {0}, x \in Nat :
        t = Denominator(r) /\ x = Holding(r, k) /\ Holding(r, 0) = q * t /\ x <= q * t
  <2>1. k \in 0 .. r.slices
    BY <1>1
  <2> QED BY <1>1, <2>1, Holdings
<1>3. q * t - x \in 0 .. q * t
  BY <1>2, Products
<1>4. v \in 0 .. q /\ -t <= 2 * (v * t - (q * t - x))
  BY <1>2, <1>3, NearestWithin
<1>5. ASSUME ~NoUrgency(r), k < n PROVE TwapTarget(q, n, k) <= v
  <2>1. k \in 1 .. r.slices - 1
    BY <1>1, <1>5
  <2>2. n * x < q * ((n - k) * t)
    BY <1>1, <1>2, <1>5, <2>1, HoldsBelowEven
  <2>3. PICK w \in Nat : w = TwapTarget(q, n, k) /\ 2 * (n * w) <= 2 * (q * k) + n
    BY <1>1, TwapBound
  <2>4. k \in Nat /\ v \in Int
    BY <1>1, <1>4
  <2> QED BY <1>4, <2>2, <2>3, <2>4, NearestAhead
<1> QED BY <1>1, <1>4, <1>5

----------------------------------------------------------------------------
(* The cheapest trajectory *)

\* is.rs:17-18: no trajectory of whole units that sells the total in these slices is
\* cheaper than the curve, whatever the units and however far it strays.
THEOREM NoTrajectoryCheaper ==
  ASSUME NEW r, Tradable(r),
         NEW x, \A k \in 1 .. r.slices + 1 : x[k] = Holding(r, k - 1),
         NEW h, \A k \in 1 .. r.slices + 1 : h[k] \in Int,
         h[1] = r.qty, h[r.slices + 1] = 0
  PROVE  Objective(r, x) <= Denominator(r) * Denominator(r) * Objective(r, h)
<1>1. PICK n \in Nat \ {0}, q \in Nat \ {0} : n = r.slices /\ q = r.qty
  BY DEF Tradable, Sliceable
<1>2. PICK a \in Nat, b \in Nat :
        /\ a = UrgencyRatio(r)[2] /\ b = UrgencyRatio(r)[1]
        /\ Eta(r) * Horizon(r) = a
        /\ 2 * r.risk * r.volatility * r.volatility * DurationOf(r) * DurationOf(r) = b
  BY RatioTypes
<1>3. PICK t \in Nat : t = Denominator(r) /\ Holding(r, 0) = q * t /\ Holding(r, n) = 0
  BY <1>1, Holdings
<1>4. \A k \in 1 .. n + 1 : x[k] \in Int /\ h[k] \in Int
  <2> SUFFICES ASSUME NEW k \in 1 .. n + 1 PROVE x[k] \in Int
    BY <1>1
  <2>1. k - 1 \in 0 .. n
    BY <1>1
  <2> QED BY <1>1, <2>1, Holdings
<1>5. t * h[1] = x[1] /\ x[n + 1] = 0 /\ h[n + 1] = 0
  <2>1. 1 \in 1 .. n + 1 /\ n + 1 \in 1 .. n + 1 /\ 1 - 1 = 0 /\ (n + 1) - 1 = n
    BY <1>1
  <2>2. x[1] = Holding(r, 0) /\ x[n + 1] = Holding(r, n)
    BY <1>1, <2>1
  <2>3. t * q = q * t
    OBVIOUS
  <2> QED BY <1>1, <1>3, <2>2, <2>3
<1>6. ASSUME NEW k \in 2 .. n
      PROVE  a * ((x[k - 1] - x[k]) - (x[k] - x[k + 1])) = b * x[k]
  <2>1. /\ k - 1 \in 1 .. n - 1 /\ k - 1 \in 1 .. n + 1 /\ k \in 1 .. n + 1 /\ k + 1 \in 1 .. n + 1
        /\ (k - 1) + 1 = k /\ (k + 1) - 1 = k
    BY <1>1
  <2>2. x[k - 1] = Holding(r, (k - 1) - 1) /\ x[k] = Holding(r, k - 1)
    BY <1>1, <2>1
  <2>3. x[k + 1] = Holding(r, (k - 1) + 1)
    BY <1>1, <2>1
  <2>4. a * ((Holding(r, (k - 1) - 1) - Holding(r, k - 1))
               - (Holding(r, k - 1) - Holding(r, (k - 1) + 1))) = b * Holding(r, k - 1)
    BY <1>1, <1>2, <2>1, PaceFalls
  <2> QED BY <2>2, <2>3, <2>4
<1>7. PICK fx, gx, fh, gh :
        /\ fx = SumOfSquares(Paces(x, n)) /\ gx = SumOfSquares(Rests(x, n))
        /\ fh = SumOfSquares(Paces(h, n)) /\ gh = SumOfSquares(Rests(h, n))
  OBVIOUS
<1>8. a * fx + b * gx <= (t * t) * (a * fh + b * gh)
  <2>1. t \in Int
    OBVIOUS
  <2>2. \A k \in 2 .. n : a * ((x[k - 1] - x[k]) - (x[k] - x[k + 1])) = b * x[k]
    BY <1>6
  <2> QED BY <1>4, <1>5, <1>7, <2>1, <2>2, CheapestCurve, ZenonT(40)
<1>9. Objective(r, x) = a * fx + b * gx /\ Objective(r, h) = a * fh + b * gh
  BY <1>1, <1>2, <1>7 DEF Objective, Paces, Rests
<1> QED BY <1>3, <1>8, <1>9

----------------------------------------------------------------------------
(* The loops of implementation shortfall *)

CallRuns == verdict \in {"running", "scheduled"}

\* The holdings so far are the curve's, what is scheduled is no less than TWAP's, and a
\* refused call has not begun.
ShortfallInv ==
  /\ call \in ShortfallCalls
  /\ CallRuns => Tradable(call)
  /\ ~CallRuns => holdings = <<>> /\ slice = 0
  /\ holdings \in Seq(Int) /\ Len(holdings) \in 0 .. call.slices + 1
  /\ \A k \in 1 .. Len(holdings) : holdings[k] = Holding(call, k - 1)
  /\ slice \in 0 .. call.slices /\ complete \in 0 .. call.qty /\ aim \in 0 .. call.qty
  /\ slice > 0 \/ verdict = "scheduled" => Len(holdings) = call.slices + 1
  /\ NeverBehindTwap

LEMMA ShortfallInitInv == ShortfallInit => ShortfallInv
<1> SUFFICES ASSUME ShortfallInit PROVE ShortfallInv
  OBVIOUS
<1>1. call \in ShortfallCalls /\ verdict = FirstFailing(ShortfallChecks(call))
  BY DEF ShortfallInit
<1>2. verdict # "scheduled" /\ (verdict = "running" => Tradable(call))
  BY <1>1, ShortfallChecksPassed, RefusalOfChecks
<1>3. holdings = <<>> /\ slice = 0 /\ complete = 0 /\ aim = 0
  BY DEF ShortfallInit
<1>4. holdings \in Seq(Int) /\ Len(holdings) = 0 /\ 1 .. Len(holdings) = {}
  BY <1>3
<1>5. call.slices \in Nat /\ call.qty \in Nat
  BY <1>1, ShortfallCallTypes
<1>6. NeverBehindTwap
  BY <1>3 DEF NeverBehindTwap
<1> QED BY <1>1, <1>2, <1>3, <1>4, <1>5, <1>6 DEF ShortfallInv, CallRuns

LEMMA HoldStep == ShortfallInv /\ Hold => ShortfallInv'
<1> SUFFICES ASSUME ShortfallInv, Hold PROVE ShortfallInv'
  OBVIOUS
<1>1. /\ verdict = "running" /\ Len(holdings) <= call.slices
      /\ UNCHANGED <<call, verdict, slice, complete, aim, orders>>
  BY DEF Hold
<1>2. PICK n \in Nat : n = Len(holdings) /\ n <= call.slices
  BY <1>1, LenProperties DEF ShortfallInv
<1>3. Tradable(call) /\ CallRuns
  BY <1>1 DEF ShortfallInv, CallRuns
<1>4. call.slices \in Nat
  BY <1>3 DEF Tradable, Sliceable
<1>5. PICK x \in Int : x = Holding(call, n)
  BY <1>2, <1>3, <1>4, Holdings
<1>6. holdings' = Append(holdings, x)
  BY <1>2, <1>5 DEF Hold
<1>7. /\ holdings' \in Seq(Int) /\ Len(holdings') = n + 1
      /\ \A k \in 1 .. n : holdings'[k] = holdings[k]
      /\ holdings'[n + 1] = x
  BY <1>2, <1>6, AppendProperties DEF ShortfallInv
<1>8. \A k \in 1 .. n + 1 : holdings'[k] = Holding(call, k - 1)
  <2> SUFFICES ASSUME NEW k \in 1 .. n + 1 PROVE holdings'[k] = Holding(call, k - 1)
    OBVIOUS
  <2>1. CASE k = n + 1
    <3>1. k - 1 = n
      BY <2>1
    <3> QED BY <1>5, <1>7, <2>1, <3>1
  <2>2. CASE k # n + 1
    <3>1. k \in 1 .. n
      BY <2>2
    <3> QED BY <1>2, <1>7, <3>1 DEF ShortfallInv
  <2> QED BY <2>1, <2>2
<1>9. Len(holdings') \in 0 .. call.slices + 1
  BY <1>2, <1>4, <1>7
<1>10. slice = 0
  BY <1>1, <1>2, <1>4 DEF ShortfallInv
<1>11. NeverBehindTwap'
  BY <1>1, <1>10 DEF NeverBehindTwap
<1>12. CallRuns' /\ Tradable(call') /\ call' = call
  BY <1>1, <1>3 DEF CallRuns
<1> QED BY <1>1, <1>7, <1>8, <1>9, <1>10, <1>11, <1>12 DEF ShortfallInv

\* A slice that is placed at a target no smaller than TWAP's.
LEMMA PlaceStep ==
  ASSUME ShortfallInv, HoldingsComplete, slice < call.slices,
         NEW target \in 0 .. call.qty, Place(target),
         TwapTarget(call.qty, call.slices, slice + 1) <= target,
         aim' \in 0 .. call.qty, UNCHANGED <<call, verdict, holdings>>
  PROVE  ShortfallInv'
<1>1. slice' = slice + 1 /\ complete' = target
  BY DEF Place
<1>2. call.slices \in Nat /\ slice \in Nat
  BY ShortfallCallTypes DEF ShortfallInv
<1>3. slice' \in 0 .. call.slices
  BY <1>1, <1>2
<1>4. NeverBehindTwap'
  BY <1>1 DEF NeverBehindTwap
<1>5. CallRuns /\ CallRuns'
  BY DEF HoldingsComplete, CallRuns
<1> QED BY <1>1, <1>3, <1>4, <1>5 DEF ShortfallInv, HoldingsComplete

LEMMA FlatSliceStep == ShortfallInv /\ FlatSlice => ShortfallInv'
<1> SUFFICES ASSUME ShortfallInv, FlatSlice PROVE ShortfallInv'
  OBVIOUS
<1> DEFINE target == TwapTarget(call.qty, call.slices, slice + 1)
<1>1. /\ HoldingsComplete /\ slice < call.slices /\ Place(target)
      /\ UNCHANGED <<call, verdict, holdings, aim>>
  BY DEF FlatSlice
<1>2. Tradable(call)
  BY <1>1 DEF ShortfallInv, HoldingsComplete, CallRuns
<1>3. call.qty \in Nat \ {0} /\ call.slices \in Nat \ {0} /\ slice + 1 \in 1 .. call.slices
  BY <1>1, <1>2 DEF Tradable, Sliceable, ShortfallInv
<1>4. target \in 0 .. call.qty
  BY <1>3, TwapWithinTotal
<1>5. target <= target
  BY <1>4
<1>6. aim' \in 0 .. call.qty
  BY <1>1 DEF ShortfallInv
<1> HIDE DEF target
<1> QED BY <1>1, <1>4, <1>5, <1>6, PlaceStep DEF target

LEMMA RoundedSliceStep ==
  ASSUME ShortfallInv, RoundedSlice
  PROVE  ShortfallInv' /\ aim' \in 0 .. call.qty
<1> DEFINE target == IF slice + 1 = call.slices THEN call.qty
                     ELSE Clamp(aim', complete, call.qty)
<1>1. /\ HoldingsComplete /\ slice < call.slices /\ ~NoUrgency(call)
      /\ aim' \in Nearest(holdings[1] - holdings[slice + 2], Denominator(call))
      /\ Place(target)
      /\ UNCHANGED <<call, verdict, holdings>>
  BY DEF RoundedSlice
<1>2. Tradable(call)
  BY <1>1 DEF ShortfallInv, HoldingsComplete, CallRuns
<1>3. PICK n \in Nat \ {0}, q \in Nat \ {0}, k \in Nat :
        n = call.slices /\ q = call.qty /\ k = slice + 1 /\ k \in 1 .. n
  <2>1. call.qty \in Nat \ {0} /\ call.slices \in Nat \ {0} /\ slice + 1 \in 1 .. call.slices
    BY <1>1, <1>2 DEF Tradable, Sliceable, ShortfallInv
  <2> QED BY <2>1
<1>4. holdings[1] = Holding(call, 0) /\ holdings[slice + 2] = Holding(call, k)
  <2>1. Len(holdings) = n + 1
    BY <1>1, <1>3 DEF HoldingsComplete
  <2>2. /\ 1 \in 1 .. Len(holdings) /\ slice + 2 \in 1 .. Len(holdings)
        /\ 1 - 1 = 0 /\ (slice + 2) - 1 = k
    <3>1. slice \in Int
      BY DEF ShortfallInv
    <3> QED BY <1>3, <2>1, <3>1
  <2> QED BY <2>2 DEF ShortfallInv
<1>5. /\ aim' \in 0 .. q
      /\ k < n => TwapTarget(q, n, k) <= aim'
  BY <1>1, <1>2, <1>3, <1>4, RoundedTarget
<1>6. complete \in 0 .. q
  BY <1>3 DEF ShortfallInv
<1>7. target \in 0 .. q /\ TwapTarget(q, n, k) <= target
  <2>1. CASE k = n
    <3>1. target = q
      BY <1>3, <2>1
    <3>2. TwapTarget(q, n, k) \in 0 .. q
      BY <1>3, TwapWithinTotal
    <3> QED BY <3>1, <3>2
  <2>2. CASE k # n
    <3>1. target = Clamp(aim', complete, q)
      BY <1>3, <2>2
    <3>2. PICK v \in 0 .. q, w \in 0 .. q : v = aim' /\ w = complete
      BY <1>5, <1>6
    <3>3. Clamp(v, w, q) \in 0 .. q /\ v <= Clamp(v, w, q)
      BY DEF Clamp
    <3>4. TwapTarget(q, n, k) \in 0 .. q /\ TwapTarget(q, n, k) <= v
      <4>1. k < n
        BY <1>3, <2>2
      <4> QED BY <1>3, <1>5, <3>2, <4>1, TwapWithinTotal
    <3>5. target = Clamp(v, w, q)
      BY <3>1, <3>2
    <3> HIDE DEF target
    <3> QED BY <3>3, <3>4, <3>5
  <2> QED BY <2>1, <2>2
<1> HIDE DEF target
<1>8. /\ target \in 0 .. call.qty /\ aim' \in 0 .. call.qty
      /\ TwapTarget(call.qty, call.slices, slice + 1) <= target
  BY <1>3, <1>5, <1>7
<1> QED BY <1>1, <1>8, PlaceStep

LEMMA ReturnStep == ShortfallInv /\ Return => ShortfallInv'
<1> SUFFICES ASSUME ShortfallInv, Return PROVE ShortfallInv'
  OBVIOUS
<1>1. /\ HoldingsComplete /\ verdict' = "scheduled"
      /\ UNCHANGED <<call, holdings, slice, complete, aim, orders>>
  BY DEF Return
<1>2. Tradable(call) /\ CallRuns'
  BY <1>1 DEF ShortfallInv, HoldingsComplete, CallRuns
<1>3. NeverBehindTwap'
  BY <1>1 DEF ShortfallInv, NeverBehindTwap
<1> QED BY <1>1, <1>2, <1>3 DEF ShortfallInv, HoldingsComplete

LEMMA ShortfallSteps == ShortfallInv /\ [ShortfallNext]_shortfallVars => ShortfallInv'
<1> SUFFICES ASSUME ShortfallInv, [ShortfallNext]_shortfallVars PROVE ShortfallInv'
  OBVIOUS
<1>1. CASE Hold
  BY <1>1, HoldStep
<1>2. CASE FlatSlice
  BY <1>2, FlatSliceStep
<1>3. CASE RoundedSlice
  BY <1>3, RoundedSliceStep
<1>4. CASE Return
  BY <1>4, ReturnStep
<1>5. CASE UNCHANGED shortfallVars
  <2>1. /\ call' = call /\ verdict' = verdict /\ holdings' = holdings /\ slice' = slice
        /\ complete' = complete /\ aim' = aim
    BY <1>5 DEF shortfallVars
  <2>2. NeverBehindTwap' /\ (CallRuns' <=> CallRuns)
    BY <2>1 DEF ShortfallInv, NeverBehindTwap, CallRuns
  <2> QED BY <2>1, <2>2 DEF ShortfallInv
<1> QED BY <1>1, <1>2, <1>3, <1>4, <1>5 DEF ShortfallNext

\* For every call and every way to round its curve.
THEOREM ShortfallInvariant == ShortfallSpec => []ShortfallInv
BY ShortfallInitInv, ShortfallSteps, PTL DEF ShortfallSpec

LEMMA ShortfallTypes == ShortfallInv => ShortfallTypeOK
<1> SUFFICES ASSUME ShortfallInv PROVE ShortfallTypeOK
  OBVIOUS
<1>1. PICK m \in Nat : m = Len(holdings) /\ DOMAIN holdings = 1 .. m /\ m <= call.slices + 1
  BY LenProperties DEF ShortfallInv
<1>2. \A k \in 1 .. m : holdings[k] = Holding(call, k - 1)
  BY <1>1 DEF ShortfallInv
<1>3. CASE ~CallRuns
  <2>1. m = 0 /\ call.slices \in Nat
    BY <1>1, <1>3, ShortfallCallTypes DEF ShortfallInv
  <2> QED BY <1>1, <2>1 DEF ShortfallInv, ShortfallTypeOK
<1>4. CASE CallRuns
  <2>1. Tradable(call)
    BY <1>4 DEF ShortfallInv
  <2>2. PICK n \in Nat \ {0}, top \in Int :
          n = call.slices /\ top = call.qty * Denominator(call) /\ m <= n + 1
    <3>1. call.slices \in Nat \ {0} /\ Holding(call, 0) \in Int
      <4>1. call.slices \in Nat \ {0} /\ 0 \in 0 .. call.slices
        BY <2>1 DEF Tradable, Sliceable
      <4> QED BY <2>1, <4>1, Holdings
    <3> QED BY <1>1, <2>1, <3>1, Holdings
  <2>3. \A k \in 1 .. m : holdings[k] \in 0 .. top
    <3> SUFFICES ASSUME NEW k \in 1 .. m PROVE holdings[k] \in 0 .. top
      OBVIOUS
    <3>1. k - 1 \in 0 .. n
      BY <2>2
    <3>2. Holding(call, k - 1) \in Nat /\ Holding(call, k - 1) <= top
      BY <2>1, <2>2, <3>1, Holdings
    <3> QED BY <1>2, <2>2, <3>2
  <2>4. \A k \in 1 .. m - 1 : holdings[k + 1] <= holdings[k]
    <3> SUFFICES ASSUME NEW k \in 1 .. m - 1 PROVE holdings[k + 1] <= holdings[k]
      OBVIOUS
    <3>1. /\ k - 1 \in 0 .. n - 1 /\ k \in 1 .. m /\ k + 1 \in 1 .. m
          /\ (k + 1) - 1 = k /\ (k - 1) + 1 = k
      BY <2>2
    <3>2. Holding(call, (k - 1) + 1) <= Holding(call, k - 1)
      BY <2>1, <2>2, <3>1, Holdings
    <3>3. holdings[k + 1] = Holding(call, k) /\ holdings[k] = Holding(call, k - 1)
      BY <1>2, <3>1
    <3> QED BY <3>1, <3>2, <3>3
  <2>5. ASSUME m = n + 1 PROVE holdings[1] > 0 /\ Last(holdings) = 0
    <3>1. 1 \in 1 .. m /\ n + 1 \in 1 .. m /\ 1 - 1 = 0 /\ (n + 1) - 1 = n
      BY <2>5
    <3>2. holdings[1] = Holding(call, 0) /\ holdings[n + 1] = Holding(call, n)
      BY <1>2, <3>1
    <3>3. Last(holdings) = holdings[n + 1]
      BY <1>1, <2>5 DEF Last
    <3> QED BY <2>1, <2>2, <3>2, <3>3, Holdings
  <2> QED BY <1>1, <2>2, <2>3, <2>4, <2>5 DEF ShortfallInv, ShortfallTypeOK
<1> QED BY <1>3, <1>4

LEMMA OptimalHolds == ShortfallInv => Optimal
<1> SUFFICES ASSUME ShortfallInv, HoldingsComplete, NEW h \in Trajectories(call)
             PROVE  Objective(call, holdings)
                      <= Denominator(call) * Denominator(call) * Objective(call, h)
  BY DEF Optimal
<1>1. Tradable(call) /\ Len(holdings) = call.slices + 1
  BY DEF ShortfallInv, HoldingsComplete, CallRuns
<1>2. \A k \in 1 .. call.slices + 1 : holdings[k] = Holding(call, k - 1)
  BY <1>1 DEF ShortfallInv
<1>3. \A k \in 1 .. call.slices + 1 : h[k] \in Int
  <2>1. call.qty \in Nat
    BY <1>1 DEF Tradable
  <2> QED BY <2>1 DEF Trajectories
<1>4. h[1] = call.qty /\ h[call.slices + 1] = 0
  BY DEF Trajectories
<1> QED BY <1>1, <1>2, <1>3, <1>4, NoTrajectoryCheaper

LEMMA MoreAverseHolds == ShortfallInv => MoreAverseHoldsLess
<1> SUFFICES ASSUME ShortfallInv, HoldingsComplete,
                    NEW r \in ShortfallCalls, r = [call EXCEPT !.risk = r.risk],
                    r.risk < call.risk, Sound(r), NEW k \in DOMAIN holdings
             PROVE  holdings[k] * Denominator(r) <= Holding(r, k - 1) * Denominator(call)
  BY DEF MoreAverseHoldsLess
<1>1. Tradable(call) /\ Len(holdings) = call.slices + 1
  BY DEF ShortfallInv, HoldingsComplete, CallRuns
<1>2. call \in [start : Nat, end : Nat, qty : Nat, slices : Nat,
                risk : Int, volatility : Int, temporary : Int, permanent : Int]
  BY ShortfallAssumption DEF ShortfallInv
<1>3. /\ r.start = call.start /\ r.end = call.end /\ r.qty = call.qty
      /\ r.slices = call.slices /\ r.volatility = call.volatility
      /\ r.temporary = call.temporary /\ r.permanent = call.permanent
  BY <1>2
<1>4. Tradable(r)
  BY <1>1, <1>3 DEF Tradable, Sliceable
<1>5. DurationOf(r) = DurationOf(call) /\ Horizon(r) = Horizon(call) /\ Eta(r) = Eta(call)
  <2>1. DurationOf(r) = DurationOf(call) /\ Horizon(r) = Horizon(call)
    BY <1>3 DEF DurationOf, Horizon
  <2> QED BY <1>3, <2>1 DEF Eta
<1>6. UrgencyRatio(r)[2] = UrgencyRatio(call)[2]
  BY <1>1, <1>4, <1>5, RatioTypes
<1>7. UrgencyRatio(r)[1] <= UrgencyRatio(call)[1]
  <2>1. PICK a \in Int, b \in Int, v \in Int, d \in Int :
          /\ a = r.risk /\ b = call.risk /\ v = call.volatility /\ d = DurationOf(call)
          /\ a <= b
    <3>1. DurationOf(call) \in Int
      BY <1>2 DEF DurationOf
    <3> QED BY <1>2, <3>1, ShortfallCallTypes
  <2>2. UrgencyRatio(r)[1] = 2 * a * v * v * d * d /\ UrgencyRatio(call)[1] = 2 * b * v * v * d * d
    BY <1>1, <1>3, <1>4, <1>5, <2>1, RatioTypes
  <2>3. PICK c \in Nat : c = 2 * ((v * v) * (d * d))
    BY Squares, Products
  <2>4. c * a <= c * b
    BY <2>1, ProductMonotone
  <2>5. 2 * a * v * v * d * d = c * a /\ 2 * b * v * v * d * d = c * b
    BY <2>3
  <2> QED BY <2>2, <2>4, <2>5
<1>8. k \in 1 .. Len(holdings) /\ k - 1 \in 0 .. call.slices
  <2>1. DOMAIN holdings = 1 .. Len(holdings) /\ call.slices \in Nat
    BY <1>2, LenProperties DEF ShortfallInv
  <2> QED BY <1>1, <2>1
<1>9. holdings[k] = Holding(call, k - 1)
  BY <1>8 DEF ShortfallInv
<1> QED BY <1>1, <1>3, <1>4, <1>6, <1>7, <1>8, <1>9, AverseHoldsLess

\* is.rs:13-23, for every quantity, number of slices and parameters: the trajectory is
\* the cheapest there is for its risk aversion, a larger one only ever holds less, and
\* the rounded children are never behind TWAP.
THEOREM AlmgrenChrissHolds == ShortfallSpec => []AlmgrenChriss
<1>1. ShortfallInv => NeverBehindTwap
  BY DEF ShortfallInv
<1>2. ShortfallInv => AlmgrenChriss
  BY <1>1, ShortfallTypes, OptimalHolds, MoreAverseHolds DEF AlmgrenChriss
<1> QED BY <1>2, ShortfallInvariant, PTL

----------------------------------------------------------------------------
(* Implementation shortfall is a call of the abstract scheduler *)

LEMMA SameArithmetic ==
  /\ \A x, low, high : Calls!Clamp(x, low, high) = Clamp(x, low, high)
  /\ \A a, b, c, d : Calls!SliceStart(a, b, c, d) = SliceStart(a, b, c, d)
  /\ \A a, b, c : Calls!TwapTarget(a, b, c) = TwapTarget(a, b, c)
  /\ \A checks : Calls!FirstFailing(checks) = FirstFailing(checks)
<1>1. \A x, low, high : Calls!Clamp(x, low, high) = Clamp(x, low, high)
  BY DEF Calls!Clamp, Clamp
<1>2. \A a, b, c, d : Calls!SliceStart(a, b, c, d) = SliceStart(a, b, c, d)
  BY DEF Calls!SliceStart, SliceStart
<1>3. \A a, b, c : Calls!TwapTarget(a, b, c) = TwapTarget(a, b, c)
  BY DEF Calls!TwapTarget, TwapTarget
<1>4. \A checks : Calls!FirstFailing(checks) = FirstFailing(checks)
  BY DEF Calls!FirstFailing, FirstFailing, Calls!Min, Min
<1> QED BY <1>1, <1>2, <1>3, <1>4

\* The abstract call, field by field.
LEMMA AbsFields ==
  ASSUME NEW r
  PROVE  /\ AbsRequest(r).kind = "is" /\ AbsRequest(r).start = r.start
         /\ AbsRequest(r).end = r.end /\ AbsRequest(r).qty = r.qty
         /\ AbsRequest(r).slices = r.slices /\ AbsRequest(r).sound = Sound(r)
         /\ AbsRequest(r).flat = (r.risk * r.volatility = 0)
BY DEF AbsRequest

LEMMA SameChecks ==
  ASSUME NEW r
  PROVE  Calls!Checks(AbsRequest(r)) = ShortfallChecks(r)
<1>1. PICK a : a = AbsRequest(r)
  OBVIOUS
<1>2. /\ a.kind = "is" /\ a.start = r.start /\ a.end = r.end /\ a.qty = r.qty
      /\ a.slices = r.slices /\ a.sound = Sound(r)
  BY <1>1, AbsFields
<1>3. Calls!SliceChecks(a.slices) = SliceChecks(r.slices)
  BY <1>2 DEF Calls!SliceChecks, SliceChecks, Calls!Check, Check
<1>4. Calls!WindowChecks(a) = WindowChecks(r)
  BY <1>2, <1>3 DEF Calls!WindowChecks, WindowChecks, Calls!Check, Check
<1>5. Calls!Checks(a) = Calls!WindowChecks(a) \o <<Calls!Check(~a.sound, "InvalidParameter")>>
  BY <1>2 DEF Calls!Checks
<1>6. Calls!Check(~a.sound, "InvalidParameter") = Check(~Sound(r), "InvalidParameter")
  BY <1>2 DEF Calls!Check, Check
<1>7. Calls!Checks(a) = WindowChecks(r) \o <<Check(~Sound(r), "InvalidParameter")>>
  BY <1>4, <1>5, <1>6
<1> QED BY <1>1, <1>7 DEF ShortfallChecks

LEMMA ShortfallInitIsInit == ShortfallInit => Calls!Init
<1> SUFFICES ASSUME ShortfallInit PROVE Calls!Init
  OBVIOUS
<1>1. call \in ShortfallCalls
  BY DEF ShortfallInit
<1>2. /\ call.start \in Nat /\ call.end \in Nat /\ call.qty \in Nat /\ call.slices \in Nat
      /\ Sound(call) \in BOOLEAN
  BY <1>1, ShortfallCallTypes
<1>3. AbsRequest(call) \in AnyCall
  <2>1. PICK flat \in BOOLEAN : flat = (call.risk * call.volatility = 0)
    OBVIOUS
  <2>2. PICK sound \in BOOLEAN : sound = Sound(call)
    BY <1>2
  <2>3. AbsRequest(call)
          = [kind |-> "is", start |-> call.start, end |-> call.end, qty |-> call.qty,
             slices |-> call.slices, weights |-> <<>>, prints |-> <<>>, rate |-> 0,
             day |-> 0, sound |-> sound, flat |-> flat]
    BY <2>1, <2>2 DEF AbsRequest
  <2> QED BY <1>2, <2>3 DEF AnyCall
<1>4. verdict = Calls!FirstFailing(Calls!Checks(AbsRequest(call)))
  BY SameArithmetic, SameChecks DEF ShortfallInit
<1>5. AbsRequest(call).slices = call.slices
  BY AbsFields
<1>6. slice = 0 /\ complete = 0 /\ aim = 0 /\ orders = <<>>
  BY DEF ShortfallInit
<1> QED BY <1>3, <1>4, <1>5, <1>6 DEF Calls!Init

\* The loop of the abstract call.
LEMMA AbsLoop ==
  ASSUME ShortfallInv, HoldingsComplete
  PROVE  /\ Calls!Length = call.slices
         /\ slice < call.slices => Calls!Running
         /\ Calls!StartOf(slice) = TimeOf(slice)
         /\ \A target : Place(target) => Calls!Release(target, TimeOf(slice))
<1>1. /\ AbsRequest(call).kind = "is" /\ AbsRequest(call).slices = call.slices
      /\ AbsRequest(call).start = call.start /\ AbsRequest(call).end = call.end
  BY AbsFields
<1>2. Calls!Length = call.slices
  BY <1>1 DEF Calls!Length
<1>3. slice < call.slices => Calls!Running
  BY <1>2 DEF Calls!Running, HoldingsComplete
<1>4. Calls!StartOf(slice) = TimeOf(slice)
  BY <1>1, SameArithmetic DEF Calls!StartOf, Calls!Duration, TimeOf, DurationOf
<1>5. \A target : Place(target) => Calls!Release(target, TimeOf(slice))
  BY DEF Place, Calls!Release
<1> QED BY <1>2, <1>3, <1>4, <1>5

LEMMA ShortfallStepsAreSteps ==
  ShortfallInv /\ [ShortfallNext]_shortfallVars => [Calls!Next]_(Calls!vars)
<1> SUFFICES ASSUME ShortfallInv, [ShortfallNext]_shortfallVars
             PROVE  Calls!Next \/ UNCHANGED Calls!vars
  OBVIOUS
<1>0. /\ AbsRequest(call).kind = "is" /\ AbsRequest(call).slices = call.slices
      /\ AbsRequest(call).qty = call.qty
      /\ AbsRequest(call).flat = (call.risk * call.volatility = 0)
  BY AbsFields
<1>1. CASE Hold
  BY <1>1 DEF Hold, Calls!vars
<1>2. CASE FlatSlice
  <2> DEFINE target == TwapTarget(call.qty, call.slices, slice + 1)
  <2>1. /\ HoldingsComplete /\ slice < call.slices /\ NoUrgency(call) /\ Place(target)
        /\ UNCHANGED <<call, verdict, holdings, aim>>
    BY <1>2 DEF FlatSlice
  <2>2. Tradable(call)
    BY <2>1 DEF ShortfallInv, HoldingsComplete, CallRuns
  <2>3. AbsRequest(call).flat
    BY <1>0, <2>1, <2>2, FlatCalls
  <2>4. Calls!Running
    BY <2>1, AbsLoop
  <2>5. Calls!Release(Calls!TwapTarget(AbsRequest(call).qty, AbsRequest(call).slices, slice + 1),
                      Calls!StartOf(slice))
    BY <1>0, <2>1, AbsLoop, SameArithmetic
  <2>6. UNCHANGED <<AbsRequest(call), verdict, aim, 0, [k \in 0 .. call.slices - 1 |-> 0]>>
    BY <2>1
  <2> HIDE DEF target
  <2> QED BY <1>0, <2>3, <2>4, <2>5, <2>6 DEF Calls!TwapSlice, Calls!Next
<1>3. CASE RoundedSlice
  <2>1. /\ HoldingsComplete /\ slice < call.slices /\ ~NoUrgency(call)
        /\ Place(IF slice + 1 = call.slices THEN call.qty ELSE Clamp(aim', complete, call.qty))
        /\ UNCHANGED <<call, verdict, holdings>>
    BY <1>3 DEF RoundedSlice
  <2>2. Tradable(call)
    BY <2>1 DEF ShortfallInv, HoldingsComplete, CallRuns
  <2>3. ~AbsRequest(call).flat
    BY <1>0, <2>1, <2>2, FlatCalls
  <2>4. Calls!Running /\ Calls!Length = call.slices
    BY <2>1, AbsLoop
  <2>5. aim' \in Calls!NextIdeals
    <3>1. aim' \in 0 .. call.qty /\ call.qty \in Nat
      BY <1>3, <2>2, RoundedSliceStep DEF Tradable
    <3>2. call.qty + 0 = call.qty
      BY <3>1
    <3>3. aim' \in 0 .. AbsRequest(call).qty + 0
      BY <1>0, <3>1, <3>2
    <3> QED BY <1>0, <3>3 DEF Calls!NextIdeals
  <2>6. Calls!Release(IF slice + 1 = Calls!Length THEN AbsRequest(call).qty
                      ELSE Calls!Clamp(aim', complete, AbsRequest(call).qty),
                      Calls!StartOf(slice))
    BY <1>0, <2>1, <2>4, AbsLoop, SameArithmetic
  <2>7. UNCHANGED <<AbsRequest(call), verdict, 0, [k \in 0 .. call.slices - 1 |-> 0]>>
    BY <2>1
  <2>8. Calls!Follows
    BY <1>0, <2>3 DEF Calls!Follows
  <2> QED BY <2>4, <2>5, <2>6, <2>7, <2>8 DEF Calls!CurveSlice, Calls!Next
<1>4. CASE Return
  <2>1. /\ HoldingsComplete /\ slice = call.slices /\ verdict' = "scheduled"
        /\ UNCHANGED <<call, holdings, slice, complete, aim, orders>>
    BY <1>4 DEF Return
  <2>2. Calls!Length = call.slices /\ verdict = "running"
    BY <2>1, AbsLoop DEF HoldingsComplete
  <2> QED BY <1>0, <2>1, <2>2 DEF Calls!Finish, Calls!Next
<1>5. CASE UNCHANGED shortfallVars
  BY <1>5 DEF shortfallVars, Calls!vars
<1> QED BY <1>1, <1>2, <1>3, <1>4, <1>5 DEF ShortfallNext

\* is.rs is a scheduler of schedule.rs: every call is a call of the abstract scheduler,
\* whose curve is any curve, so its children are as executable as those.
THEOREM ShortfallIsSchedule == ShortfallSpec => ImplementsSchedules
BY ShortfallInitIsInit, ShortfallStepsAreSteps, ShortfallInvariant, PTL
   DEF ShortfallSpec, ImplementsSchedules, Calls!Spec
=============================================================================
