----------------------------- MODULE InputsProofs -----------------------------
(***************************************************************************)
(* Theorems about what comes in from outside, for all files, forms,        *)
(* requests, units and widths: the checks of the settings are exact, and   *)
(* an order is carried faithfully from the keyboard to the row that shows  *)
(* it.                                                                     *)
(***************************************************************************)
EXTENDS Inputs, SequenceTheorems, SumTheorems

----------------------------------------------------------------------------
(* What validate lets through *)

MarketInRange(symbols, i) ==
  /\ symbols[i].symbol \in Trimmed \ Blank /\ FirstOfItsName(symbols, i)
  /\ PositiveAmount(symbols[i].reference_price)
  /\ symbols[i].levels \in 1 .. MaxLevels /\ PositiveQuantity(symbols[i].qty_per_level)
  /\ symbols[i].level_spacing_bps > 0
  /\ symbols[i].levels * symbols[i].level_spacing_bps < BasisPoints

InRange(s) ==
  /\ s.tick_interval_ms \in 1 .. MaxInterval
  /\ s.command_buffer \in 1 .. MaxBuffer /\ s.fill_buffer \in 1 .. MaxBuffer
  /\ s.retained > 0
  /\ PositiveQuantity(s.max_order_qty) /\ PositiveQuantity(s.max_position_qty)
  /\ PositiveAmount(s.max_order_notional) /\ PositiveAmount(s.max_gross_notional)
  /\ PositiveAmount(s.max_loss)
  /\ s.price_collar_bps \in 1 .. BasisPoints
  /\ s.symbols # <<>>
  /\ \A i \in DOMAIN s.symbols : MarketInRange(s.symbols, i)

LEMMA GroupsOfChecks ==
  ASSUME NEW s, IsSettings(s)
  PROVE  /\ DOMAIN Checks(s) = 1 .. 2 + Len(s.symbols)
         /\ Checks(s)[1] = EngineChecks(s) /\ Checks(s)[2] = RiskChecks(s)
         /\ \A i \in DOMAIN s.symbols : Checks(s)[2 + i] = SymbolChecks(s.symbols, i)
<1> DEFINE n == Len(s.symbols)
           a == <<EngineChecks(s), RiskChecks(s)>>
           b == [i \in DOMAIN s.symbols |-> SymbolChecks(s.symbols, i)]
<1>1. n \in Nat /\ DOMAIN s.symbols = 1 .. n
  BY DEF IsSettings
<1>2. b \in Seq({SymbolChecks(s.symbols, i) : i \in 1 .. n}) /\ Len(b) = n
  BY <1>1
<1>3. /\ Checks(s) = a \o b
      /\ a[1] = EngineChecks(s) /\ a[2] = RiskChecks(s) /\ Len(a) = 2
      /\ \A i \in 1 .. n : b[i] = SymbolChecks(s.symbols, i)
  BY <1>1 DEF Checks
<1> DEFINE T == {SymbolChecks(s.symbols, i) : i \in 1 .. n} \cup {EngineChecks(s), RiskChecks(s)}
<1>4. a \in Seq(T) /\ b \in Seq(T)
  BY <1>2
<1> HIDE DEF a, b, T, n
<1>5. /\ Len(a \o b) = 2 + n /\ DOMAIN (a \o b) = 1 .. 2 + n
      /\ (a \o b)[1] = a[1] /\ (a \o b)[2] = a[2]
      /\ \A i \in 1 .. n : (a \o b)[2 + i] = b[i]
  <2>1. \A i \in 1 .. n : 2 + i > 2 /\ 2 + i - 2 = i /\ 2 + i \in 1 .. 2 + n
    BY <1>1
  <2>2. /\ a \o b \in Seq(T) /\ Len(a \o b) = 2 + n
        /\ \A i \in 1 .. 2 + n : (a \o b)[i] = IF i <= 2 THEN a[i] ELSE b[i - 2]
    <3>1. /\ a \o b \in Seq(T) /\ Len(a \o b) = Len(a) + Len(b)
          /\ \A i \in 1 .. Len(a) + Len(b) :
               (a \o b)[i] = IF i <= Len(a) THEN a[i] ELSE b[i - Len(a)]
      BY <1>4, ConcatProperties
    <3> QED BY <1>2, <1>3, <3>1
  <2> QED BY <1>1, <2>1, <2>2
<1> QED BY <1>1, <1>3, <1>5 DEF n

LEMMA ValidIsInRange ==
  ASSUME NEW s, IsSettings(s)
  PROVE  Valid(s) <=> InRange(s)
<1>1. Passes(EngineChecks(s)) <=>
        /\ s.tick_interval_ms \in 1 .. MaxInterval
        /\ s.command_buffer \in 1 .. MaxBuffer /\ s.fill_buffer \in 1 .. MaxBuffer
        /\ s.retained > 0
  <2> DEFINE c == EngineChecks(s)
  <2>1. DOMAIN c = 1 .. 4
    BY DEF EngineChecks
  <2>2. /\ c[1][2] = (s.tick_interval_ms \in 1 .. MaxInterval)
        /\ c[2][2] = (s.command_buffer \in 1 .. MaxBuffer)
        /\ c[3][2] = (s.fill_buffer \in 1 .. MaxBuffer) /\ c[4][2] = (s.retained > 0)
    BY DEF EngineChecks
  <2> HIDE DEF c
  <2>3. Passes(c) <=> c[1][2] /\ c[2][2] /\ c[3][2] /\ c[4][2]
    BY <2>1 DEF Passes
  <2> QED BY <2>2, <2>3 DEF c
<1>2. Passes(RiskChecks(s)) <=>
        /\ PositiveQuantity(s.max_order_qty) /\ PositiveQuantity(s.max_position_qty)
        /\ PositiveAmount(s.max_order_notional) /\ PositiveAmount(s.max_gross_notional)
        /\ PositiveAmount(s.max_loss)
        /\ s.price_collar_bps \in 1 .. BasisPoints
        /\ s.symbols # <<>>
  <2> DEFINE c == RiskChecks(s)
  <2>1. DOMAIN c = 1 .. 7
    BY DEF RiskChecks
  <2>2. /\ c[1][2] = PositiveQuantity(s.max_order_qty)
        /\ c[2][2] = PositiveQuantity(s.max_position_qty)
        /\ c[3][2] = PositiveAmount(s.max_order_notional)
        /\ c[4][2] = PositiveAmount(s.max_gross_notional)
        /\ c[5][2] = PositiveAmount(s.max_loss)
        /\ c[6][2] = (s.price_collar_bps \in 1 .. BasisPoints)
        /\ c[7][2] = (s.symbols # <<>>)
    BY DEF RiskChecks
  <2> HIDE DEF c
  <2>3. Passes(c) <=> c[1][2] /\ c[2][2] /\ c[3][2] /\ c[4][2] /\ c[5][2] /\ c[6][2] /\ c[7][2]
    BY <2>1 DEF Passes
  <2> QED BY <2>2, <2>3 DEF c
<1>3. ASSUME NEW i \in DOMAIN s.symbols
      PROVE  Passes(SymbolChecks(s.symbols, i)) <=> MarketInRange(s.symbols, i)
  <2> DEFINE c == SymbolChecks(s.symbols, i)
             m == s.symbols[i]
  <2>1. DOMAIN c = 1 .. 8
    BY DEF SymbolChecks
  <2>2. /\ c[1][2] = (m.symbol \notin Blank) /\ c[2][2] = (m.symbol \in Trimmed)
        /\ c[3][2] = FirstOfItsName(s.symbols, i)
        /\ c[4][2] = PositiveAmount(m.reference_price)
        /\ c[5][2] = (m.levels \in 1 .. MaxLevels)
        /\ c[6][2] = PositiveQuantity(m.qty_per_level)
        /\ c[7][2] = (m.level_spacing_bps > 0)
        /\ c[8][2] = (m.levels * m.level_spacing_bps < BasisPoints)
    BY DEF SymbolChecks
  <2>3. MarketInRange(s.symbols, i) <=>
          /\ m.symbol \notin Blank /\ m.symbol \in Trimmed /\ FirstOfItsName(s.symbols, i)
          /\ PositiveAmount(m.reference_price) /\ m.levels \in 1 .. MaxLevels
          /\ PositiveQuantity(m.qty_per_level) /\ m.level_spacing_bps > 0
          /\ m.levels * m.level_spacing_bps < BasisPoints
    BY DEF MarketInRange
  <2> HIDE DEF c, m
  <2>4. Passes(c) <=> /\ c[1][2] /\ c[2][2] /\ c[3][2] /\ c[4][2]
                      /\ c[5][2] /\ c[6][2] /\ c[7][2] /\ c[8][2]
    BY <2>1 DEF Passes
  <2> QED BY <2>2, <2>3, <2>4 DEF c
<1> DEFINE n == Len(s.symbols)
<1>4. n \in Nat /\ DOMAIN s.symbols = 1 .. n
  BY DEF IsSettings
<1>5. Valid(s) <=> /\ Passes(Checks(s)[1]) /\ Passes(Checks(s)[2])
                   /\ \A i \in 1 .. n : Passes(Checks(s)[2 + i])
  <2>1. DOMAIN Checks(s) = 1 .. 2 + n
    BY GroupsOfChecks
  <2> HIDE DEF n
  <2>2. \A g \in 1 .. 2 + n : g = 1 \/ g = 2 \/ \E i \in 1 .. n : g = 2 + i
    <3> SUFFICES ASSUME NEW g \in 1 .. 2 + n, g # 1, g # 2 PROVE \E i \in 1 .. n : g = 2 + i
      OBVIOUS
    <3>1. g - 2 \in 1 .. n /\ g = 2 + (g - 2)
      BY <1>4
    <3> QED BY <3>1
  <2>3. 1 \in 1 .. 2 + n /\ 2 \in 1 .. 2 + n /\ \A i \in 1 .. n : 2 + i \in 1 .. 2 + n
    BY <1>4
  <2> QED BY <2>1, <2>2, <2>3 DEF Valid
<1>6. /\ Checks(s)[1] = EngineChecks(s) /\ Checks(s)[2] = RiskChecks(s)
      /\ \A i \in 1 .. n : Checks(s)[2 + i] = SymbolChecks(s.symbols, i)
  BY <1>4, GroupsOfChecks
<1> QED BY <1>1, <1>2, <1>3, <1>4, <1>5, <1>6, Zenon DEF InRange

\* A refusal names one of the settings.
LEMMA FailureIsNamed ==
  ASSUME SettingsAssumption, NEW s, IsSettings(s), ~Valid(s)
  PROVE  FirstFailing(s) # None
<1> DEFINE Failing(c) == {i \in DOMAIN c : ~c[i][2]}
           groups == {g \in DOMAIN Checks(s) : ~Passes(Checks(s)[g])}
<1>0. DOMAIN s.symbols = 1 .. Len(s.symbols) /\ Len(s.symbols) \in Nat
  BY DEF IsSettings
<1>1. groups \in SUBSET Nat /\ groups # {}
  BY <1>0, GroupsOfChecks DEF Valid
<1>2. Min(groups) \in groups
  <2> HIDE DEF groups
  <2> QED BY <1>1, LeastNat DEF Min
<1> DEFINE group == Checks(s)[Min(groups)]
<1>3. ~Passes(group)
  BY <1>2
<1>4. \/ group = EngineChecks(s) \/ group = RiskChecks(s)
      \/ \E i \in DOMAIN s.symbols : group = SymbolChecks(s.symbols, i)
  <2>1. Min(groups) \in 1 .. 2 + Len(s.symbols)
    BY <1>2, GroupsOfChecks
  <2> HIDE DEF groups
  <2>2. CASE Min(groups) \in {1, 2}
    BY <2>2, GroupsOfChecks
  <2>3. CASE Min(groups) \notin {1, 2}
    <3>1. Min(groups) - 2 \in DOMAIN s.symbols /\ Min(groups) = 2 + (Min(groups) - 2)
      BY <1>0, <2>1, <2>3
    <3> QED BY <3>1, GroupsOfChecks
  <2> QED BY <2>2, <2>3
<1> HIDE DEF groups, group
<1>5. DOMAIN group \subseteq Nat /\ \A i \in DOMAIN group : group[i][1] \in Settings
  <2>1. CASE group = EngineChecks(s)
    BY <2>1 DEF EngineChecks, Settings
  <2>2. CASE group = RiskChecks(s)
    BY <2>2 DEF RiskChecks, Settings
  <2>3. ASSUME NEW i \in DOMAIN s.symbols, group = SymbolChecks(s.symbols, i)
        PROVE  DOMAIN group \subseteq Nat /\ \A j \in DOMAIN group : group[j][1] \in Settings
    BY <2>3 DEF SymbolChecks, Settings
  <2> QED BY <1>4, <2>1, <2>2, <2>3
<1>6. Failing(group) \in SUBSET Nat /\ Failing(group) # {}
  BY <1>3, <1>5 DEF Passes
<1>7. Min(Failing(group)) \in Failing(group)
  <2> DEFINE F == Failing(group)
  <2> HIDE DEF F
  <2>1. F \in SUBSET Nat /\ F # {}
    BY <1>6 DEF F
  <2>2. Min(F) \in F
    BY <2>1, LeastNat DEF Min
  <2> QED BY <2>2 DEF F
<1>8. group[Min(Failing(group))][1] \in Settings
  BY <1>5, <1>7
<1>9. FirstFailing(s) = group[Min(Failing(group))][1]
  BY DEF FirstFailing, group, groups
<1> QED BY <1>8, <1>9 DEF SettingsAssumption

----------------------------------------------------------------------------
(* Amounts and ladders *)

LEMMA DivisionBounds ==
  ASSUME NEW a \in Int, NEW b \in Nat \ {0}
  PROVE  a \div b \in Int /\ (a \div b) * b <= a /\ a < (a \div b) * b + b
OBVIOUS

LEMMA ProductReflects ==
  ASSUME NEW x \in Int, NEW y \in Int, NEW n \in Nat \ {0}
  PROVE  /\ x * n < y * n => x < y
         /\ x * n <= y * n => x <= y
OBVIOUS

LEMMA ProductGrows ==
  ASSUME NEW x \in Int, NEW y \in Int, NEW n \in Nat, x <= y
  PROVE  x * n <= y * n
OBVIOUS

\* A number of parts, P to the tick, is rounded to at most half a tick away.
LEMMA RoundingBounds ==
  ASSUME NEW P \in Nat \ {0}, NEW a \in Nat
  PROVE  LET t == (2 * a + P) \div (2 * P)
         IN  t \in Nat /\ 2 * (t * P) <= 2 * a + P /\ 2 * a < 2 * (t * P) + P
<1> DEFINE n == 2 * a + P
           d == 2 * P
           t == n \div d
<1>1. n \in Nat /\ d \in Nat \ {0}
  OBVIOUS
<1>3. t \in Int /\ t * d <= n /\ n < t * d + d
  <2> HIDE DEF n, d
  <2> QED BY <1>1, DivisionBounds
<1>4. t \in Nat
  <2> HIDE DEF t, n, d
  <2>1. 0 * d < (t + 1) * d
    BY <1>1, <1>3
  <2>2. 0 < t + 1
    BY <2>1, <1>1, <1>3, ProductReflects
  <2> QED BY <1>3, <2>2
<1> HIDE DEF t
<1>5. t * d = 2 * (t * P)
  BY <1>4
<1> DEFINE e == t * P
<1>6. e \in Int
  BY <1>4
<1> HIDE DEF e
<1>7. 2 * e <= n /\ 2 * a < 2 * e + P
  BY <1>3, <1>5, <1>6 DEF e
<1> QED BY <1>4, <1>7 DEF e, t

LEMMA TicksBounds ==
  ASSUME SettingsAssumption, NEW amount \in Int, amount > 0
  PROVE  /\ Ticks(amount) \in Nat
         /\ 2 * (Ticks(amount) * PartsPerTick) <= 2 * amount + PartsPerTick
         /\ 2 * amount < 2 * (Ticks(amount) * PartsPerTick) + PartsPerTick
<1>1. PartsPerTick \in Nat \ {0}
  BY DEF SettingsAssumption
<1>2. amount \in Nat
  OBVIOUS
<1> QED BY <1>1, <1>2, RoundingBounds DEF Ticks

\* An amount that is documented to fit has a tick count.
LEMMA DocumentedConverts ==
  ASSUME SettingsAssumption, NEW amount \in Int, amount > 0, amount <= MaxI64 * PartsPerTick
  PROVE  Converts(amount)
<1> DEFINE t == Ticks(amount)
           e == t * PartsPerTick
           top == MaxI64 * PartsPerTick
<1>1. PartsPerTick \in Nat \ {0} /\ MaxI64 \in Nat
  BY DEF SettingsAssumption
<1>2. t \in Nat /\ 2 * e <= 2 * amount + PartsPerTick
  BY TicksBounds
<1> HIDE DEF t
<1>3. e \in Int /\ top \in Int /\ (MaxI64 + 1) * PartsPerTick = top + PartsPerTick
  BY <1>1, <1>2
<1>4. e < top + PartsPerTick
  <2> HIDE DEF e, top
  <2>1. amount <= top
    BY DEF top
  <2> QED BY <1>1, <1>2, <1>3, <2>1
<1>5. t < MaxI64 + 1
  BY <1>1, <1>2, <1>3, <1>4, ProductReflects
<1> QED BY <1>1, <1>2, <1>5 DEF Converts, t

\* The arithmetic of a ladder: r parts make p ticks of P parts, and the step is one tick
\* or at most b of B parts of the price.
LEMMA LadderArithmetic ==
  ASSUME NEW P \in Nat \ {0}, NEW B \in Nat \ {0}, NEW L \in Nat \ {0}, NEW b \in Nat \ {0},
         NEW M \in Nat, NEW r \in Nat \ {0}, NEW p \in Nat, NEW step \in Nat,
         2 * (p * P) <= 2 * r + P, 2 * r < 2 * (p * P) + P,
         L * b < B,
         r * B - L * (P * B) >= P * B, r * B + L * (P * B) <= M * (P * B),
         r * B - L * (r * b) >= P * B, r * B + L * (r * b) <= M * (P * B),
         step = 1 \/ step * B <= p * b
  PROVE  p - step * L > 0 /\ p + step * L <= M
<1>1. CASE step = 1
  <2>1. (L * P + P) * B <= r * B /\ (r + L * P) * B <= (M * P) * B
    BY Z3
  <2> DEFINE lp == L * P
             mp == M * P
             pp == p * P
  <2>2. lp \in Nat /\ mp \in Nat /\ pp \in Nat
    OBVIOUS
  <2>3. lp + P <= r /\ r + lp <= mp
    BY <2>1, <2>2, ProductReflects
  <2>4. 2 * pp <= 2 * r + P /\ 2 * r < 2 * pp + P
    OBVIOUS
  <2>5. /\ L * P = lp /\ p * P = pp
        /\ (p + L) * P = pp + lp /\ (M + 1) * P = mp + P
    OBVIOUS
  <2>6. lp < pp /\ pp + lp < mp + P
    <3> HIDE DEF lp, mp, pp
    <3> QED BY <2>2, <2>3, <2>4
  <2>7. L < p /\ p + L < M + 1
    <3> HIDE DEF lp, mp, pp
    <3>1. L * P < p * P /\ (p + L) * P < (M + 1) * P
      BY <2>5, <2>6
    <3> QED BY <3>1, ProductReflects
  <2> QED BY <1>1, <2>7
<1>2. CASE step * B <= p * b
  <2> DEFINE k == L * b
             s == step * L
  <2>1. k \in Nat /\ k < B /\ s \in Nat
    OBVIOUS
  <2>2. L * (r * b) = r * k
    BY Z3
  <2>3. s * B <= p * k
    <3>1. (step * B) * L <= (p * b) * L
      BY <1>2, ProductGrows
    <3>2. (step * B) * L = s * B /\ (p * b) * L = p * k
      BY Z3
    <3> QED BY <3>1, <3>2
  <2>4. r * B - r * k >= P * B /\ r * B + r * k <= M * (P * B)
    BY <2>2
  <2> HIDE DEF k, s
  <2>5. r >= P
    <3>1. r * B >= P * B
      <4>1. r * k \in Nat /\ r * B \in Nat /\ P * B \in Nat
        BY <2>1
      <4> QED BY <4>1, <2>4
    <3> QED BY <3>1, ProductReflects
  <2>6. p > 0
    <3> SUFFICES ASSUME p = 0 PROVE FALSE
      OBVIOUS
    <3>1. p * P = 0
      OBVIOUS
    <3> QED BY <3>1, <2>5
  <2>7. s < p
    <3>1. p * k < p * B
      BY <2>1, <2>6, Z3
    <3>2. s * B < p * B
      <4>1. p * k \in Nat /\ p * B \in Nat /\ s * B \in Nat
        BY <2>1
      <4> QED BY <4>1, <2>3, <3>1
    <3> QED BY <2>1, <3>2, ProductReflects
  <2>8. p + s < M + 1
    <3> DEFINE w == B + k
               pw == p * w
               rw == r * w
    <3>1. w \in Nat /\ w > 0 /\ pw \in Nat /\ rw \in Nat /\ w < B + B
      BY <2>1
    <3>2. (2 * (p * P)) * w <= (2 * r + P) * w
      <4>1. 2 * (p * P) \in Int /\ 2 * r + P \in Int
        OBVIOUS
      <4> HIDE DEF w
      <4> QED BY <3>1, <4>1, ProductGrows
    <3>3. (2 * (p * P)) * w = 2 * (pw * P) /\ (2 * r + P) * w = 2 * rw + P * w
      <4> HIDE DEF w
      <4> QED BY <3>1, Z3
    <3>4. rw <= M * (P * B)
      <4>1. rw = r * B + r * k
        BY <2>1, Z3
      <4> QED BY <4>1, <2>4
    <3>5. P * w < P * (B + B)
      <4> HIDE DEF w
      <4> QED BY <3>1, Z3
    <3>6. pw * P < ((M + 1) * B) * P
      <4> DEFINE x == pw * P
                 y == M * (P * B)
                 z == P * B
                 v == P * w
      <4>1. x \in Int /\ y \in Int /\ z \in Int /\ v \in Int
        BY <3>1
      <4>2. P * (B + B) = z + z /\ ((M + 1) * B) * P = y + z
        BY Z3
      <4>3. 2 * x <= 2 * rw + v /\ rw <= y /\ v < z + z
        BY <3>2, <3>3, <3>4, <3>5, <4>2
      <4> HIDE DEF x, y, z, v, rw, pw, w
      <4>4. x < y + z
        BY <4>1, <4>3, <3>1
      <4> QED BY <4>2, <4>4 DEF x
    <3>7. pw < (M + 1) * B
      <4>1. (M + 1) * B \in Int
        OBVIOUS
      <4> HIDE DEF pw, w
      <4> QED BY <3>1, <3>6, <4>1, ProductReflects
    <3>8. (p + s) * B <= pw
      <4>1. (p + s) * B = p * B + s * B /\ pw = p * B + p * k
        BY <2>1, Z3
      <4>2. p * B \in Nat /\ s * B \in Nat /\ p * k \in Nat
        BY <2>1
      <4> HIDE DEF pw
      <4> QED BY <4>1, <4>2, <2>3
    <3>9. (p + s) * B < (M + 1) * B
      <4>1. (p + s) * B \in Int /\ (M + 1) * B \in Int
        BY <2>1
      <4> HIDE DEF pw, w
      <4> QED BY <3>1, <3>7, <3>8, <4>1
    <3> QED BY <2>1, <3>9, ProductReflects
  <2> QED BY <2>1, <2>7, <2>8 DEF s
<1> QED BY <1>1, <1>2

\* The venue accepts the ladder of every market that is documented to fit.
LEMMA DocumentedLadderFits ==
  ASSUME SettingsAssumption, NEW s, IsSettings(s), Documented(s), InRange(s),
         NEW i \in DOMAIN s.symbols
  PROVE  LadderFits(Converted(s).symbols[i])
<1> DEFINE m == s.symbols[i]
           c == Converted(s).symbols[i]
           tick == PartsPerTick * BasisPoints
           parts == m.reference_price * BasisPoints
           rb == m.reference_price * m.level_spacing_bps
           spread == m.levels * Max({tick, rb})
           step == LevelStep(c)
<1>1. {PartsPerTick, MaxI64, BasisPoints} \subseteq Nat \ {0}
  BY DEF SettingsAssumption
<1>2. /\ m.reference_price \in Nat \ {0} /\ m.levels \in Nat \ {0}
      /\ m.level_spacing_bps \in Nat \ {0} /\ m.qty_per_level > 0
      /\ m.levels * m.level_spacing_bps < BasisPoints
  <2>1. m \in SymbolSettings /\ MarketInRange(s.symbols, i)
    BY DEF IsSettings, InRange
  <2>2. m.reference_price \in Int /\ m.reference_price > 0
    BY <2>1 DEF MarketInRange, PositiveAmount, SymbolSettings, Amount
  <2>3. m.levels \in Nat /\ m.level_spacing_bps \in Nat /\ m.levels > 0 /\ m.level_spacing_bps > 0
    BY <2>1 DEF MarketInRange, SymbolSettings
  <2>4. m.qty_per_level > 0 /\ m.levels * m.level_spacing_bps < BasisPoints
    BY <2>1 DEF MarketInRange, PositiveQuantity
  <2> QED BY <2>2, <2>3, <2>4
<1>3. /\ c.reference = Ticks(m.reference_price) /\ c.levels = m.levels
      /\ c.qty = m.qty_per_level /\ c.bps = m.level_spacing_bps
  BY DEF Converted
<1>4. parts - spread >= tick /\ parts + spread <= MaxI64 * tick
  BY DEF Documented
<1> HIDE DEF m, c
<1>5. tick \in Nat /\ rb \in Nat /\ parts \in Nat
  BY <1>1, <1>2
<1>6. Max({tick, rb}) \in {tick, rb} /\ tick <= Max({tick, rb}) /\ rb <= Max({tick, rb})
  <2> HIDE DEF tick, rb
  <2>1. \E x \in {tick, rb} : \A y \in {tick, rb} : x >= y
    BY <1>5
  <2> QED BY <2>1 DEF Max
<1>7. /\ m.levels * tick <= spread /\ m.levels * rb <= spread /\ spread \in Nat
      /\ m.levels * tick \in Nat /\ m.levels * rb \in Nat
  <2> DEFINE top == Max({tick, rb})
  <2>1. top \in Nat /\ tick <= top /\ rb <= top
    BY <1>5, <1>6
  <2> HIDE DEF top, tick, rb
  <2>2. tick * m.levels <= top * m.levels /\ rb * m.levels <= top * m.levels
    BY <2>1, <1>2, <1>5, ProductGrows
  <2>3. spread = m.levels * top
    BY DEF top
  <2> QED BY <1>2, <1>5, <2>1, <2>2, <2>3
<1>8. /\ parts - m.levels * tick >= tick /\ parts + m.levels * tick <= MaxI64 * tick
      /\ parts - m.levels * rb >= tick /\ parts + m.levels * rb <= MaxI64 * tick
  <2> DEFINE x == m.levels * tick
             y == m.levels * rb
             top == MaxI64 * tick
  <2>1. x \in Nat /\ y \in Nat /\ top \in Nat /\ x <= spread /\ y <= spread /\ spread \in Nat
    BY <1>1, <1>5, <1>7
  <2>2. parts - spread >= tick /\ parts + spread <= top
    BY <1>4
  <2> HIDE DEF x, y, top, parts, tick, spread
  <2>3. parts - x >= tick /\ parts + x <= top /\ parts - y >= tick /\ parts + y <= top
    BY <2>1, <2>2, <1>5
  <2> QED BY <2>3 DEF x, y, top
<1> DEFINE p == Ticks(m.reference_price)
<1>9. /\ p \in Nat /\ 2 * (p * PartsPerTick) <= 2 * m.reference_price + PartsPerTick
      /\ 2 * m.reference_price < 2 * (p * PartsPerTick) + PartsPerTick
  BY <1>2, TicksBounds
<1>10. step \in Nat \ {0} /\ (step = 1 \/ step * BasisPoints <= p * m.level_spacing_bps)
  <2> DEFINE q == p * m.level_spacing_bps
             d == q \div BasisPoints
  <2>1. q \in Nat /\ step = Max({1, d})
    BY <1>2, <1>3, <1>9 DEF LevelStep
  <2> HIDE DEF q
  <2>2. d \in Int /\ d * BasisPoints <= q
    BY <2>1, <1>1, DivisionBounds
  <2> HIDE DEF d, step
  <2>3. step \in {1, d} /\ 1 <= step
    <3>1. \E x \in {1, d} : \A y \in {1, d} : x >= y
      BY <2>2
    <3> QED BY <2>1, <2>2, <3>1 DEF Max
  <2> QED BY <2>2, <2>3 DEF q
<1>11. p - step * m.levels > 0 /\ p + step * m.levels <= MaxI64
  <2> HIDE DEF p, step
  <2> QED BY <1>1, <1>2, <1>8, <1>9, <1>10, LadderArithmetic
<1>12. p > 0
  <2>1. step * m.levels \in Nat
    BY <1>2, <1>10
  <2> HIDE DEF p, step
  <2> QED BY <1>9, <1>11, <2>1
<1>13. LadderFits(c)
  BY <1>2, <1>3, <1>11, <1>12 DEF LadderFits
<1> QED BY <1>13 DEF c

LEMMA DocumentedInRange ==
  ASSUME SettingsAssumption, NEW s, IsSettings(s), Documented(s)
  PROVE  InRange(s)
<1>1. {s.max_order_notional, s.max_gross_notional, s.max_loss} \subseteq Amounts(s)
      /\ \A i \in DOMAIN s.symbols : s.symbols[i].reference_price \in Amounts(s)
  BY DEF Amounts
<1>2. \A amount \in Amounts(s) : PositiveAmount(amount)
  BY DEF Documented, PositiveAmount
<1>3. ASSUME NEW i \in DOMAIN s.symbols PROVE MarketInRange(s.symbols, i)
  BY <1>1, <1>2 DEF Documented, MarketInRange, PositiveQuantity
<1>4. PositiveQuantity(s.max_order_qty) /\ PositiveQuantity(s.max_position_qty)
  BY DEF Documented, PositiveQuantity
<1> QED BY <1>1, <1>2, <1>3, <1>4 DEF Documented, InRange

\* The amounts of a file in range are numbers of parts.
LEMMA AmountsInRange ==
  ASSUME SettingsAssumption, NEW s, IsSettings(s), InRange(s)
  PROVE  \A amount \in Amounts(s) : amount \in Int /\ amount > 0
<1>1. Amounts(s) \subseteq Amount
  <2>1. \A i \in DOMAIN s.symbols : s.symbols[i].reference_price \in Amount
    <3>1. \A i \in DOMAIN s.symbols : s.symbols[i] \in SymbolSettings
      BY DEF IsSettings
    <3> QED BY <3>1 DEF SymbolSettings
  <2> QED BY <2>1 DEF IsSettings, Amounts
<1>2. \A amount \in Amounts(s) : PositiveAmount(amount)
  BY DEF InRange, MarketInRange, Amounts
<1> QED BY <1>1, <1>2 DEF PositiveAmount, Amount

LEMMA FirstIsKept ==
  ASSUME NEW s, IsSettings(s), NEW i \in DOMAIN s.symbols
  PROVE  FirstOfItsName(Converted(s).symbols, i) <=> FirstOfItsName(s.symbols, i)
<1>1. \A j \in DOMAIN s.symbols : Converted(s).symbols[j].symbol = s.symbols[j].symbol
  BY DEF Converted
<1>2. i \in DOMAIN s.symbols /\ \A j \in 1 .. i - 1 : j \in DOMAIN s.symbols
  BY DEF IsSettings
<1> QED BY <1>1, <1>2 DEF FirstOfItsName

----------------------------------------------------------------------------
(* The settings *)

Loaded == file \in Files \ Unreadable /\ InRange(file)

Configured ==
  /\ Loaded
  /\ config = Converted(file)
  /\ \A amount \in Amounts(file) : Converts(amount)

Listed ==
  \A i \in DOMAIN config.symbols :
    LadderFits(config.symbols[i]) /\ FirstOfItsName(config.symbols, i)

SettingsInv ==
  /\ file \in Files \cup Unreadable
  /\ stage \in {"load", "convert", "build", "bind", "serving", "failed"}
  /\ stage = "failed" <=> error # None
  /\ stage = "convert" => Loaded
  /\ stage \in {"build", "bind", "serving"} => Configured
  /\ stage \in {"bind", "serving"} => Listed
  /\ config # None => Configured
  /\ RefusedForCause
  /\ halted \in BOOLEAN

LEMMA SettingsInit ==
  ASSUME SettingsAssumption, Init
  PROVE  SettingsInv
BY DEF Init, SettingsInv, RefusedForCause

LEMMA SettingsNext ==
  ASSUME SettingsAssumption, SettingsInv, [Next]_vars
  PROVE  SettingsInv'
<1> USE DEF SettingsInv
<1>0. /\ file \notin Unreadable => IsSettings(file)
      /\ \A check \in {"unreadable", "out of range", "market", "bind"} : check # None
  BY DEF SettingsAssumption
<1>1. CASE UNCHANGED vars
  BY <1>1 DEF vars, Loaded, Configured, Listed, RefusedForCause
<1>2. ASSUME NEW check, Fail(check), check # None,
             check # "bind" => file \in Unreadable \/ ~Documented(file)
      PROVE  SettingsInv'
  BY <1>2 DEF Fail, Loaded, Configured, Listed, RefusedForCause
<1>3. CASE LoadFails
  <2>1. CASE file \in Unreadable /\ Fail("unreadable")
    BY <1>0, <1>2, <2>1
  <2>2. CASE file \notin Unreadable /\ ~Valid(file) /\ Fail(FirstFailing(file))
    <3>1. FirstFailing(file) # None /\ ~Documented(file)
      BY <1>0, <2>2, FailureIsNamed, ValidIsInRange, DocumentedInRange
    <3> QED BY <1>2, <2>2, <3>1
  <2> QED BY <1>3, <2>1, <2>2 DEF LoadFails
<1>4. CASE Load
  <2>1. Loaded
    BY <1>0, <1>4, ValidIsInRange DEF Load, Loaded
  <2> QED BY <1>4, <2>1 DEF Load, Loaded, Configured, Listed, RefusedForCause
<1>5. CASE ConvertFails
  <2>1. Loaded
    BY <1>5 DEF ConvertFails
  <2>2. ~Documented(file)
    <3> SUFFICES ASSUME Documented(file) PROVE FALSE
      OBVIOUS
    <3>1. \A amount \in Amounts(file) : amount \in Int /\ amount > 0
      BY <1>0, <2>1, AmountsInRange DEF Loaded
    <3>2. \A amount \in Amounts(file) : amount <= MaxI64 * PartsPerTick
      BY DEF Documented
    <3> QED BY <1>5, <3>1, <3>2, DocumentedConverts DEF ConvertFails
  <2> QED BY <1>0, <1>2, <1>5, <2>2 DEF ConvertFails
<1>6. CASE Convert
  <2>1. Configured'
    BY <1>6 DEF Convert, Configured, Loaded
  <2> QED BY <1>6, <2>1 DEF Convert, Loaded, Configured, RefusedForCause
<1>7. CASE BuildFails
  <2>1. Configured /\ IsSettings(file)
    BY <1>0, <1>7 DEF BuildFails, Configured, Loaded
  <2>2. ~Documented(file)
    <3> SUFFICES ASSUME Documented(file) PROVE FALSE
      OBVIOUS
    <3>1. PICK i \in DOMAIN config.symbols :
            ~LadderFits(config.symbols[i]) \/ ~FirstOfItsName(config.symbols, i)
      BY <1>7 DEF BuildFails
    <3>2. i \in DOMAIN file.symbols
      BY <2>1 DEF Configured, Converted
    <3>3. LadderFits(config.symbols[i])
      BY <2>1, <3>2, DocumentedLadderFits DEF Configured, Loaded
    <3>4. FirstOfItsName(config.symbols, i)
      BY <2>1, <3>2, FirstIsKept DEF Configured, Loaded, InRange, MarketInRange
    <3> QED BY <3>1, <3>3, <3>4
  <2> QED BY <1>0, <1>2, <1>7, <2>2 DEF BuildFails
<1>8. CASE Build
  BY <1>8 DEF Build, Loaded, Configured, Listed, RefusedForCause
<1>9. CASE BindFails
  BY <1>0, <1>2, <1>9 DEF BindFails
<1>10. CASE Serve
  BY <1>10 DEF Serve, Loaded, Configured, Listed, RefusedForCause
<1>11. CASE Tick
  BY <1>11 DEF Tick, Loaded, Configured, Listed, RefusedForCause
<1>12. CASE Exited
  BY <1>1, <1>12 DEF Exited
<1> QED BY <1>1, <1>3, <1>4, <1>5, <1>6, <1>7, <1>8, <1>9, <1>10, <1>11, <1>12 DEF Next

\* Every level of a ladder the venue accepts is a price.
LEMMA LevelsArePrices ==
  ASSUME SettingsAssumption, NEW m, m.reference \in Nat, m.levels \in Nat, m.bps \in Nat,
         LadderFits(m), NEW k \in 1 .. m.levels
  PROVE  /\ m.reference - LevelStep(m) * k \in 1 .. MaxI64
         /\ m.reference + LevelStep(m) * k \in 1 .. MaxI64
<1> DEFINE q == m.reference * m.bps
           d == q \div BasisPoints
           step == LevelStep(m)
<1>1. BasisPoints \in Nat \ {0} /\ MaxI64 \in Nat
  BY DEF SettingsAssumption
<1>2. step = Max({1, d}) /\ q \in Nat
  BY DEF LevelStep
<1>3. d \in Int
  <2> HIDE DEF q
  <2> QED BY <1>1, <1>2, DivisionBounds
<1> HIDE DEF d, step
<1>4. step \in Int /\ 1 <= step
  <2>1. \E x \in {1, d} : \A y \in {1, d} : x >= y
    BY <1>3
  <2>2. step \in {1, d} /\ \A y \in {1, d} : step >= y
    BY <1>2, <2>1 DEF Max
  <2> QED BY <1>3, <2>2
<1>5. step * k <= step * m.levels /\ step * k \in Nat /\ step * m.levels \in Nat
  <2>1. k * step <= m.levels * step
    BY <1>4, ProductGrows
  <2> QED BY <1>4, <2>1
<1>6. /\ m.reference > 0 /\ m.reference - step * m.levels > 0
      /\ m.reference + step * m.levels <= MaxI64
  BY DEF LadderFits, step
<1> DEFINE x == step * k
           y == step * m.levels
<1> HIDE DEF x, y
<1>7. m.reference - x \in 1 .. MaxI64 /\ m.reference + x \in 1 .. MaxI64
  BY <1>1, <1>5, <1>6 DEF x, y
<1> QED BY <1>7 DEF x, step

LEMMA SettingsInvSuffices ==
  ASSUME SettingsAssumption, SettingsInv
  PROVE  ValidationExact
<1>0. MaxInterval \in Nat /\ MaxBuffer \in Nat /\ MaxI64 \in Nat
  BY DEF SettingsAssumption
<1>1. file \notin Unreadable => IsSettings(file)
  BY DEF SettingsAssumption, SettingsInv
<1>2. ASSUME Configured
      PROVE  /\ \A amount \in Amounts(file) : Ticks(amount) \in 0 .. MaxI64
             /\ \A i \in DOMAIN config.symbols :
                  /\ config.symbols[i].reference \in 0 .. MaxI64
                  /\ config.symbols[i].levels \in Nat /\ config.symbols[i].bps \in Nat
             /\ config.max_order_notional \in 0 .. MaxI64
             /\ config.max_gross_notional \in 0 .. MaxI64 /\ config.max_loss \in 0 .. MaxI64
  <2>1. IsSettings(file) /\ InRange(file) /\ config = Converted(file)
    BY <1>1, <1>2 DEF Configured, Loaded
  <2>2. \A amount \in Amounts(file) : amount \in Int /\ amount > 0
    BY <2>1, AmountsInRange
  <2>3. \A amount \in Amounts(file) : Ticks(amount) \in Nat
    BY <2>2, TicksBounds
  <2>4. \A amount \in Amounts(file) : Ticks(amount) \in 0 .. MaxI64
    BY <1>0, <1>2, <2>3 DEF Configured, Converts
  <2>5. ASSUME NEW i \in DOMAIN config.symbols
        PROVE  /\ config.symbols[i].reference \in 0 .. MaxI64
               /\ config.symbols[i].levels \in Nat /\ config.symbols[i].bps \in Nat
    <3>1. i \in DOMAIN file.symbols /\ file.symbols[i] \in SymbolSettings
      BY <2>1 DEF Converted, IsSettings
    <3>2. /\ config.symbols[i].reference = Ticks(file.symbols[i].reference_price)
          /\ config.symbols[i].levels = file.symbols[i].levels
          /\ config.symbols[i].bps = file.symbols[i].level_spacing_bps
      BY <2>1, <3>1 DEF Converted
    <3>3. file.symbols[i].reference_price \in Amounts(file)
      BY <3>1 DEF Amounts
    <3> QED BY <2>4, <3>1, <3>2, <3>3 DEF SymbolSettings
  <2>6. /\ config.max_order_notional = Ticks(file.max_order_notional)
        /\ config.max_gross_notional = Ticks(file.max_gross_notional)
        /\ config.max_loss = Ticks(file.max_loss)
    BY <2>1 DEF Converted
  <2> QED BY <2>4, <2>5, <2>6 DEF Amounts
<1>3. TypeOK
  BY <1>1, <1>2 DEF SettingsInv, TypeOK
<1>4. ASSUME stage = "serving" PROVE ServedIsSound
  <2>1. Configured /\ Listed /\ IsSettings(file) /\ InRange(file) /\ config = Converted(file)
    BY <1>1, <1>4 DEF SettingsInv, Configured, Loaded
  <2>2. /\ file.tick_interval_ms > 0 /\ file.command_buffer > 0 /\ file.fill_buffer > 0
        /\ file.retained > 0
        /\ file.max_order_qty \in 1 .. MaxI64 /\ file.max_position_qty \in 1 .. MaxI64
    <3>1. file.retained \in Nat
      BY <2>1 DEF IsSettings
    <3> QED BY <1>0, <2>1, <3>1 DEF InRange, PositiveQuantity
  <2>3. /\ config.retained = file.retained /\ config.max_order_qty = file.max_order_qty
        /\ config.max_position_qty = file.max_position_qty
        /\ DOMAIN config.symbols = DOMAIN file.symbols
    BY <2>1 DEF Converted
  <2>4. ASSUME NEW i \in DOMAIN config.symbols, NEW j \in DOMAIN config.symbols,
               config.symbols[i].symbol = config.symbols[j].symbol
        PROVE  i = j
    <3>1. i \in Nat /\ j \in Nat /\ i > 0 /\ j > 0
      BY <2>1, <2>3 DEF IsSettings
    <3>2. ~(i < j) /\ ~(j < i)
      BY <2>1, <2>4, <3>1 DEF Listed, FirstOfItsName
    <3> QED BY <3>1, <3>2
  <2>5. ASSUME NEW i \in DOMAIN config.symbols, NEW k \in 1 .. config.symbols[i].levels
        PROVE  LET m == config.symbols[i]
               IN  /\ m.reference - LevelStep(m) * k \in 1 .. MaxI64
                   /\ m.reference + LevelStep(m) * k \in 1 .. MaxI64
    <3> DEFINE m == config.symbols[i]
    <3>1. m.reference \in Nat /\ m.levels \in Nat /\ m.bps \in Nat /\ LadderFits(m)
      BY <1>2, <2>1 DEF Listed
    <3> HIDE DEF m
    <3>2. k \in 1 .. m.levels
      BY DEF m
    <3>3. /\ m.reference - LevelStep(m) * k \in 1 .. MaxI64
          /\ m.reference + LevelStep(m) * k \in 1 .. MaxI64
      BY <3>1, <3>2, LevelsArePrices
    <3> QED BY <3>3 DEF m
  <2> QED BY <2>2, <2>3, <2>4, <2>5 DEF ServedIsSound
<1> QED BY <1>3, <1>4 DEF ServedIsSound, SettingsInv, ValidationExact

\* config/src/lib.rs:23-87: the checks of all stages together are exact.  An engine
\* that serves has what the other components assume, every ladder within the prices
\* included, and a file that is documented to be good is refused by no stage.
THEOREM ValidationIsExact == Spec => []ValidationExact
<1>0. SettingsAssumption
  BY SettingsConstants
<1>1. Init => SettingsInv
  BY <1>0, SettingsInit
<1>2. SettingsInv /\ [Next]_vars => SettingsInv'
  BY <1>0, SettingsNext
<1>3. SettingsInv => ValidationExact
  BY <1>0, SettingsInvSuffices
<1> QED BY <1>1, <1>2, <1>3, PTL DEF Spec

----------------------------------------------------------------------------
(* From the form to the message *)

\* What f64 is made of, and that no part of a typed number is too small for it.
LEMMA FloatConstants ==
  /\ Precision \in Nat \ {0, 1} /\ Grain \in Nat \ {0} /\ Spacings \subseteq Nat \ {0}
  /\ PriceParts \in Nat \ {0} /\ TimeParts \in Nat \ {0}
  /\ TickScale \in Nat \ {0} /\ Second \in Nat \ {0}
  /\ Grain >= Precision * (PriceParts * TickScale) /\ Grain >= Precision * (TimeParts * Second)
BY OrderConstants DEF Orders!RequestAssumption, Orders!FloatAssumption

LEMMA ProductOfSum ==
  ASSUME NEW a \in Int, NEW b \in Int, NEW n \in Int
  PROVE  n * (a + b) = n * a + n * b /\ n * (a - b) = n * a - n * b /\ n * a = a * n
OBVIOUS

LEMMA ProductGroups ==
  ASSUME NEW a \in Int, NEW b \in Int, NEW c \in Int
  PROVE  (a * b) * c = a * (b * c) /\ (a * b) * c = (a * c) * b
OBVIOUS

LEMMA ProductWithin ==
  ASSUME NEW e \in Int, NEW w \in Nat, NEW n \in Nat, e \in -w .. w
  PROVE  n * e \in -(n * w) .. n * w
<1>1. e * n <= w * n /\ -w * n <= e * n
  BY ProductGrows
<1>2. -w * n = -(n * w) /\ e * n = n * e /\ w * n = n * w /\ n * e \in Int /\ n * w \in Int
  OBVIOUS
<1> QED BY <1>1, <1>2

\* With q + m/w between two floats, rounding moves by half their distance w at most.
LEMMA HalfSpacing ==
  ASSUME NEW q \in Int, NEW w \in Nat \ {0}, NEW m \in 0 .. w - 1, NEW n \in Int, n = q * w + m,
         NEW r \in {q, q + 1}, r = q => 2 * m <= w, r = q + 1 => 2 * m >= w
  PROVE  2 * (r * w - n) \in -w .. w
<1> DEFINE b == q * w
<1>1. b \in Int /\ (q + 1) * w = b + w
  OBVIOUS
<1>2. CASE r = q
  <2>1. r * w - n = -m
    BY <1>1, <1>2
  <2> QED BY <1>2, <2>1
<1>3. CASE r = q + 1
  <2>1. r * w - n = w - m
    BY <1>1, <1>3
  <2> QED BY <1>3, <2>1
<1> QED BY <1>2, <1>3

\* The float nearest to a number is off by one part in Precision at most.
LEMMA NearestBounds ==
  ASSUME NEW n \in Nat, NEW d \in Nat \ {0}, Orders!Fits(n, d), d * Precision <= 2 * n
  PROVE  /\ Orders!Nearest(n, d) \in Nat
         /\ Precision * (Orders!Nearest(n, d) * d - n) \in -n .. n
<1> DEFINE u == CHOOSE v \in Spacings : Orders!Suits(v, n, d)
           w == d * u
           q == n \div w
           m == n % w
           up == 2 * m > w \/ (2 * m = w /\ q % 2 = 1)
           r == IF up THEN q + 1 ELSE q
           f == Orders!Nearest(n, d)
<1>1. u \in Spacings /\ Orders!Suits(u, n, d)
  BY DEF Orders!Fits
<1>2. f = u * r
  BY DEF Orders!Nearest
<1>3. u \in Nat \ {0} /\ Precision \in Nat \ {0}
  BY <1>1, FloatConstants
<1>4. w * Precision <= 2 * n
  BY <1>1, <1>3 DEF Orders!Suits
<1> HIDE DEF u
<1>5. w \in Nat \ {0}
  BY <1>3
<1>6. q \in Int /\ m \in 0 .. w - 1 /\ n = q * w + m
  <2> HIDE DEF w
  <2> QED BY <1>5
<1>7. q >= 0
  <2> HIDE DEF w
  <2> QED BY <1>5
<1>8. 2 * (r * w - n) \in -w .. w /\ r \in Nat
  <2> HIDE DEF w, q, m
  <2>1. r \in {q, q + 1} /\ (r = q => 2 * m <= w) /\ (r = q + 1 => 2 * m >= w) /\ r \in Nat
    BY <1>5, <1>6, <1>7
  <2> HIDE DEF r
  <2> QED BY <1>5, <1>6, <2>1, HalfSpacing
<1> HIDE DEF r
<1>9. f \in Nat /\ f * d = r * w
  <2>1. f \in Nat
    BY <1>2, <1>3, <1>8
  <2>2. f * d = (u * r) * d
    BY <1>2
  <2>3. (u * r) * d = r * (d * u)
    BY <1>3, <1>8
  <2> QED BY <2>1, <2>2, <2>3
<1> HIDE DEF w, f
<1> DEFINE e == f * d - n
<1>10. e \in Int /\ 2 * e \in -w .. w
  BY <1>5, <1>8, <1>9
<1> HIDE DEF e
<1>11. Precision * (2 * e) \in -(Precision * w) .. Precision * w
  BY <1>3, <1>5, <1>10, ProductWithin
<1>12. Precision * (2 * e) = 2 * (Precision * e) /\ Precision * w = w * Precision
       /\ Precision * e \in Int /\ Precision * w \in Int
  BY <1>3, <1>5, <1>10
<1> DEFINE pe == Precision * e
           pw == Precision * w
<1>13. pe \in Int /\ pw \in Int /\ 2 * pe \in -pw .. pw /\ pw <= 2 * n
  BY <1>4, <1>11, <1>12
<1> HIDE DEF pe, pw
<1>14. pe \in -n .. n
  BY <1>13
<1> QED BY <1>9, <1>14 DEF pe, e, f

\* A number typed in a larger unit is parsed and multiplied: two roundings, which
\* together move it by at most its Blur.
LEMMA TwoRoundings ==
  ASSUME NEW text \in Nat \ {0}, NEW parts \in Nat \ {0}, NEW scale \in Nat \ {0},
         Grain >= Precision * (parts * scale), Orders!Finite(text, parts, scale)
  PROVE  LET y == Orders!Scaled(text, parts, scale)
             square == Precision * Precision
         IN  /\ y \in Nat
             /\ square * (y * parts - text * Grain)
                  \in -(Grain * Orders!Blur(text)) .. Grain * Orders!Blur(text)
<1> DEFINE n == text * Grain
           d == parts * scale
           x == Orders!Nearest(n, d)
           xs == x * scale
           y == Orders!Nearest(xs, 1)
           yp == y * parts
           xd == x * d
<1>1. /\ Precision \in Nat \ {0, 1} /\ Grain \in Nat \ {0}
      /\ n \in Nat \ {0} /\ d \in Nat \ {0}
  BY FloatConstants
<1>2. Orders!Fits(n, d) /\ Orders!Fits(xs, 1)
  BY DEF Orders!Finite, Orders!Parsed
<1>3. Precision * d <= n
  <2>1. 1 * Grain <= text * Grain
    BY <1>1, ProductGrows
  <2> QED BY <1>1, <2>1
<1>4. d * Precision = Precision * d /\ Precision * d \in Nat
  BY <1>1
<1>5. x \in Nat /\ Precision * (xd - n) \in -n .. n
  <2> HIDE DEF n, d
  <2> QED BY <1>1, <1>2, <1>3, <1>4, NearestBounds
<1>6. xs \in Nat /\ xd \in Nat /\ xs * parts = xd
  <2> HIDE DEF x
  <2>1. xs \in Nat /\ xd \in Nat
    BY <1>1, <1>5
  <2>2. (x * scale) * parts = x * (parts * scale)
    BY <1>5
  <2> QED BY <2>1, <2>2
<1> HIDE DEF n, x
<1> DEFINE px == Precision * xd
           pn == Precision * n
<1>7. /\ px \in Int /\ pn \in Int /\ Precision * (xd - n) = px - pn
      /\ px <= pn + n /\ pn - n <= px
  <2>1. px \in Int /\ pn \in Int
    BY <1>1, <1>6
  <2>2. Precision * (xd - n) = px - pn
    BY <1>1, <1>6, ProductOfSum
  <2> QED BY <1>1, <1>5, <2>1, <2>2
<1>8. xs >= Precision - 1
  <2>1. (Precision - 1) * (Precision * d) <= (Precision - 1) * n
    <3>1. (Precision * d) * (Precision - 1) <= n * (Precision - 1)
      BY <1>1, <1>3, <1>4, ProductGrows
    <3> QED BY <1>1, <1>4, <3>1
  <2>2. (Precision - 1) * n = pn - n
    BY <1>1
  <2>3. (Precision - 1) * (Precision * d) <= x * (Precision * d)
    <3> DEFINE low == (Precision - 1) * (Precision * d)
               high == x * (Precision * d)
    <3>1. high = px
      BY <1>1, <1>5
    <3>2. low \in Int /\ low <= pn - n
      BY <1>1, <1>4, <2>1, <2>2
    <3> HIDE DEF low, high, px, pn
    <3>3. low <= high
      BY <1>1, <1>7, <3>1, <3>2
    <3> QED BY <3>3 DEF low, high
  <2>4. Precision - 1 <= x
    <3>1. Precision * d \in Nat \ {0}
      BY <1>1
    <3> HIDE DEF d
    <3> QED BY <1>1, <1>5, <2>3, <3>1, ProductReflects
  <2>5. 1 * x <= scale * x
    BY <1>5, ProductGrows
  <2> QED BY <1>1, <1>5, <2>4, <2>5
<1>9. y \in Nat /\ Precision * (y - xs) \in -xs .. xs
  <2>1. 1 * Precision <= 2 * xs
    BY <1>1, <1>6, <1>8
  <2> HIDE DEF xs
  <2>2. y \in Nat /\ Precision * (y * 1 - xs) \in -xs .. xs
    BY <1>2, <1>6, <2>1, NearestBounds
  <2> QED BY <2>2
<1> HIDE DEF xs, y
<1> DEFINE py == Precision * yp
<1>10. yp \in Nat /\ py \in Int /\ px - xd <= py /\ py <= px + xd
  <2>1. yp \in Nat /\ py \in Int
    BY <1>1, <1>9
  <2>2. parts * (Precision * (y - xs)) \in -(parts * xs) .. parts * xs
    BY <1>1, <1>6, <1>9, ProductWithin
  <2>3. parts * xs = xd
    BY <1>6
  <2>4. parts * (Precision * (y - xs)) = py - px
    <3>1. parts * (Precision * (y - xs)) = Precision * (parts * (y - xs))
      BY <1>1, <1>6, <1>9
    <3>2. parts * (y - xs) = yp - xd
      BY <1>6, <1>9, <2>3, ProductOfSum
    <3>3. Precision * (yp - xd) = py - px
      BY <1>1, <1>6, <2>1, ProductOfSum
    <3> QED BY <3>1, <3>2, <3>3
  <2> QED BY <1>6, <1>7, <2>1, <2>2, <2>3, <2>4
<1> DEFINE most == px + pn
<1>11. Precision * (py - pn) \in -(px + pn) .. px + pn
  <2>1. Precision * (py - px) \in -px .. px
    <3> HIDE DEF py, px
    <3>1. py - px \in -xd .. xd
      BY <1>6, <1>7, <1>10
    <3> QED BY <1>1, <1>6, <3>1, ProductWithin DEF px
  <2>2. Precision * (px - pn) \in -pn .. pn
    <3> HIDE DEF px, pn
    <3>1. px - pn \in -n .. n
      BY <1>1, <1>7
    <3> QED BY <1>1, <3>1, ProductWithin DEF pn
  <2> HIDE DEF py, px, pn
  <2>3. Precision * (py - pn) = Precision * (py - px) + Precision * (px - pn)
    <3>1. py - pn = (py - px) + (px - pn)
      BY <1>7, <1>10
    <3> QED BY <1>1, <1>7, <1>10, <3>1, ProductOfSum
  <2>4. Precision * (py - px) \in Int /\ Precision * (px - pn) \in Int
    BY <1>1, <1>7, <1>10
  <2> QED BY <1>7, <2>1, <2>2, <2>3, <2>4
<1>12. px + pn <= Grain * Orders!Blur(text)
  <2>1. Grain * Orders!Blur(text) = 2 * pn + n
    <3>1. Grain * (text * (2 * Precision + 1)) = n * (2 * Precision + 1)
      BY <1>1 DEF n
    <3>2. n * (2 * Precision + 1) = 2 * pn + n
      BY <1>1
    <3> QED BY <3>1, <3>2 DEF Orders!Blur
  <2> QED BY <1>1, <1>7, <2>1
<1>13. (Precision * Precision) * (yp - n) = Precision * (py - pn)
  <2>1. (Precision * Precision) * (yp - n) = Precision * (Precision * (yp - n))
    BY <1>1, <1>10
  <2>2. Precision * (yp - n) = py - pn
    BY <1>1, <1>10, ProductOfSum
  <2> QED BY <2>1, <2>2
<1>14. Grain * Orders!Blur(text) \in Int
  BY <1>1 DEF Orders!Blur
<1>15. Orders!Scaled(text, parts, scale) = y
  BY DEF Orders!Scaled, Orders!Parsed, y, xs, x, n
<1> HIDE DEF px, pn, py, yp
<1>16. (Precision * Precision) * (yp - n)
         \in -(Grain * Orders!Blur(text)) .. Grain * Orders!Blur(text)
  BY <1>1, <1>7, <1>11, <1>12, <1>13, <1>14
<1> QED BY <1>9, <1>15, <1>16 DEF yp, n

\* A price of a number of parts is rounded to the tick that LimitAsTyped describes.
LEMMA PriceRounds ==
  ASSUME NEW text \in Int, text # 0, Orders!Finite(Orders!Size(text), PriceParts, TickScale)
  PROVE  /\ Orders!Ticks(text) \in Int
         /\ text < 0 => Orders!Ticks(text) <= 0
         /\ text > 0 => Orders!Ticks(text) >= 0 /\ Orders!LimitAsTyped(Orders!Ticks(text), text)
<1> DEFINE size == Orders!Size(text)
           y == Orders!Scaled(size, PriceParts, TickScale)
           t == (2 * y + Grain) \div (2 * Grain)
           square == Precision * Precision
<1>1. size \in Nat \ {0}
  BY DEF Orders!Size
<1>2. /\ Precision \in Nat \ {0, 1} /\ Grain \in Nat \ {0} /\ PriceParts \in Nat \ {0}
      /\ square \in Nat \ {0}
  BY FloatConstants
<1>3. Orders!Ticks(text) = IF text < 0 THEN -t ELSE t
  BY DEF Orders!Ticks
<1>4. /\ y \in Nat
      /\ square * (y * PriceParts - size * Grain)
           \in -(Grain * Orders!Blur(size)) .. Grain * Orders!Blur(size)
  <2>1. Orders!Finite(size, PriceParts, TickScale)
    OBVIOUS
  <2> HIDE DEF size
  <2> QED BY <1>1, <2>1, FloatConstants, TwoRoundings
<1> HIDE DEF y
<1>5. t \in Nat /\ 2 * (t * Grain) <= 2 * y + Grain /\ 2 * y < 2 * (t * Grain) + Grain
  BY <1>2, <1>4, RoundingBounds
<1> HIDE DEF t
<1>6. ASSUME text > 0 PROVE Orders!LimitAsTyped(t, text)
  <2>1. size = text
    BY <1>6 DEF Orders!Size
  <2> DEFINE blur == Orders!Blur(text)
             gb == Grain * blur
             off == t * PriceParts - text
             sp == square * PriceParts
             gsp == Grain * sp
             miss == square * (y * PriceParts - text * Grain)
  <2>2. /\ blur \in Nat /\ gb \in Nat /\ off \in Int /\ sp \in Nat \ {0} /\ gsp \in Nat
        /\ miss \in -gb .. gb /\ miss \in Int
    BY <1>2, <1>4, <1>5, <1>6, <2>1 DEF Orders!Blur
  <2>3. square * (2 * off) \in -(sp + 2 * blur) .. sp + 2 * blur
    <3> DEFINE tick == 2 * (t * Grain) - 2 * y
               half == sp * tick
    <3>1. tick \in -Grain .. Grain
      <4> DEFINE tg == t * Grain
      <4>1. tg \in Int
        BY <1>2, <1>5
      <4> HIDE DEF tg
      <4> QED BY <1>2, <1>4, <1>5, <4>1 DEF tg
    <3>2. half \in -gsp .. gsp
      <4> HIDE DEF tick, sp
      <4>1. sp * tick \in -(sp * Grain) .. sp * Grain
        BY <1>2, <2>2, <3>1, ProductWithin
      <4>2. sp * Grain = gsp
        BY <1>2, <2>2
      <4> QED BY <4>1, <4>2
    <3>3. Grain * (square * (2 * off)) = half + 2 * miss
      <4> DEFINE tgp == (t * Grain) * PriceParts
                 ypp == y * PriceParts
                 tex == text * Grain
      <4>1. tgp \in Int /\ ypp \in Int /\ tex \in Int
        BY <1>2, <1>4, <1>5
      <4>2. Grain * (2 * off) = 2 * tgp - 2 * tex
        <5>1. Grain * (t * PriceParts) = tgp /\ Grain * text = tex
          BY <1>2, <1>5
        <5>2. Grain * (t * PriceParts - text) = Grain * (t * PriceParts) - Grain * text
          BY <1>2, <1>5, ProductOfSum
        <5>3. Grain * (2 * off) = 2 * (Grain * off)
          BY <1>2, <2>2
        <5> HIDE DEF tgp, tex
        <5> QED BY <4>1, <5>1, <5>2, <5>3
      <4>3. PriceParts * tick = 2 * tgp - 2 * ypp
        BY <1>2, <1>4, <1>5
      <4>4. half = square * (PriceParts * tick)
        <5>1. tick \in Int
          BY <3>1, <1>2
        <5> HIDE DEF tick
        <5> QED BY <1>2, <5>1
      <4> HIDE DEF tgp, ypp, tex, tick
      <4>5. square * (2 * tgp - 2 * tex) = square * (2 * tgp - 2 * ypp) + 2 * (square * (ypp - tex))
        <5> DEFINE st == square * tgp
                   sy == square * ypp
                   sx == square * tex
        <5>1. st \in Int /\ sy \in Int /\ sx \in Int
          BY <1>2, <4>1
        <5>2. square * (2 * tgp - 2 * tex) = 2 * st - 2 * sx
          BY <1>2, <4>1
        <5>3. square * (2 * tgp - 2 * ypp) = 2 * st - 2 * sy
          BY <1>2, <4>1
        <5>4. square * (ypp - tex) = sy - sx
          BY <1>2, <4>1
        <5> HIDE DEF st, sy, sx
        <5> QED BY <5>1, <5>2, <5>3, <5>4
      <4>6. Grain * (square * (2 * off)) = square * (Grain * (2 * off))
        BY <1>2, <2>2
      <4> QED BY <4>2, <4>3, <4>4, <4>5, <4>6 DEF ypp, tex
    <3> DEFINE e == square * (2 * off)
               b == sp + 2 * blur
    <3>4. e \in Int /\ b \in Nat
      BY <1>2, <2>2
    <3>5. b * Grain = gsp + 2 * gb /\ (-b) * Grain = -(gsp + 2 * gb) /\ e * Grain = half + 2 * miss
      <4> HIDE DEF sp, blur, e, half, miss
      <4>1. e * Grain = Grain * e
        BY <1>2, <3>4
      <4> QED BY <1>2, <2>2, <3>3, <4>1 DEF e
    <3> HIDE DEF e, b, half, gsp, gb, miss
    <3>6. half \in Int
      BY <2>2, <3>2
    <3>7. e * Grain <= b * Grain /\ (-b) * Grain <= e * Grain
      BY <2>2, <3>2, <3>5, <3>6
    <3>8. e <= b /\ -b <= e
      BY <1>2, <3>4, <3>7, ProductReflects
    <3> QED BY <3>4, <3>8 DEF e, b
  <2>4. ASSUME text % PriceParts = 0, 2 * blur < sp PROVE off = 0
    <3> DEFINE k == text \div PriceParts
               kg == k * Grain
               tg == t * Grain
    <3>1. k \in Nat /\ text = k * PriceParts
      BY <1>2, <1>6, <2>4
    <3> HIDE DEF k
    <3>2. kg \in Nat /\ tg \in Nat
      BY <1>2, <1>5, <3>1
    <3>3. miss = sp * (y - kg)
      <4>1. text * Grain = kg * PriceParts
        BY <1>2, <3>1
      <4>2. y * PriceParts - kg * PriceParts = PriceParts * (y - kg)
        BY <1>2, <1>4, <3>2
      <4> HIDE DEF kg
      <4>3. square * (PriceParts * (y - kg)) = (square * PriceParts) * (y - kg)
        BY <1>2, <1>4, <3>2
      <4> QED BY <4>1, <4>2, <4>3
    <3>4. 2 * gb < gsp
      <4> HIDE DEF blur, sp
      <4>1. (2 * blur + 1) * Grain <= sp * Grain
        BY <1>2, <2>2, <2>4, ProductGrows
      <4>2. (2 * blur + 1) * Grain = 2 * gb + Grain /\ sp * Grain = gsp
        BY <1>2, <2>2
      <4> QED BY <1>2, <2>2, <4>1, <4>2
    <3>5. 2 * (y - kg) < Grain /\ -Grain < 2 * (y - kg)
      <4> DEFINE z == 2 * (y - kg)
      <4>1. z \in Int
        BY <1>4, <3>2
      <4>2. z * sp = 2 * miss /\ Grain * sp = gsp /\ (-Grain) * sp = -gsp
        <5> HIDE DEF kg, sp
        <5> QED BY <1>2, <1>4, <2>2, <3>2, <3>3
      <4> HIDE DEF z, gsp, gb, miss, sp
      <4>3. z * sp < Grain * sp /\ (-Grain) * sp < z * sp
        BY <2>2, <3>4, <4>2
      <4> QED BY <1>2, <2>2, <4>1, <4>3, ProductReflects DEF z
    <3>6. t < k + 1 /\ k < t + 1
      <4>1. (k + 1) * Grain = kg + Grain /\ (t + 1) * Grain = tg + Grain
        BY <1>2, <1>5, <3>1
      <4>2. t * Grain < (k + 1) * Grain /\ k * Grain < (t + 1) * Grain
        <5> HIDE DEF kg, tg
        <5>1. tg < kg + Grain /\ kg < tg + Grain
          BY <1>2, <1>4, <1>5, <3>2, <3>5 DEF tg
        <5> QED BY <4>1, <5>1 DEF kg, tg
      <4> QED BY <1>2, <1>5, <3>1, <4>2, ProductReflects
    <3>7. t = k
      BY <1>5, <3>1, <3>6
    <3> QED BY <1>2, <2>2, <3>1, <3>7
  <2> QED BY <2>3, <2>4 DEF Orders!LimitAsTyped
<1> QED BY <1>3, <1>5, <1>6

\* A limit that parses is none, or the tick count that LimitAsTyped describes.
LEMMA LimitIsNear ==
  ASSUME NEW text, Orders!LimitParses(text)
  PROVE  /\ text \in {Empty, 0} => Orders!LimitOf(text) = None
         /\ text \notin {Empty, 0} =>
              /\ Orders!LimitOf(text) \in 0 .. MaxTicks
              /\ Orders!LimitAsTyped(Orders!LimitOf(text), text)
<1>1. CASE text \in {Empty, 0}
  BY <1>1 DEF Orders!LimitOf
<1>2. CASE text \notin {Empty, 0}
  <2>1. /\ text \in Int /\ text > 0 /\ Orders!Finite(text, PriceParts, TickScale)
        /\ Orders!Ticks(text) <= MaxTicks
    BY <1>2 DEF Orders!LimitParses
  <2>2. Orders!Size(text) = text
    BY <2>1 DEF Orders!Size
  <2>3. /\ Orders!Ticks(text) \in Int /\ Orders!Ticks(text) >= 0
        /\ Orders!LimitAsTyped(Orders!Ticks(text), text)
    BY <2>1, <2>2, PriceRounds
  <2>4. Orders!LimitOf(text) = Orders!Ticks(text) /\ MaxTicks \in Nat
    BY <1>2, OrderConstants DEF Orders!LimitOf, Orders!RequestAssumption
  <2> QED BY <1>2, <2>1, <2>3, <2>4
<1> QED BY <1>1, <1>2

\* A window that parses is the one that WindowAsTyped describes.
LEMMA WindowIsNear ==
  ASSUME NEW text, Orders!DurationParses(text), NEW now \in Clock,
         now + Orders!Nanos(text) <= MaxU64
  PROVE  /\ Orders!Nanos(text) \in 0 .. MaxU64
         /\ Orders!WindowAsTyped(Orders!Nanos(text), text)
<1> DEFINE y == Orders!Scaled(text, TimeParts, Second)
           d == y \div Grain
           n == Orders!Nanos(text)
           square == Precision * Precision
           blur == Orders!Blur(text)
<1>1. /\ MaxU64 \in Nat /\ now \in 1 .. MaxU64 /\ TimeParts \in Nat \ {0}
      /\ Grain \in Nat \ {0} /\ square \in Nat \ {0}
  BY FloatConstants, OrderConstants DEF Orders!RequestAssumption
<1>2. text \in Nat \ {0} /\ Orders!Finite(text, TimeParts, Second) /\ blur \in Nat
  BY FloatConstants DEF Orders!DurationParses, Orders!Blur
<1>3. /\ y \in Nat
      /\ square * (y * TimeParts - text * Grain) \in -(Grain * blur) .. Grain * blur
  <2> HIDE DEF blur
  <2> QED BY <1>2, FloatConstants, TwoRoundings DEF blur
<1>4. n = Orders!Min({MaxU64, d})
  BY <1>2 DEF Orders!Nanos
<1> HIDE DEF y, n
<1>5. d \in Nat /\ d * Grain <= y /\ y < d * Grain + Grain
  <2>1. d \in Int /\ d * Grain <= y /\ y < d * Grain + Grain
    BY <1>1, <1>3, DivisionBounds
  <2> HIDE DEF d
  <2>2. (d + 1) * Grain = d * Grain + Grain
    BY <1>1, <2>1
  <2>3. 0 * Grain < (d + 1) * Grain
    BY <1>1, <1>3, <2>1, <2>2
  <2> QED BY <1>1, <2>1, <2>3, ProductReflects
<1> HIDE DEF d
<1>6. n = d /\ n <= MaxU64
  <2>1. n \in {MaxU64, d} /\ n <= d /\ n <= MaxU64
    <3>1. \E a \in {MaxU64, d} : \A b \in {MaxU64, d} : a <= b
      BY <1>1, <1>5
    <3>2. n \in {MaxU64, d} /\ \A b \in {MaxU64, d} : n <= b
      BY <1>4, <3>1 DEF Orders!Min
    <3> QED BY <3>2
  <2> QED BY <1>1, <1>5, <2>1 DEF n
<1> DEFINE sp == square * TimeParts
           short == text - d * TimeParts
           rest == y - d * Grain
           miss == square * (y * TimeParts - text * Grain)
           gb == Grain * blur
           e == square * short
<1>7. sp \in Nat \ {0} /\ short \in Int /\ rest \in 0 .. Grain - 1 /\ gb \in Nat /\ e \in Int
  <2>1. d * Grain \in Nat /\ d * TimeParts \in Nat
    BY <1>1, <1>5
  <2> DEFINE dg == d * Grain
  <2>2. rest \in 0 .. Grain - 1
    <3>1. dg \in Nat /\ dg <= y /\ y < dg + Grain
      BY <1>5, <2>1
    <3> HIDE DEF dg
    <3>2. y - dg \in 0 .. Grain - 1
      BY <1>1, <1>3, <3>1
    <3> QED BY <3>2 DEF dg
  <2> HIDE DEF blur
  <2> QED BY <1>1, <1>2, <2>1, <2>2
<1>8. e * Grain = sp * rest - miss
  <2> DEFINE yt == y * TimeParts
             dgt == (d * Grain) * TimeParts
             tex == text * Grain
  <2>1. yt \in Int /\ dgt \in Int /\ tex \in Int
    BY <1>1, <1>2, <1>3, <1>5
  <2>2. sp * rest = square * (yt - dgt)
    <3>1. rest * TimeParts = yt - dgt
      BY <1>1, <1>3, <1>5
    <3>2. sp * rest = square * (rest * TimeParts)
      <4> HIDE DEF rest
      <4> QED BY <1>1, <1>7
    <3> QED BY <3>1, <3>2
  <2>3. e * Grain = square * (tex - dgt)
    <3>1. short * Grain = tex - dgt
      BY <1>1, <1>2, <1>5
    <3>2. e * Grain = square * (short * Grain)
      <4> HIDE DEF short
      <4> QED BY <1>1, <1>7
    <3> QED BY <3>1, <3>2
  <2> DEFINE sy == square * yt
             sd == square * dgt
             sx == square * tex
  <2>4. /\ square * (yt - dgt) = sy - sd /\ square * (tex - dgt) = sx - sd
        /\ square * (yt - tex) = sy - sx /\ sy \in Int /\ sd \in Int /\ sx \in Int
    <3> HIDE DEF yt, dgt, tex
    <3> QED BY <1>1, <2>1
  <2>5. miss = sy - sx
    BY <2>4
  <2> HIDE DEF sy, sd, sx, miss, sp, rest, e
  <2> QED BY <2>2, <2>3, <2>4, <2>5
<1> HIDE DEF e, rest, short, sp, miss, gb, blur
<1>9. miss \in -gb .. gb /\ miss \in Int
  BY <1>3, <1>7 DEF miss, gb
<1>10. sp * rest \in Nat /\ sp * rest <= sp * Grain
  <2>1. rest * sp <= Grain * sp
    BY <1>1, <1>7, ProductGrows
  <2> QED BY <1>1, <1>7, <2>1
<1>11. sp * rest < sp * Grain
  <2>1. (rest + 1) * sp <= Grain * sp
    BY <1>1, <1>7, ProductGrows
  <2>2. (rest + 1) * sp = sp * rest + sp /\ Grain * sp = sp * Grain
    BY <1>1, <1>7
  <2> QED BY <1>1, <1>7, <1>10, <2>1, <2>2
<1>12. (-blur) * Grain = -gb /\ (sp + blur) * Grain = sp * Grain + gb
  BY <1>1, <1>2, <1>7 DEF gb
<1>13. (-blur) * Grain <= e * Grain /\ e * Grain < (sp + blur) * Grain
  <2> DEFINE sr == sp * rest
             sg == sp * Grain
             left == e * Grain
  <2>1. sr \in Nat /\ sr < sg /\ sg \in Int /\ left = sr - miss
    BY <1>1, <1>7, <1>8, <1>10, <1>11
  <2> HIDE DEF sr, sg
  <2>2. (-blur) * Grain = -gb /\ (sp + blur) * Grain = sg + gb
    BY <1>12 DEF sg
  <2> HIDE DEF left
  <2>3. -gb <= left /\ left < sg + gb
    BY <1>7, <1>9, <2>1
  <2> QED BY <2>2, <2>3 DEF left
<1>14. -blur <= e /\ e < sp + blur
  BY <1>1, <1>2, <1>7, <1>13, ProductReflects DEF blur
<1>15. e \in -blur .. sp + blur - 1
  BY <1>2, <1>7, <1>14
<1> QED BY <1>1, <1>5, <1>6, <1>15 DEF Orders!WindowAsTyped, e, short, sp, blur, n

LEMMA Widths ==
  /\ MaxTicks \in Nat /\ MaxU64 \in Nat /\ MaxU32 \in Nat /\ MaxSlices \in 1 .. MaxU32
  /\ {PriceParts, TimeParts, Second} \subseteq Nat \ {0}
  /\ \A now \in Clock : now \in 1 .. MaxU64
  /\ None \notin Int
BY OrderConstants DEF Orders!RequestAssumption

LEMMA FormFields ==
  ASSUME NEW f \in Forms
  PROVE  /\ f.symbol \in DOMAIN Trim /\ Trim[f.symbol] \in DOMAIN Trim
         /\ f.side \in {"Buy", "Sell"} /\ f.algo \in {"TWAP", "VWAP", "IS"}
         /\ f.profile \in Seq(Orders!Typed)
         /\ f.impact \in Orders!Impacts(Orders!Typed)
         /\ f # None
<1>1. /\ f \in Orders!OrderForm /\ None \notin Forms
      /\ Trim \in [DOMAIN Trim -> DOMAIN Trim]
  BY OrderConstants DEF Orders!RequestAssumption
<1> QED BY <1>1 DEF Orders!OrderForm

\* The algorithm of a form that parses fits the message.
LEMMA AlgorithmSayable ==
  ASSUME NEW f \in Forms, Orders!AlgorithmParses(f)
  PROVE  Orders!AlgorithmOf(f) \in Orders!Algorithms
<1>1. CASE f.algo = "TWAP"
  <2>1. f.slices \in 0 .. MaxU32
    BY <1>1, Widths DEF Orders!AlgorithmParses, Orders!CountParses
  <2>2. Orders!AlgorithmOf(f) = [kind |-> "TWAP", slices |-> f.slices]
    BY <1>1 DEF Orders!AlgorithmOf
  <2> QED BY <2>1, <2>2 DEF Orders!Algorithms
<1>2. CASE f.algo = "VWAP"
  <2>1. Orders!ProfileParses(f.profile)
    BY <1>2 DEF Orders!AlgorithmParses
  <2>2. \A i \in DOMAIN f.profile : f.profile[i] \in Orders!Float
    BY <2>1 DEF Orders!ProfileParses, Orders!WeightParses, Orders!Float
  <2>3. f.profile \in Seq(Orders!Float)
    BY <2>2, FormFields
  <2>4. Orders!AlgorithmOf(f) = [kind |-> "VWAP", profile |-> f.profile]
    BY <1>2 DEF Orders!AlgorithmOf
  <2> QED BY <2>3, <2>4 DEF Orders!Algorithms
<1>3. CASE f.algo = "IS"
  <2>1. f.slices \in 0 .. MaxU32 /\ Orders!ImpactParses(f.impact)
    BY <1>3, Widths DEF Orders!AlgorithmParses, Orders!CountParses
  <2>2. f.impact \in Orders!Impacts(Orders!Float)
    BY <2>1, FormFields DEF Orders!ImpactParses, Orders!Impacts, Orders!Float
  <2>3. Orders!AlgorithmOf(f) = [kind |-> "IS", slices |-> f.slices, impact |-> f.impact]
    BY <1>3 DEF Orders!AlgorithmOf
  <2> QED BY <2>1, <2>2, <2>3 DEF Orders!Algorithms
<1> QED BY <1>1, <1>2, <1>3, FormFields

\* What the form says fits the message.
LEMMA SaidIsRequest ==
  ASSUME NEW f \in Forms, NEW now \in Clock, Orders!FormAccepts(f, now)
  PROVE  Orders!Said(f, now) \in Orders!SubmitParentOrderRequest
<1>1. f.quantity \in 0 .. MaxU64
  BY Widths DEF Orders!FormAccepts, Orders!CountParses
<1>2. Orders!LimitOf(f.limit) \in {None} \cup (-MaxTicks - 1 .. MaxTicks)
  <2>1. Orders!LimitOf(f.limit) \in {None} \cup 0 .. MaxTicks
    BY LimitIsNear DEF Orders!FormAccepts
  <2> QED BY <2>1, Widths
<1>3. now \in 0 .. MaxU64 /\ now + Orders!Nanos(f.duration) \in 0 .. MaxU64
  <2>1. now + Orders!Nanos(f.duration) <= MaxU64 /\ Orders!DurationParses(f.duration)
    BY DEF Orders!FormAccepts, Orders!EndFits
  <2>2. Orders!Nanos(f.duration) \in 0 .. MaxU64
    BY <2>1, WindowIsNear
  <2> QED BY <2>1, <2>2, Widths
<1>4. Orders!AlgorithmOf(f) \in Orders!Algorithms
  BY AlgorithmSayable DEF Orders!FormAccepts
<1>5. Trim[f.symbol] \in DOMAIN Trim
  BY FormFields
<1>6. (IF f.side = "Buy" THEN "SIDE_BUY" ELSE "SIDE_SELL") \in Orders!WireSides
  BY DEF Orders!WireSides
<1> QED BY <1>1, <1>2, <1>3, <1>4, <1>5, <1>6
        DEF Orders!Said, Orders!SubmitParentOrderRequest, Orders!U64

----------------------------------------------------------------------------
(* From the message to the order *)

\* The order is the message, but for the name of the side.
LEMMA OrderOfRequest ==
  ASSUME NEW r \in Orders!SubmitParentOrderRequest
  PROVE  LET o == Orders!NewParentOrder(r)
         IN  /\ o.symbol = r.symbol /\ o.quantity = r.quantity /\ o.limit = r.limit
             /\ o.start = r.start /\ o.end = r.end /\ o.algorithm = r.algorithm
             /\ o.side = IF r.side = "SIDE_BUY" THEN "Buy" ELSE "Sell"
BY DEF Orders!SubmitParentOrderRequest, Orders!NewParentOrder

\* An order accepted from a form is the one that was typed.
LEMMA AcceptedAsTyped ==
  ASSUME NEW f \in Forms, NEW clicked \in Clock, Orders!FormAccepts(f, clicked),
         NEW o, o = Orders!NewParentOrder(Orders!Said(f, clicked)),
         NEW now \in Clock, Orders!EngineAccepts(o, now)
  PROVE  /\ o.symbol = Trim[f.symbol] /\ o.side = f.side /\ o.quantity = f.quantity
         /\ IF f.limit \in {Empty, 0} THEN o.limit = None
            ELSE o.limit \in 1 .. MaxTicks /\ Orders!LimitAsTyped(o.limit, f.limit)
         /\ Orders!WindowAsTyped(o.end - o.start, f.duration)
         /\ o.algorithm = Orders!AlgorithmOf(f)
<1> DEFINE r == Orders!Said(f, clicked)
<1>1. r \in Orders!SubmitParentOrderRequest
  BY SaidIsRequest
<1>2. /\ r.symbol = Trim[f.symbol] /\ r.quantity = f.quantity
      /\ r.side = (IF f.side = "Buy" THEN "SIDE_BUY" ELSE "SIDE_SELL")
      /\ r.limit = Orders!LimitOf(f.limit)
      /\ r.start = clicked /\ r.end = clicked + Orders!Nanos(f.duration)
      /\ r.algorithm = Orders!AlgorithmOf(f)
  BY DEF Orders!Said
<1> HIDE DEF r
<1>3. /\ o.symbol = r.symbol /\ o.quantity = r.quantity /\ o.limit = r.limit
      /\ o.start = r.start /\ o.end = r.end /\ o.algorithm = r.algorithm
      /\ o.side = IF r.side = "SIDE_BUY" THEN "Buy" ELSE "Sell"
  BY <1>1, OrderOfRequest DEF r
<1>4. o.side = f.side
  BY <1>2, <1>3, FormFields
<1>5. IF f.limit \in {Empty, 0} THEN o.limit = None
      ELSE o.limit \in 1 .. MaxTicks /\ Orders!LimitAsTyped(o.limit, f.limit)
  <2>1. Orders!LimitParses(f.limit)
    BY DEF Orders!FormAccepts
  <2>2. f.limit \in {Empty, 0} => o.limit = None
    BY <1>2, <1>3, <2>1, LimitIsNear
  <2>3. ASSUME f.limit \notin {Empty, 0}
        PROVE  o.limit \in 1 .. MaxTicks /\ Orders!LimitAsTyped(o.limit, f.limit)
    <3>1. o.limit \in 0 .. MaxTicks /\ Orders!LimitAsTyped(o.limit, f.limit)
      BY <1>2, <1>3, <2>1, <2>3, LimitIsNear
    <3>2. o.limit # None
      BY <3>1, Widths
    <3>3. o.limit > 0
      BY <3>2 DEF Orders!EngineAccepts
    <3> QED BY <3>1, <3>3, Widths
  <2> QED BY <2>2, <2>3
<1>6. Orders!WindowAsTyped(o.end - o.start, f.duration)
  <2> DEFINE n == Orders!Nanos(f.duration)
  <2>1. n \in Nat /\ Orders!WindowAsTyped(n, f.duration)
    BY WindowIsNear DEF Orders!FormAccepts, Orders!EndFits
  <2> HIDE DEF n
  <2>2. o.end - o.start = n
    BY <1>2, <1>3, <2>1, Widths DEF n
  <2> QED BY <2>1, <2>2
<1> QED BY <1>2, <1>3, <1>4, <1>5, <1>6

\* No order is accepted from a message that omits what the protocol needs.
LEMMA OmittedIsRefused ==
  ASSUME NEW r \in Orders!SubmitParentOrderRequest, Orders!WellFormed(r),
         NEW now \in Clock, Orders!EngineAccepts(Orders!NewParentOrder(r), now)
  PROVE  /\ r.symbol # NoSymbol /\ r.side # "SIDE_UNSPECIFIED"
         /\ r.quantity # 0 /\ r.start # 0 /\ r.end # 0
         /\ r.algorithm # None
         /\ r.algorithm.kind \in {"TWAP", "IS"} => r.algorithm.slices # 0
         /\ r.algorithm.kind = "VWAP" => r.algorithm.profile # <<>>
         /\ r.algorithm.kind = "IS" => r.algorithm.impact.temporary # 0
<1> DEFINE o == Orders!NewParentOrder(r)
<1>1. /\ o.symbol = r.symbol /\ o.quantity = r.quantity /\ o.limit = r.limit
      /\ o.start = r.start /\ o.end = r.end /\ o.algorithm = r.algorithm
  BY OrderOfRequest
<1>2. Orders!EngineAccepts(o, now)
  OBVIOUS
<1> HIDE DEF o
<1>3. r.symbol # NoSymbol
  BY <1>1, <1>2, OrderConstants DEF Orders!EngineAccepts, Orders!RequestAssumption
<1>4. r.side # "SIDE_UNSPECIFIED" /\ r.start # 0 /\ r.algorithm # None
  BY DEF Orders!WellFormed
<1>5. r.quantity # 0 /\ r.end # 0
  <2>1. o.quantity # 0 /\ o.end > now
    BY <1>2 DEF Orders!EngineAccepts
  <2> QED BY <1>1, <2>1, Widths
<1>6. Orders!ScheduleFits(o)
  BY <1>2 DEF Orders!EngineAccepts
<1>7. ASSUME r.algorithm.kind = "TWAP" PROVE r.algorithm.slices # 0
  <2>1. Orders!WindowFits(o, r.algorithm.slices)
    BY <1>1, <1>6, <1>7 DEF Orders!ScheduleFits
  <2> QED BY <2>1 DEF Orders!WindowFits
<1>8. ASSUME r.algorithm.kind = "IS"
      PROVE  r.algorithm.slices # 0 /\ r.algorithm.impact.temporary # 0
  <2>1. /\ Orders!WindowFits(o, r.algorithm.slices)
        /\ Orders!ImpactFits(o, r.algorithm.slices, r.algorithm.impact)
    BY <1>1, <1>6, <1>8 DEF Orders!ScheduleFits
  <2> QED BY <2>1 DEF Orders!WindowFits, Orders!ImpactFits
<1>9. ASSUME r.algorithm.kind = "VWAP" PROVE r.algorithm.profile # <<>>
  <2>1. Orders!WindowFits(o, Len(r.algorithm.profile))
    BY <1>1, <1>6, <1>9 DEF Orders!ScheduleFits
  <2> QED BY <2>1 DEF Orders!WindowFits
<1> QED BY <1>3, <1>4, <1>5, <1>7, <1>8, <1>9

\* What the form refuses no message can say, or the engine refuses at any time.
LEMMA RefusalHasCause ==
  ASSUME NEW f \in Forms, NEW clicked \in Clock, NEW now \in Clock,
         Orders!Sayable(f, clicked),
         Orders!EngineAccepts(Orders!NewParentOrder(Orders!Said(f, clicked)), now)
  PROVE  Orders!FormAccepts(f, clicked)
<1> DEFINE r == Orders!Said(f, clicked)
           o == Orders!NewParentOrder(r)
           n == Orders!Nanos(f.duration)
<1>1. /\ r.symbol = Trim[f.symbol] /\ r.quantity = f.quantity
      /\ r.limit = Orders!LimitOf(f.limit)
      /\ r.start = clicked /\ r.end = clicked + n
      /\ r.algorithm = Orders!AlgorithmOf(f)
  BY DEF Orders!Said
<1>2. /\ o.symbol = r.symbol /\ o.quantity = r.quantity /\ o.limit = r.limit
      /\ o.start = r.start /\ o.end = r.end /\ o.algorithm = r.algorithm
  BY DEF Orders!Said, Orders!NewParentOrder
<1>3. Orders!EngineAccepts(o, now)
  OBVIOUS
<1> HIDE DEF r, o
<1>4. Trim[f.symbol] # NoSymbol
  BY <1>1, <1>2, <1>3, OrderConstants DEF Orders!EngineAccepts, Orders!RequestAssumption
<1>5. Orders!CountParses(f.quantity, MaxU64)
  BY <1>1, <1>2, <1>3, Widths DEF Orders!EngineAccepts, Orders!Sayable, Orders!U64, Orders!CountParses
<1>6. Orders!LimitParses(f.limit)
  <2>1. CASE f.limit = Empty
    BY <2>1 DEF Orders!LimitParses
  <2>2. CASE f.limit # Empty
    <3>1. /\ f.limit \in Int /\ Orders!Ticks(f.limit) <= MaxTicks
          /\ f.limit # 0 => Orders!Finite(Orders!Size(f.limit), PriceParts, TickScale)
      BY <2>2, Widths DEF Orders!Sayable
    <3>2. f.limit >= 0
      <4> SUFFICES ASSUME f.limit < 0 PROVE FALSE
        BY <3>1
      <4>1. Orders!Ticks(f.limit) \in Int /\ Orders!Ticks(f.limit) <= 0
        <5> DEFINE text == f.limit
        <5>1. /\ text \in Int /\ text < 0 /\ text # 0
              /\ Orders!Finite(Orders!Size(text), PriceParts, TickScale)
          BY <3>1
        <5> HIDE DEF text
        <5>2. Orders!Ticks(text) \in Int /\ Orders!Ticks(text) <= 0
          BY <5>1, PriceRounds
        <5> QED BY <5>2 DEF text
      <4>2. o.limit = Orders!Ticks(f.limit)
        BY <1>1, <1>2, <2>2, <3>1 DEF Orders!LimitOf
      <4>3. o.limit > 0
        BY <1>3, <4>1, <4>2, Widths DEF Orders!EngineAccepts
      <4> QED BY <4>1, <4>2, <4>3
    <3>3. f.limit > 0 => Orders!Size(f.limit) = f.limit
      BY <3>1 DEF Orders!Size
    <3> QED BY <3>1, <3>2, <3>3 DEF Orders!LimitParses
  <2> QED BY <2>1, <2>2
<1>7. \E slices : Orders!WindowFits(o, slices)
  <2>1. Orders!ScheduleFits(o)
    BY <1>3 DEF Orders!EngineAccepts
  <2>2. o.algorithm.kind \in {"TWAP", "VWAP", "IS"}
    BY <1>1, <1>2, FormFields DEF Orders!AlgorithmOf
  <2> QED BY <2>1, <2>2 DEF Orders!ScheduleFits
<1>8. clicked \in 1 .. MaxU64 /\ MaxU64 \in Nat
  BY Widths
<1>9. f.duration \in Int /\ clicked + n \in 0 .. MaxU64
  BY DEF Orders!Sayable, Orders!U64
<1> HIDE DEF n
<1>10. clicked < clicked + n
  <2>1. o.start < o.end
    BY <1>7 DEF Orders!WindowFits
  <2> QED BY <1>1, <1>2, <2>1
<1>11. Orders!DurationParses(f.duration) /\ Orders!EndFits(f, clicked)
  <2> DEFINE y == Orders!Scaled(f.duration, TimeParts, Second)
             d == y \div Grain
  <2>1. f.duration > 0
    BY <1>8, <1>9, <1>10 DEF n, Orders!Nanos
  <2>2. Orders!Finite(f.duration, TimeParts, Second)
    BY <2>1 DEF Orders!Sayable
  <2>3. y \in Nat /\ Grain \in Nat \ {0}
    BY <1>9, <2>1, <2>2, FloatConstants, TwoRoundings
  <2>4. n = Orders!Min({MaxU64, d})
    BY <1>9, <2>1 DEF n, Orders!Nanos
  <2> HIDE DEF y
  <2>5. d \in Int /\ y < d * Grain + Grain
    BY <2>3, DivisionBounds
  <2> HIDE DEF d
  <2>6. \E a \in {MaxU64, d} : \A b \in {MaxU64, d} : a <= b
    BY <1>8, <2>5
  <2>7. n \in {MaxU64, d}
    BY <2>4, <2>6 DEF Orders!Min
  <2>8. d < MaxU64
    BY <1>8, <1>9, <2>5, <2>6, <2>7, <2>4 DEF Orders!Min
  <2>9. y <= (MaxU64 + 1) * Grain
    <3>1. (d + 1) * Grain <= (MaxU64 + 1) * Grain
      BY <1>8, <2>3, <2>5, <2>8, ProductGrows
    <3> DEFINE dg == d * Grain
               top == (MaxU64 + 1) * Grain
    <3>2. (d + 1) * Grain = dg + Grain /\ dg \in Int /\ top \in Int
      BY <1>8, <2>3, <2>5
    <3>3. y < dg + Grain /\ dg + Grain <= top
      BY <2>5, <3>1, <3>2
    <3> HIDE DEF dg, top
    <3>4. y <= top
      BY <2>3, <3>2, <3>3
    <3> QED BY <3>4 DEF top
  <2> QED BY <1>9, <2>1, <2>2, <2>9 DEF Orders!DurationParses, Orders!EndFits, y, n
<1>12. Orders!AlgorithmParses(f)
  <2>1. Orders!ScheduleFits(o)
    BY <1>3 DEF Orders!EngineAccepts
  <2>2. o.algorithm = Orders!AlgorithmOf(f)
    BY <1>1, <1>2
  <2>3. CASE f.algo = "TWAP"
    <3>1. o.algorithm = [kind |-> "TWAP", slices |-> f.slices]
      BY <2>2, <2>3 DEF Orders!AlgorithmOf
    <3>2. f.slices \in 1 .. MaxSlices
      BY <2>1, <3>1 DEF Orders!ScheduleFits, Orders!WindowFits
    <3> QED BY <2>3, <3>2, Widths DEF Orders!AlgorithmParses, Orders!CountParses
  <2>4. CASE f.algo = "VWAP"
    <3>1. o.algorithm = [kind |-> "VWAP", profile |-> f.profile]
      BY <2>2, <2>4 DEF Orders!AlgorithmOf
    <3>2. Len(f.profile) >= 1 /\ Orders!ProfileFits(f.profile)
      BY <2>1, <3>1 DEF Orders!ScheduleFits, Orders!WindowFits
    <3>3. f.profile \in Seq(Orders!Float)
      BY <2>4 DEF Orders!Sayable
    <3>4. Orders!ProfileParses(f.profile)
      BY <3>2, <3>3 DEF Orders!ProfileFits, Orders!ProfileParses, Orders!WeightParses, Orders!Float
    <3> QED BY <2>4, <3>4 DEF Orders!AlgorithmParses
  <2>5. CASE f.algo = "IS"
    <3>1. o.algorithm = [kind |-> "IS", slices |-> f.slices, impact |-> f.impact]
      BY <2>2, <2>5 DEF Orders!AlgorithmOf
    <3>2. f.slices \in 1 .. MaxSlices /\ Orders!ImpactFits(o, f.slices, f.impact)
      BY <2>1, <3>1 DEF Orders!ScheduleFits, Orders!WindowFits
    <3>3. f.impact \in Orders!Impacts(Orders!Float)
      BY <2>5 DEF Orders!Sayable
    <3>4. Orders!ImpactParses(f.impact)
      BY <3>2, <3>3 DEF Orders!ImpactFits, Orders!ImpactParses, Orders!Impacts, Orders!Float
    <3> QED BY <2>5, <3>2, <3>4, Widths DEF Orders!AlgorithmParses, Orders!CountParses
  <2> QED BY <2>3, <2>4, <2>5, FormFields
<1> QED BY <1>4, <1>5, <1>6, <1>11, <1>12 DEF Orders!FormAccepts

\* A row tells the state it was made of, and is terminal unless that is working.
LEMMA RowTellsState ==
  ASSUME NEW o, NEW s \in Orders!States
  PROVE  LET told == Orders!RowOf(o, s)
         IN  /\ Orders!Terminal(told) <=> s # "Working"
             /\ s # "Working" =>
                  told.state = [Filled |-> "FILLED", Cancelled |-> "CANCELLED",
                                Expired |-> "EXPIRED"][s]
<1> DEFINE n == Orders!StateToProto[s]
<1>1. /\ n \in 1 .. 4
      /\ s = "Working" => n = 1
      /\ s = "Filled" => n = 2
      /\ s = "Cancelled" => n = 3
      /\ s = "Expired" => n = 4
  BY DEF Orders!States, Orders!StateToProto
<1> DEFINE told == Orders!RowOf(o, s)
<1>2. told.state = <<"WORKING", "FILLED", "CANCELLED", "EXPIRED">>[n]
  BY <1>1 DEF Orders!RowOf, Orders!StateLabel
<1> HIDE DEF told, n
<1>3. /\ Orders!Terminal(told) <=> s # "Working"
      /\ s # "Working" =>
           told.state = [Filled |-> "FILLED", Cancelled |-> "CANCELLED", Expired |-> "EXPIRED"][s]
  <2>1. CASE s = "Working"
    BY <1>1, <1>2, <2>1 DEF Orders!Terminal
  <2>2. CASE s = "Filled"
    BY <1>1, <1>2, <2>2 DEF Orders!Terminal
  <2>3. CASE s = "Cancelled"
    BY <1>1, <1>2, <2>3 DEF Orders!Terminal
  <2>4. CASE s = "Expired"
    BY <1>1, <1>2, <2>4 DEF Orders!Terminal
  <2> QED BY <2>1, <2>2, <2>3, <2>4 DEF Orders!States
<1> QED BY <1>3 DEF told

----------------------------------------------------------------------------
(* The life of an order *)

FromForm ==
  /\ form \in Forms
  /\ \E clicked \in Clock :
       Orders!FormAccepts(form, clicked) /\ request = Orders!Said(form, clicked)

FromElsewhere == form = None /\ request \in Requests

Handed == Orders!WellFormed(request) /\ order = Orders!NewParentOrder(request)

OrderInv ==
  /\ order_stage \in {"typed", "refused", "sent", "malformed", "handled", "rejected", "accepted"}
  /\ order_stage \in {"typed", "refused"} => form \in Forms /\ request = None
  /\ order_stage \notin {"typed", "refused"} => FromForm \/ FromElsewhere
  /\ order_stage \in {"handled", "rejected", "accepted"} => Handed
  /\ order_stage \in {"typed", "refused", "sent", "malformed"} => order = None
  /\ order_stage = "accepted" =>
       /\ \E now \in Clock : Orders!EngineAccepts(order, now)
       /\ state \in Orders!States
  /\ order_stage # "accepted" => state = None /\ row = None
  /\ row # None =>
       form \in Forms /\ \E s \in {state, "Working"} : row = Orders!RowOf(order, s)

LEMMA OrderInvInit ==
  ASSUME Orders!Init
  PROVE  OrderInv
BY DEF Orders!Init, OrderInv, FromElsewhere

LEMMA OrderInvNext ==
  ASSUME OrderInv, [Orders!Next]_orderVars
  PROVE  OrderInv'
<1> USE DEF OrderInv
<1>0. None \notin Forms /\ None \notin Orders!States
  BY OrderConstants DEF Orders!RequestAssumption
<1>1. CASE UNCHANGED orderVars
  BY <1>1 DEF orderVars, FromForm, FromElsewhere, Handed
<1>2. ASSUME NEW now \in Clock, Orders!FormRefuses(now) PROVE OrderInv'
  BY <1>2 DEF Orders!FormRefuses, FromForm, FromElsewhere, Handed
<1>3. ASSUME NEW now \in Clock, Orders!Submit(now) PROVE OrderInv'
  <2>1. FromForm'
    BY <1>3 DEF Orders!Submit, FromForm
  <2> QED BY <1>3, <2>1 DEF Orders!Submit
<1>4. ASSUME NEW now \in Clock, Orders!Accept(now) PROVE OrderInv'
  <2>1. Handed' /\ (FromForm \/ FromElsewhere)'
    BY <1>4 DEF Orders!Accept, FromForm, FromElsewhere, Handed
  <2>2. (\E t \in Clock : Orders!EngineAccepts(order, t))' /\ state' \in Orders!States
    BY <1>4 DEF Orders!Accept, Orders!States
  <2>3. row' = None
    BY <1>4 DEF Orders!Accept
  <2> QED BY <1>4, <2>1, <2>2, <2>3 DEF Orders!Accept
<1>5. CASE Orders!InvalidArgument
  BY <1>5 DEF Orders!InvalidArgument, FromForm, FromElsewhere, Handed
<1>6. CASE Orders!Hand
  BY <1>6 DEF Orders!Hand, FromForm, FromElsewhere, Handed
<1>7. CASE Orders!Reject
  BY <1>7 DEF Orders!Reject, FromForm, FromElsewhere, Handed
<1>8. ASSUME NEW end \in Orders!States \ {"Working"}, Orders!OrderEnds(end) PROVE OrderInv'
  <2>1. order_stage = "accepted"
    BY <1>0, <1>8 DEF Orders!OrderEnds, Orders!States
  <2>2. Handed' /\ (FromForm \/ FromElsewhere)' /\ state' \in Orders!States
    BY <1>8, <2>1 DEF Orders!OrderEnds, FromForm, FromElsewhere, Handed
  <2>3. (\E t \in Clock : Orders!EngineAccepts(order, t))'
    BY <1>8, <2>1 DEF Orders!OrderEnds
  <2>4. row' # None =>
          form' \in Forms /\ row' = Orders!RowOf(order', "Working")
    BY <1>8 DEF Orders!OrderEnds
  <2> QED BY <1>8, <2>1, <2>2, <2>3, <2>4 DEF Orders!OrderEnds
<1>9. CASE Orders!ReadStatus
  <2>1. Handed' /\ (FromForm \/ FromElsewhere)'
    BY <1>9 DEF Orders!ReadStatus, FromForm, FromElsewhere, Handed
  <2>2. (\E t \in Clock : Orders!EngineAccepts(order, t))'
    BY <1>9 DEF Orders!ReadStatus
  <2>3. form' \in Forms /\ row' = Orders!RowOf(order', state')
    BY <1>9 DEF Orders!ReadStatus, FromForm, FromElsewhere
  <2> QED BY <1>9, <2>1, <2>2, <2>3 DEF Orders!ReadStatus
<1> QED BY <1>1, <1>2, <1>3, <1>4, <1>5, <1>6, <1>7, <1>8, <1>9 DEF Orders!Next

LEMMA OrderInvSuffices ==
  ASSUME OrderInv
  PROVE  OrderFaithful
<1> USE DEF OrderInv
<1>0. /\ None \notin Forms /\ None \notin Int
      /\ Requests \subseteq Orders!SubmitParentOrderRequest
  BY OrderConstants DEF Orders!RequestAssumption
<1>1. order_stage \notin {"typed", "refused"} => request \in Orders!SubmitParentOrderRequest
  BY <1>0, SaidIsRequest DEF FromForm, FromElsewhere
<1>2. Orders!TypeOK
  <2>1. order # None => order.side \in {"Buy", "Sell"}
    BY <1>1, OrderOfRequest DEF Handed
  <2> QED BY <1>1, <2>1 DEF Orders!TypeOK
<1>3. Orders!OrderAsTyped
  <2> SUFFICES ASSUME order_stage = "accepted", form # None PROVE Orders!OrderAsTyped
    BY DEF Orders!OrderAsTyped
  <2>1. FromForm /\ Handed
    BY DEF FromElsewhere
  <2>2. PICK clicked \in Clock :
          Orders!FormAccepts(form, clicked) /\ request = Orders!Said(form, clicked)
    BY <2>1 DEF FromForm
  <2>3. PICK now \in Clock : Orders!EngineAccepts(order, now)
    OBVIOUS
  <2>4. form \in Forms /\ order = Orders!NewParentOrder(Orders!Said(form, clicked))
    BY <2>1, <2>2 DEF FromForm, Handed
  <2> QED BY <2>2, <2>3, <2>4, AcceptedAsTyped DEF Orders!OrderAsTyped
<1>4. Orders!OmittedNeverTrades
  <2> SUFFICES ASSUME order_stage = "accepted" PROVE Orders!OmittedNeverTrades
    BY DEF Orders!OmittedNeverTrades
  <2>1. PICK now \in Clock : Orders!EngineAccepts(order, now)
    OBVIOUS
  <2>2. /\ Orders!WellFormed(request)
        /\ Orders!EngineAccepts(Orders!NewParentOrder(request), now)
    BY <2>1 DEF Handed
  <2> QED BY <1>1, <2>2, OmittedIsRefused DEF Orders!OmittedNeverTrades
<1>5. Orders!FormRefusesForCause
  BY RefusalHasCause DEF Orders!FormRefusesForCause
<1>6. Orders!RowTellsOrder
  <2> SUFFICES ASSUME row # None PROVE Orders!RowTellsOrder
    BY DEF Orders!RowTellsOrder
  <2>1. /\ order_stage = "accepted" /\ form \in Forms /\ FromForm /\ Handed
        /\ state \in Orders!States
    BY <1>0 DEF FromElsewhere
  <2>2. PICK s \in {state, "Working"} : row = Orders!RowOf(order, s)
    OBVIOUS
  <2>3. /\ row.side = Orders!SideLabel(IF order.side = "Buy" THEN "SIDE_BUY" ELSE "SIDE_SELL")
        /\ row.limited = (order.limit # None)
        /\ row.start = order.start /\ row.end = order.end
    BY <2>2 DEF Orders!RowOf
  <2>4. Orders!OrderAsTyped /\ form # None
    BY <1>0, <1>3, <2>1
  <2>5. row.side = IF form.side = "Buy" THEN "BUY" ELSE "SELL"
    BY <2>1, <2>3, <2>4, FormFields DEF Orders!OrderAsTyped, Orders!SideLabel
  <2>6. row.limited <=> form.limit \notin {Empty, 0}
    <3>1. /\ form.limit \in {Empty, 0} => order.limit = None
          /\ form.limit \notin {Empty, 0} => order.limit \in 1 .. MaxTicks
      BY <2>1, <2>4 DEF Orders!OrderAsTyped
    <3>2. order.limit \in 1 .. MaxTicks => order.limit # None
      BY Widths
    <3> QED BY <2>3, <3>1, <3>2
  <2>7. row.end - row.start = request.end - request.start
    BY <1>1, <2>1, <2>3, OrderOfRequest DEF Handed
  <2>8. Orders!Terminal(row) =>
          [Filled |-> "FILLED", Cancelled |-> "CANCELLED", Expired |-> "EXPIRED"][state] = row.state
    <3>1. "Working" \in Orders!States
      BY DEF Orders!States
    <3> QED BY <2>1, <2>2, <3>1, RowTellsState
  <2> QED BY <2>5, <2>6, <2>7, <2>8 DEF Orders!RowTellsOrder
<1> QED BY <1>2, <1>3, <1>4, <1>5, <1>6 DEF OrderFaithful, Orders!OrderFaithful

\* main.rs:285-287, server.rs:245-246: whatever file the engine was started with and
\* whatever is typed or sent, an accepted order is the one that was typed, a message
\* with an omitted field is never accepted, the form refuses nothing that the engine
\* would take, and the row that is shown tells the order and how it ended.
THEOREM OrdersAreFaithful == InputsSpec => []OrderFaithful
<1>1. InputsInit => OrderInv
  BY OrderInvInit DEF InputsInit
<1>2. OrderInv /\ [InputsNext]_<<vars, orderVars>> => OrderInv'
  <2>1. [InputsNext]_<<vars, orderVars>> => [Orders!Next]_orderVars
    BY DEF InputsNext
  <2> QED BY <2>1, OrderInvNext
<1>3. OrderInv => OrderFaithful
  BY OrderInvSuffices
<1> QED BY <1>1, <1>2, <1>3, PTL DEF InputsSpec

\* An order does not disturb the engine it is sent to: what was served stays sound.
THEOREM InputsAreValid == InputsSpec => []ValidationExact
<1>1. InputsInit => Init
  BY DEF InputsInit
<1>2. [InputsNext]_<<vars, orderVars>> => [Next]_vars
  BY DEF InputsNext
<1> QED BY <1>1, <1>2, ValidationIsExact, PTL DEF InputsSpec, Spec
=============================================================================
