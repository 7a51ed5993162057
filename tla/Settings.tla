-------------------------------- MODULE Settings --------------------------------
(***************************************************************************)
(* From the settings file to a serving engine: crates/config/src/lib.rs,   *)
(* EngineConfig::from_settings and EngineCore::new of executor.rs,         *)
(* SimulatedVenue::new of venue.rs, run of main.rs, and the engine's first *)
(* tick.                                                                   *)
(*                                                                         *)
(* The ranges of a setting are checked in three places - validate on the   *)
(* file's units, try_from_f64 on conversion to ticks, level_step on the    *)
(* resulting ladder - and the other modules assume what the three give     *)
(* together.  A money amount of the file is a number of parts of a tick,   *)
(* PartsPerTick to the tick, or one of NotFinite.  The strings that        *)
(* symbols can be are in Names, those without stray spaces in Trimmed.     *)
(***************************************************************************)
EXTENDS Integers, SequencesExt

CONSTANTS
  Files,         \* settings files: parsed settings, or one of Unreadable
  Unreadable,    \* a missing file, one that does not parse, wrong arguments
  NotFinite,     \* NaN and the infinities
  Blank, Names, Trimmed,
  PartsPerTick,  \* resolution of a money amount
  MaxI64,
  MaxInterval,   \* 60 000
  MaxBuffer,     \* MAX_BUFFER
  MaxLevels,     \* 1 000
  BasisPoints,   \* 10 000
  None

VARIABLES
  file,       \* what the engine is started with
  stage,      \* "load", "convert", "build", "bind", "serving" or "failed"
  error,      \* why it failed: the check that refused, and its field
  config,     \* EngineConfig, once converted
  halted      \* the engine's kill switch after a tick without any order

vars == <<file, stage, error, config, halted>>
-----------------------------------------------------------------------------
U64 == 0 .. 2 * MaxI64 + 1
Amount == Int \cup NotFinite

SymbolSettings == [symbol : Names, reference_price : Amount, levels : Nat,
                   qty_per_level : U64, level_spacing_bps : Nat]

IsSettings(s) ==
  /\ s.tick_interval_ms \in Nat /\ s.command_buffer \in Nat /\ s.fill_buffer \in Nat
  /\ s.retained \in Nat
  /\ s.max_order_qty \in U64 /\ s.max_position_qty \in U64
  /\ {s.max_order_notional, s.max_gross_notional, s.max_loss} \subseteq Amount
  /\ s.price_collar_bps \in Nat
  /\ s.symbols \in Seq(SymbolSettings)

Settings == {"tick_interval_ms", "command_buffer", "fill_buffer", "retained", "max_order_qty",
             "max_position_qty", "max_order_notional", "max_gross_notional", "max_loss",
             "price_collar_bps", "symbols", "symbol", "reference_price", "levels",
             "qty_per_level", "level_spacing_bps"}

\* A file that parses has the types of the fields; None names no setting and no failure.
SettingsAssumption ==
  /\ {PartsPerTick, MaxI64, MaxInterval, MaxBuffer, MaxLevels, BasisPoints} \subseteq Nat \ {0}
  /\ NotFinite \cap Int = {}
  /\ Blank \subseteq Names /\ Trimmed \subseteq Names
  /\ \A s \in Files \ Unreadable : IsSettings(s)
  /\ None \notin Settings \cup {"unreadable", "out of range", "market", "bind"}

ASSUME SettingsConstants == SettingsAssumption
-----------------------------------------------------------------------------
PositiveQuantity(value) == value \in 1 .. MaxI64

PositiveAmount(value) == value \notin NotFinite /\ value > 0

\* The checks of validate, in order, as the setting named and whether it holds.
EngineChecks(s) ==
  << <<"tick_interval_ms", s.tick_interval_ms \in 1 .. MaxInterval>>,
     <<"command_buffer", s.command_buffer \in 1 .. MaxBuffer>>,
     <<"fill_buffer", s.fill_buffer \in 1 .. MaxBuffer>>,
     <<"retained", s.retained > 0>> >>

RiskChecks(s) ==
  << <<"max_order_qty", PositiveQuantity(s.max_order_qty)>>,
     <<"max_position_qty", PositiveQuantity(s.max_position_qty)>>,
     <<"max_order_notional", PositiveAmount(s.max_order_notional)>>,
     <<"max_gross_notional", PositiveAmount(s.max_gross_notional)>>,
     <<"max_loss", PositiveAmount(s.max_loss)>>,
     <<"price_collar_bps", s.price_collar_bps \in 1 .. BasisPoints>>,
     <<"symbols", s.symbols # <<>> >> >>

FirstOfItsName(symbols, i) ==
  \A j \in 1 .. i - 1 : symbols[j].symbol # symbols[i].symbol

SymbolChecks(symbols, i) ==
  LET m == symbols[i]
  IN  << <<"symbol", m.symbol \notin Blank>>,
         <<"symbol", m.symbol \in Trimmed>>,
         <<"symbol", FirstOfItsName(symbols, i)>>,
         <<"reference_price", PositiveAmount(m.reference_price)>>,
         <<"levels", m.levels \in 1 .. MaxLevels>>,
         <<"qty_per_level", PositiveQuantity(m.qty_per_level)>>,
         <<"level_spacing_bps", m.level_spacing_bps > 0>>,
         <<"level_spacing_bps", m.levels * m.level_spacing_bps < BasisPoints>> >>

Checks(s) ==
  <<EngineChecks(s), RiskChecks(s)>>
    \o [i \in DOMAIN s.symbols |-> SymbolChecks(s.symbols, i)]

Passes(checks) == \A i \in DOMAIN checks : checks[i][2]

Valid(s) == \A g \in DOMAIN Checks(s) : Passes(Checks(s)[g])

\* The setting that the first check that fails is about.
FirstFailing(s) ==
  LET group == Checks(s)[Min({g \in DOMAIN Checks(s) : ~Passes(Checks(s)[g])})]
  IN  group[Min({i \in DOMAIN group : ~group[i][2]})][1]
-----------------------------------------------------------------------------
\* try_from_f64: to the nearest tick, half a tick up (amounts are positive here).
Ticks(amount) == (2 * amount + PartsPerTick) \div (2 * PartsPerTick)

Converts(amount) == Ticks(amount) <= MaxI64

Amounts(s) ==
  {s.symbols[i].reference_price : i \in DOMAIN s.symbols}
    \cup {s.max_order_notional, s.max_gross_notional, s.max_loss}

Converted(s) ==
  [max_order_qty |-> s.max_order_qty,
   max_order_notional |-> Ticks(s.max_order_notional),
   max_position_qty |-> s.max_position_qty,
   max_gross_notional |-> Ticks(s.max_gross_notional),
   price_collar_bps |-> s.price_collar_bps,
   max_loss |-> Ticks(s.max_loss),
   symbols |-> [i \in DOMAIN s.symbols |->
                  [symbol |-> s.symbols[i].symbol,
                   reference |-> Ticks(s.symbols[i].reference_price),
                   levels |-> s.symbols[i].levels, qty |-> s.symbols[i].qty_per_level,
                   bps |-> s.symbols[i].level_spacing_bps]],
   retained |-> s.retained]

LevelStep(m) == Max({1, (m.reference * m.bps) \div BasisPoints})

\* A mutation: validate is trusted to keep the bids positive.
Mutant_TrustValidate(m) == m.reference + LevelStep(m) * m.levels <= MaxI64

\* level_step accepts the market.
LadderFits(m) ==
  /\ m.reference > 0 /\ m.levels > 0 /\ m.qty > 0 /\ m.bps > 0
  /\ m.reference - LevelStep(m) * m.levels > 0
  /\ m.reference + LevelStep(m) * m.levels <= MaxI64
-----------------------------------------------------------------------------
Init ==
  /\ file \in Files \cup Unreadable
  /\ stage = "load" /\ error = None
  /\ config = None
  /\ halted = FALSE

\* run returns an error, and the process exits.
Fail(check) ==
  /\ stage' = "failed" /\ error' = check
  /\ UNCHANGED <<file, config, halted>>

\* Arguments or file are no good, or a setting is out of range.
LoadFails ==
  /\ stage = "load"
  /\ \/ file \in Unreadable /\ Fail("unreadable")
     \/ file \notin Unreadable /\ ~Valid(file) /\ Fail(FirstFailing(file))

Load ==
  /\ stage = "load"
  /\ file \notin Unreadable /\ Valid(file)
  /\ stage' = "convert"
  /\ UNCHANGED <<file, error, config, halted>>

\* from_settings: some amount has no tick count in i64.
ConvertFails ==
  /\ stage = "convert"
  /\ \E amount \in Amounts(file) : ~Converts(amount)
  /\ Fail("out of range")

Convert ==
  /\ stage = "convert"
  /\ \A amount \in Amounts(file) : Converts(amount)
  /\ config' = Converted(file)
  /\ stage' = "build"
  /\ UNCHANGED <<file, error, halted>>

\* EngineCore::new: the venue refuses a market.
BuildFails ==
  /\ stage = "build"
  /\ \E i \in DOMAIN config.symbols :
       ~LadderFits(config.symbols[i]) \/ ~FirstOfItsName(config.symbols, i)
  /\ Fail("market")

Build ==
  /\ stage = "build"
  /\ \A i \in DOMAIN config.symbols :
       LadderFits(config.symbols[i]) /\ FirstOfItsName(config.symbols, i)
  /\ stage' = "bind"
  /\ UNCHANGED <<file, error, config, halted>>

\* The address is taken.
BindFails == stage = "bind" /\ Fail("bind")

Serve ==
  /\ stage = "bind"
  /\ stage' = "serving"
  /\ UNCHANGED <<file, error, config, halted>>

\* check_loss_limit at the end of a tick, before any order: the P&L is zero.
Tick ==
  /\ stage = "serving"
  /\ halted' = (halted \/ 0 <= -config.max_loss)
  /\ UNCHANGED <<file, stage, error, config>>

\* A failed process has exited.
Exited == stage = "failed" /\ UNCHANGED vars

Next ==
  \/ LoadFails \/ Load \/ ConvertFails \/ Convert \/ BuildFails \/ Build
  \/ BindFails \/ Serve \/ Tick \/ Exited

Spec == Init /\ [][Next]_vars
-----------------------------------------------------------------------------
\* What is started with, and the stages, have their types.
TypeOK ==
  /\ file \in Unreadable \/ IsSettings(file)
  /\ stage \in {"load", "convert", "build", "bind", "serving", "failed"}
  /\ stage = "failed" <=> error # None
  /\ config # None =>
       /\ {config.max_order_notional, config.max_gross_notional, config.max_loss} \subseteq 0 .. MaxI64
       /\ \A i \in DOMAIN config.symbols : config.symbols[i].reference \in 0 .. MaxI64
  /\ halted \in BOOLEAN

\* What EngineCore, Venue and Service assume of their constants holds for every
\* engine that serves, although no single stage checks it: capacities no channel
\* panics on, quantities and prices in i64, distinct markets whose ladder keeps
\* its bids positive.
ServedIsSound ==
  stage = "serving" =>
    /\ file.tick_interval_ms > 0 /\ file.command_buffer > 0 /\ file.fill_buffer > 0
    /\ config.retained > 0
    /\ config.max_order_qty \in 1 .. MaxI64 /\ config.max_position_qty \in 1 .. MaxI64
    /\ \A i, j \in DOMAIN config.symbols :
         config.symbols[i].symbol = config.symbols[j].symbol => i = j
    /\ \A i \in DOMAIN config.symbols : \A k \in 1 .. config.symbols[i].levels :
         LET m == config.symbols[i]
         IN  /\ m.reference - LevelStep(m) * k \in 1 .. MaxI64
             /\ m.reference + LevelStep(m) * k \in 1 .. MaxI64

\* lib.rs:23-87: a file whose settings are all in the documented ranges, whose
\* amounts fit i64 ticks and whose ladders stay above zero, is served unless the
\* address is taken: no stage refuses what another one promised.
Documented(s) ==
  /\ s.tick_interval_ms \in 1 .. MaxInterval
  /\ s.command_buffer \in 1 .. MaxBuffer /\ s.fill_buffer \in 1 .. MaxBuffer
  /\ s.retained > 0
  /\ {s.max_order_qty, s.max_position_qty} \subseteq 1 .. MaxI64
  /\ s.price_collar_bps \in 1 .. BasisPoints
  /\ \A amount \in Amounts(s) :
       amount \notin NotFinite /\ amount > 0 /\ amount <= MaxI64 * PartsPerTick
  /\ s.symbols # <<>>
  /\ \A i \in DOMAIN s.symbols :
       LET m      == s.symbols[i]
           tick   == PartsPerTick * BasisPoints
           parts  == m.reference_price * BasisPoints
           spread == m.levels * Max({tick, m.reference_price * m.level_spacing_bps})
       IN  /\ m.symbol \in Trimmed \ Blank /\ FirstOfItsName(s.symbols, i)
           /\ m.levels \in 1 .. MaxLevels /\ m.qty_per_level \in 1 .. MaxI64
           /\ m.level_spacing_bps > 0 /\ m.levels * m.level_spacing_bps < BasisPoints
           /\ parts - spread >= tick
           /\ parts + spread <= MaxI64 * tick

RefusedForCause ==
  stage = "failed" /\ error # "bind" => file \in Unreadable \/ ~Documented(file)

\* The checks of all stages together are exact: they serve what is sound, and refuse
\* only what the documentation does not promise.
ValidationExact == TypeOK /\ ServedIsSound /\ RefusedForCause

\* lib.rs:65: trading halts once total P&L falls to -max_loss.  An engine that
\* has not lost anything is not halted.
HaltsOnlyOnLoss == halted => 0 <= -file.max_loss
=============================================================================
