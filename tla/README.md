# Verification of the algorithmic execution system

TLA+ models of this repository's execution engine, their TLC runs, and TLAPS
proofs. Every definition is read from the Rust code; `PROJECT.json` ties each
one to the lines it stands for, each property to a mutation of the code that
breaks it, and each hazard of the code to the properties that watch it. Paths
below are relative to `crates/` unless they start elsewhere.

## The system

| Component | State | Operations | What makes it correct |
|---|---|---|---|
| Order book, `orderbook/src/book.rs` | price levels per side with queues and cached totals; map from resting id to side and price | `submit_order` (GTC, IOC, FOK, market), `cancel_order`, queries | index and levels describe the same orders; totals are sums; never crossed; price-time priority; FOK all or nothing |
| Position accounting, `engine/src/accounting.rs` | quantity (i64), cost basis and realized P&L (i128) | `apply_fill`, `unrealized_pnl` | books equal cash exactly; average within prices traded; overflow refused as a whole and only when real |
| Engine core, `engine/src/executor.rs`, `state.rs` | parent orders, working set, retention queue, positions, halt reason, id counters | `submit`, `cancel`, `tick`, `halt`, queries | registry exact; amounts ordered; stream, orders, positions agree; ended orders final; halt final; every order ends |
| Pre-trade risk, `engine/src/risk.rs` | limits only | `check_new_order`, `loss_limit_breached` | limits hold under every later order of fills |
| Simulated venue, `engine/src/venue.rs` | a book per symbol, its ladder, a quote id counter | `execute`, `refresh_quotes`, `mid` | full two-sided ladder between ticks, ids that never meet |
| Engine task and service, `engine/src/event_loop.rs`, `service.rs`, `main.rs` | the core, the command channel, the fill broadcast | select of ticker and commands; `serve`: start, Ctrl+C, stop, join | every call ends; shutdown reaches the engine and completes |
| gRPC API, `api/src/server.rs`, `types.rs`, `proto/execution.proto` | per stream a forwarder task and a buffer of 256 | unary calls through `ask`; `StreamFills` | UNAVAILABLE had no effect; streams without a gap, or `DATA_LOSS` |
| Schedulers, `algo-core/src/` | none (pure) | TWAP, randomized TWAP, VWAP, volume profile, POV, implementation shortfall | schedules add up, lie in the window, follow their curve |
| Trader GUI, `trader-gui/src/main.rs` | `AppState`: session generation, connection, client, tracked ids, rows, reports | connect, disconnect, submit, cancel, polls, fill stream workers | nothing of an old session is shown; accepted orders are followed until they end |
| Configuration, `config/src/lib.rs`, `config/default.toml` | settings | `load`, `validate`, conversion by `from_settings` | what is served is what the engine assumes; nothing documented is refused |
| Python bindings and backtest, `python-bindings/src/lib.rs`, `../python/algo_exec_py/` | none / price path, fills, side, arrival price | wrappers of the schedulers; `BacktestEngine` | metrics of one run; prices of the path |

**Interactions.** A client calls the gRPC API; the handler puts a command with a
reply channel into a bounded channel; the single engine task takes it, changes
`EngineCore`, and replies. The task also ticks: it releases due slices of
working orders as IOC child orders to the venue's order book, applies the fills
to positions and orders, broadcasts them, and checks the loss limit. A
forwarder per subscriber moves fills from the broadcast ring to the stream's
buffer. The GUI is one such client, with a UI thread and worker threads that
share `AppState`.

**Hard behaviours.** A fill that overflows in mid-tick; several slices, expiry
and eviction in one tick; limits checked at submission and used up later;
commands behind a shutdown; a slow or vanished stream reader; a full channel;
late replies and lock hand-overs across GUI sessions; a fill stream that ends at any
moment; quotes and children in one book; checks of the same order or setting in
three layers and three units; rounding of schedules and of partial closes. `PROJECT.json` lists each under "hazards" with its line.

## Modules

| Module | Models | Composed with |
|---|---|---|
| `Accounting` | the arithmetic of `accounting.rs`, with widths | used by `PositionLedger`, `EngineCore` |
| `PositionLedger` | one position under any fills; ghost `netCash` | run by `MCArithmetic`, next to `RiskBudget` |
| `OrderBook` | `book.rs` | implements `ReferenceBook` |
| `ReferenceBook` | abstract: the naive book of `orderbook/tests/reference_model.rs` | - |
| `RiskBudget` | abstract: what the position and gross limits promise, for any number of symbols | implemented by `EngineCore` |
| `EngineCore` | `executor.rs`, `state.rs`, `risk.rs` | extends `Accounting` |
| `Service` | `event_loop.rs`, `service.rs`, `main.rs`, `server.rs` | implements `FillFeed` |
| `FillFeed` | abstract: what `StreamFills` promises | - |
| `TraderGui` | sessions and workers of `trader-gui/src/main.rs` | - |
| `ScheduleArithmetic` | what these share: slices, even targets, the checks of `schedule.rs` | extended by `Schedules` and `Shortfall` |
| `Schedules` | the schedulers of `algo-core` | their result is what `EngineCore` assumes of a schedule (`IsSchedule`) |
| `Shortfall` | `is.rs`: model, trajectory, cost, rounding | implements `Schedules`, where the trajectory is any curve; run by `MCArithmetic`, next to it |
| `Venue` | one market of `venue.rs` | extends `OrderBook`, whose steps it runs; implements `AnyVenue` |
| `AnyVenue` | abstract: what the engine relies on of a venue | the choices of `EngineCore`'s `Fill` and `Settle` |
| `Settings` | `config/src/lib.rs`, `from_settings`, `EngineCore::new`, `main.rs` | its `ServedIsSound` is what the other modules assume of their constants |
| `Floats` | the rounding of f64: the nearest float, ties to even, over any precision | extended by `OrderRequest` |
| `OrderRequest` | order form and its f64 conversions, server conversion, checks of the engine on the order alone, order row | `EngineCore` and `TraderGui` go on from an accepted order; `Inputs` sends it to an engine that `Settings` let serve |
| `Inputs` | a settings file, then one order from outside | extends `Settings`, runs `OrderRequest` next to it |
| `FillStream` | the fill stream worker of the GUI | `TraderGui` reduces it to what it writes; `MCGui` runs it on the session and client of `TraderGui` |
| `*Proofs` | theorems on the module they are named after, `AccountsProofs` on `Accounting`, `PositionLedger` and `RiskBudget`, `OrderBookProofs` also on `Venue`, `GuiProofs` on `TraderGui` and on the `FillStream` of `MCGui`, `InputsProofs` on `Settings` and `OrderRequest` | `EngineCoreProofs` carries the theorems of `AccountsProofs` over to `EngineCore` |
| `SumTheorems` | what a sum over a finite set is and how it changes | used by all proofs about totals |
| `MC*` | constants for TLC, symmetry, refinement mappings, and systems that one run checks side by side | - |

Definitions named `Mutant_...` sit next to the definition they break: each is a
plausible bug in that code, under which some property named in `PROJECT.json`
fails. They are used by nothing else.

### How state and actions correspond to the code

* **OrderBook.** `levels` and `index` are the code's maps. `submit_order` is
  `Reject`, `Kill` or `Accept`, then one `Match` per iteration of the inner loop,
  then `FinishFilled`, `Rest` or `CancelRemainder`; `taker` holds the order in
  between and excludes other calls, as `&mut self` does. The invariants thus hold
  inside the loop and not only between calls. Quantities wrap at `QtyModulus`. Price
  0 stands for every price that is not positive. The ghost `arrived` is the
  order of arrival, which the reference book is mapped to.
* **EngineCore.** `Submit` and `Cancel` are one step. A tick is `TickBegin`,
  per working order `ReleaseDue`, any number of `Fill` (or one `FillOverflows`)
  and `Settle`, then `TickEnd` or `TickEndHalt`. What `tick` keeps in locals are
  `todo`, `current`, `sending`, `done` and `failure`. A refused submission changes
  nothing and is no action. A position that does not exist yet is a flat one. Time is
  the wall clock: each call reads any value up to `MaxTime`, so it may step back.
  Left out because nothing decides by them: child ids, arrival mid, fill
  notional, start time. `OrderSpecs` come with a schedule that the schedulers
  would return; a schedule error refuses like every other check.
* **The venue in EngineCore** gives a child any fills its limit and size allow,
  at any of `FillPrices`: more than any ladder can do, so the invariants hold for
  each. Between ticks the mid is the constant `Mark`, because
  `refresh_quotes` runs at the end of every tick. `AnyVenue` states exactly this, and
  `Venue` is shown to implement it.
* **Venue.** `phase` says where in a tick the market is. `Execute` hands a child to the
  book, `Trade` and `Matched` are the book's steps; `refresh_quotes` is `RefreshBegin`,
  a `CancelQuote` per id of the old ladder, then a `SubmitQuote` per quote, `rung`
  counting them. A quote goes through the same steps as any order, so that it could
  match or be rejected is not excluded but checked. Other markets share nothing but
  `next_quote_id`, of which they take `OtherQuotes` per refresh. Execution of children
  at `EngineCore`'s choice: any side, limit and size.
* **Settings.** `stage` is how far `run` of `main.rs` has come. `validate` is a sequence of
  named checks, the first failing one being the error. Amounts of the file are counted
  in parts of a tick, so that rounding is visible; an amount stands for the f64 product
  `price * TICK_SCALE`, in parts so fine that every one is whole. TOML parsing is one outcome.
* **OrderRequest.** `stage` is how far an order has come from the keyboard, or from any other
  client, to the table. Typed numbers are counted in parts of their unit; words, NaN
  and infinities are model values. Prices and durations are typed in a larger unit, and what
  the code makes of them is rounded twice as f64 is: by `parse` (`Parsed`) and by the product
  with `TICK_SCALE` or `1e9` (`Scaled`), before the rounding to a tick or the cut to a
  nanosecond. The numbers of profiles and of impacts stand for the floats they parse as. `Reject` is always possible: halts and limits are
  `EngineCore`'s matter. `ImpactFits` is the range of f64 that `Model::new` and `kappa`
  leave, up to rounding at its very end.
* **FillStream.** `phase` of a worker is its place in the loop of `stream_fills`; every check
  under a lock and its write are two steps. `seen` is the version its watch receiver
  has seen, so a session that begins between check and wait ends the wait at once. The
  connection indicator (`record_reply`) is in `TraderGui`; the backoff has no length.
* **Service.** One action per await or send: `Ask`, `Handle`, `Unavailable`,
  `Forward`, `Deposit`, `ForwarderQuits` and so on. What a command does to the
  engine is `EngineCore`'s matter; here it is `handled` or not. tokio's channels, the
  broadcast ring and the transport are external, modelled from their use.
* **TraderGui.** Every guarded write is a `Check` under the lock of its field and a
  later write; `held` says who is in between. `begin_session` bumps the generation
  first and clears field by field.
  Tracked orders are a set, and a poll asks for them in any order: the code goes through its
  list, and nothing depends on that order. `connection` and `report` record which session's
  data they show; `owner` is a ghost.
* **Schedules.** A behaviour is one call: refused by the first failing check,
  or one step per slice, observation or bar. A VWAP target is the exact share, off
  by rounding and at most `FloatError`; an implementation-shortfall curve is any
  curve; SplitMix64 draws any offset below its bound.
* **Shortfall.** One call of `compute_almgren_chriss_schedule`: a step per entry of
  `holdings`, then one per slice. Arithmetic is exact: with the defining equation of
  kappa, `2 cosh(kappa tau)` is rational, and the ratios of sinh are integers over a
  common denominator (`Sinh`, `Scale`). Variables: `call` and `verdict` are the arguments and
  the result, `slice`, `complete` and `aim` the loop of `quantities_from_cumulative`, `orders`
  the schedule. The code's f64 differs from it by rounding only, except
  for parameters so small or large that kappa is lost; those are left out.
* **Inputs** puts the two parts of what comes in from outside into one system: an order reaches
  the server only while a configuration is served and not halted.
* **MCArithmetic** runs four parts that share no state side by side: a call of the schedulers
  (`Schedules`), a call of the Almgren-Chriss scheduler (`Shortfall`), a position under fills
  (`PositionLedger`) and the risk budget (`RiskBudget`). A behaviour is about one of them and
  leaves the others as they began, so nothing is gained or lost by it.
  **MCGui** runs the fills page on the session and client variables of `TraderGui`, and
  leaves the rest of the GUI as it began.

## Runs

| Run | Bounds | Shows |
|---|---|---|
| `MCEngineCore` | 1 symbol, 3 accepted orders from 6 specs, clock 0..2, fill prices 1 and 3 around mark 2, retention 1 | types, registry, amounts, children, stream, loss guard, expiry, finality; refinement of `RiskBudget`; every accepted order ends |
| `MCOrderBook` | 3 ids (symmetric), 2 prices, quantities modulo 4 | `CheckInvariants`: index and totals exact inside the loop, never crossed; FOK; refinement of `ReferenceBook` |
| `MCVenue` | 2 ladders of 2 levels of 2 units (spacing 1 tick by clamping, and 2), 2 markets that are refused; 2 ticks, 3 children of size 1, 3, 5 with any limit; quantities modulo 8 | `LadderRestored`: ladder and mid are back after every tick; `ChildrenMeetLadder`: depth within a tick, no rejected quote, only quotes rest; refinement of `AnyVenue` |
| `Service` | 2 callers, 1 of which may subscribe, command buffer 2, ring 1, stream buffer 1, window 1, 2 fills | `CallsSound`: UNAVAILABLE had no effect; refinement of `FillFeed`; calls end, engine stops, forwarders end, serve returns if clients read |
| `TraderGui` | 2 sessions, 1 order, 1 submit worker, 1 report | `ScreenOfSession`: session isolation, client behind the status; an order finished or forgotten after its read-back says so for good |
| `GuiClient`, `GuiDeadline`, `GuiForgotten` (violations) | the same | the three findings on the GUI below |
| `FillStream` | 2 sessions, 3 fills, 2 rows kept | `PageOfSession`: rows and status of this session only and in order; the stream comes back; old workers end |
| `MCInputs` | a good file, form or request changed in up to 2 fields, values at both sides of every bound; ladders at both ends of the prices; i64 of ticks and u64 of 0..31, 4 parts of a tick, 2 parts of a nanosecond, 5 ticks or nanoseconds to the unit typed, floats of 4 bits (`Precision` 16) up to 2^11 times their smallest distance, at most 4 slices | `ValidationExact`: what is served is sound, what is documented is served; `OrderFaithful`: accepted = typed, omissions never trade, the form refuses nothing valid, the row tells the end |
| `SettingsLoss` (violation) | the files of `MCInputs` | an engine without a loss halts |
| `MCArithmetic` | windows up to 6 long, quantities 0, 2, 5, up to 3 slices (4 is refused), weights 0..2, 2 volumes; for Almgren-Chriss windows 2 and 4 long, 1 to 3 units and slices, risk 0, 1, 4, volatility 0 to 2, two values of either impact, 10 calls that are refused; a position with quantities in -5..4 (`HalfWord` 5), costs in -50..49, 3 prices, fills up to 9; a budget of 2 symbols of price 1 and 2, position limit 2, gross limit 6 | schedules executable, paced, within participation, profile = slices; `AlmgrenChriss`: optimal among all integer trajectories, never behind TWAP, monotone in risk aversion; refinement of `Schedules`; exact cash identity, average within prices, overflow refused only when real; both limits hold from the admission rule alone |

**Why the bounds are enough.** They are chosen so that each hard case
occurs. *PositionLedger*: `HalfValue = 2 * HalfWord^2`, the ratio of the program's
i128 to i64 squared, large fills overflow the
quantity and repeated round trips the P&L. *OrderBook*: three orders
make a queue of two with a taker, modulo 4 makes a level overflow with two. *EngineCore*: retention 1 with
three orders evicts within one tick; `HalfValue` is scaled on its own so that an
accounting overflow is reachable in mid-child; a loss of 2 is one bad child
away; clock steps of 2 skip slices. *Service*: a ring and buffers of one
item overflow with two fills, and a command buffer of two is full with two
commands. One of the two callers has a stream; a caller that leaves and calls
again keeps the commands of its earlier calls in the queue, so that the
shutdown meets a full channel. *TraderGui*: two sessions
are one old and one new, also for *FillStream*, whose three fills overflow two kept
rows and leave one to make after a resubscription. *Venue*: a child of 5 sweeps a
ladder of 4 and loses its remainder, one of 1 leaves a partial quote, one of 3 a filled
and a partial level; two ticks cancel a damaged ladder twice. *Settings*,
*OrderRequest*: every check has a value on either side of its bound, and two changes
combine the layers; with floats of 4 bits, prices and durations near the top of the range
are off by a tick or a nanosecond, a tie goes either way, and the largest ones are
infinite, while the smallest are exact. *Shortfall*: integer trajectories of total up to 3 include TWAP,
all at once, all at the end, and overshooting ones; `Optimal` compares exactly with each.
*Schedules*: lengths that do not divide by the slices,
quantities below and above the number of slices, float errors that overshoot.

**Deadlock** is checked for the engine, book, venue and inputs, which never
stop (an exited process and a venue at the bound on ticks stutter, and a
served configuration ticks on). It is off for `Service` (a returned server), for
`TraderGui` and `FillStream` (sessions, orders and fills are bounded) and for
`MCArithmetic` (a call of a scheduler ends).

**Fairness.** *EngineCore*: a tick is a plain function and ends (weak fairness of
its steps); the ticker keeps firing and the clock gets past every window
(strong fairness of a tick at `MaxTime`, because commands come in between).
*Service*: tasks that are ready run (weak). `tokio::select!` picks among ready
branches at random and waiting senders get room in turn, so `Handle`,
`StopEngine`, `Ask`, `SignalShutdown` and `StopAgain` are strongly fair. Nothing
is assumed of clients, Ctrl+C or fills; `ReadersLetServeReturn` states its
assumption on readers in the property. *TraderGui*: threads run and locks are
handed on (weak); the UI polls twice a second, so `StartPoll` and the poll's
replies are strongly fair even while sessions and locks interfere. *FillStream*: a
worker's own steps are strongly fair, as locks it waits for are given up and taken
again; a changed watch wakes its wait (weak); an engine that is asked again and again
takes a subscription in the end (strong), without which `LiveAgain` could not hold.
Nothing is assumed of fills, of connects or of the user.

## Proofs

tlapm proves these for every value of the constants; each rests on the named
assumptions of its module (`WidthAssumption`, `LedgerAssumption`, `BookAssumption`,
`BudgetAssumption`, `EngineAssumption`, `SlicesAssumption`, `ScheduleAssumption`,
`ShortfallAssumption`,
`ServiceAssumption`, `SettingsAssumption`, `RequestAssumption`, and for the GUI
`StreamAssumption` and `GuiAssumption`). They say what the code's
types say (ranges of prices, quantities and limits, widths of the integers, channels and
buffers that hold something, fields of files, forms and messages), that symbols are finitely many, and that VWAP has as many slices as weights.

* **SumTheorems.** `SumFunctionOnSet` is a fold over a recursive function with `CHOOSE`. That it
  exists and adds up is proved by well-founded induction on the natural numbers, with the
  induction over finite sets stated over sets of sets instead of a predicate. From it:
  adding, removing and changing one value, unions, bijections, bounds, partitions.
* **AccountsProofs, a position.** `LedgerInv` is types, cash identity, and `CostWithin`
  for all bounds of the prices. The types alone are not inductive: the unchecked
  subtraction of `accounting.rs:78` stays in range only because the cost has the
  sign of the quantity, and that sign survives a partial close only because the
  removed share keeps the average within bounds (`ShareKeepsBounds`,
  `ShareOfShort`). From it: `PositionFits`, `NetCashIsExact`, `AverageIsWithinPrices`,
  `SplitIsExact`, and `RefusalIsReal`: the checks on intermediate products refuse nothing
  that fits.
* **AccountsProofs, the limits.** `PositionWithinLimit` is not inductive, since a fill moves
  the position. `BudgetInv` bounds the position plus all that works on a side; fills
  and withdrawals only use this headroom up. From it `PositionLimitHolds`. The gross
  limit needs the same over a sum: a fill moves quantity from working to position, which
  never raises the larger of both sides (`GrossLimitHolds`). In both
  parts the assumption of the module is a hypothesis of each theorem, because `EngineCoreProofs`
  instantiates them: for one fill of its own positions, and for the limits.
* **EngineCoreProofs.** `EngineInv` joins types, registry, order amounts, the stream,
  the ledger bounds of each position and `TickInv`: which orders a tick in progress
  has still to visit, that these have not ended, and that a halted engine has none.
  One lemma per action. From it `EngineTypes`, `RegistryIsExact`,
  `AmountsStayOrdered`, `StreamAlwaysAgrees`, and as action properties
  `TerminalStaysFinal` and `HaltStaysFinal`. They hold for any symbols, orders, fill
  prices and limits, any retention, and machine integers of any width.
  Three more inductive invariants on top of `EngineInv` are about quantities.
  `ChildrenInv`: the fills of the children add up, only the last child has anything left, and
  in mid-child no slice is due; hence `ChildrenAccountForFills` and `ExpiryOffersAll`.
  `RoomInv`: on either side, position and working orders together are within the limit; so
  the saturating sums of `exposure` are exact. With it each step
  of the engine is a step of `RiskBudget` or a stutter: `Submit` is an admission, `Fill` a
  trade, `Settle`, `Cancel`, `TickEndHalt` and `FillOverflows` are withdrawals
  (`EngineKeepsBudget`, and with the theorems of `RiskBudget`, `EngineWithinLimits`).
  `CashInv`: the cash of the reported fills is the sum of the books, hence
  `LossLimitHolds`. It has two hypotheses, both states of the program. `MaxLoss > 0`:
  with a loss limit that rounds to zero an engine that has just started breaches it (the finding
  `SettingsLoss`). `BooksFit`: profits and losses of all symbols fit in i128; `total_pnl`
  adds with saturation, in an order of its own, and a profit that is cut off could otherwise
  hide a loss.
* **OrderBookProofs.** `IInv`: every queue is at its price and side and free of repetitions, a
  level's total is its queue's sum, index and levels describe the same orders, so does the
  list of arrivals, in which each queue is in order; bids are below asks. The taker is not
  among them, has room at its price if it may rest, and finds enough if it is fill-or-kill.
  It holds between the iterations of the loop. From it `BookIsConsistent` and `FillOrKillHolds`; and, since the best level's first
  order is the earliest arrival at the best price, every step is a step of the naive
  book (`BookImplementsReference`).
* **OrderBookProofs, the venue.** `LadderRestored` says nothing about the steps that rebuild a
  ladder, and a level's total says nothing about whose orders it counts. `VenueInv`, on top of
  `IInv`, has four parts. `LadderInv`: every level holds what `Depth` says, that is all or nothing
  while the ladder is built, and what the children left of it else; no other price has a
  level. `QuotesInv`: what rests are quotes of the last refresh, at most one to a level, so
  cancelling the ids of `quote_ids` empties the book. `CountersInv`: quote ids are behind their
  counter, children's below all of them, and `traded` never exceeds the ladder.
  `SubmissionInv`: the submission in progress is a child's, or that of the quote at
  `rung`, which meets nothing, because the book is empty beyond the levels placed. A child takes from the
  best level, and the best level is the first with anything left, so `traded` measures how far it
  reached. From it `LadderIsRestored` (counting and ordering the levels gives the best `n` prices),
  `EveryChildMeetsLadder`, and the refinement `VenueIsAnyVenue`. `VenueAssumption` is a
  hypothesis of these theorems: sizes and prices fit their types, ids of children are below those
  of quotes, as `QUOTE_ID_BASE` sees to.
* **SchedulesProofs.** First the arithmetic: slices are not empty, the two
  boundary formulas agree, TWAP targets stay within half a unit of the even share,
  never fall and end at the total. Then that the checks passed give sound arguments, and
  one invariant per loop: the children of the slices done are at rising times and add up to the
  target reached, TWAP's at every boundary to its even target, VWAP's only where there is volume;
  POV has its rate of the volume of the prints read, at every time; the profile has pooled the
  bars read. From them `EveryScheduleIsExecutable`, `EveryPaceIsKept`,
  `ParticipationIsKept`, `EveryBarIsPooled`.
* **SchedulesProofs, implementation shortfall.** `AlmgrenChriss` is about a curve that a recursive
  function computes, so its recurrences are first proved to have a solution (`SinhExists`,
  `ScaleExists`), and the rest is induction along them, over sets of numbers. With `s(m)` the
  scaled sinh and `d` the denominator of the urgency in lowest terms (`LowestTerms`):
  `s(m + 1) >= d s(m)`, so holdings never rise (`CurveFalls`); `s(m) / m` never falls and
  rises unless kappa is zero (`SinhConvex`), so that less is held than at an even pace, strictly inside the window,
  and rounding to the nearest unit, whichever way a tie goes, is never behind TWAP
  (`NearestAhead`; with equality a tie rounded down would be); and of two urgencies the larger
  one's `s` grows faster (`SinhFaster`), so less is held (`FasterHoldsLess`). `PaceFalls` is the
  Euler equation of the cost. From it `CheapestCurve`: slice by slice, with any other trajectory
  `h` and both scaled alike, the cost so far is at most that of `h` plus a term
  in the difference at the last boundary, and this term is zero at the end. That is stronger than
  what the run compares: any whole numbers, not only those around the total
  (`NoTrajectoryCheaper`). `ShortfallInv` says which part of the curve is in `holdings` and that
  what is scheduled is TWAP's or more. Hence `AlmgrenChrissHolds`, and, step by
  step, `ShortfallIsSchedule`: entries of the trajectory are stutters of `Schedules`, slices are its slices.
* **ServiceProofs.** `CallsInv`: a caller has at most one command in the channel that somebody
  waits for, it is among the asked ones, a stopped engine leaves the channel empty, and only
  answered calls count as handled. From it `EveryCallIsSound`. `StreamsInv`: what a stream's client has read,
  what is on the wire, in the forwarder's buffer and in its hand are together one run of
  fills from the subscription up to `next`; only its last item may say `DATA_LOSS`, after
  which the forwarder ends. From it, action by action, the refinement of `FillFeed`
  (`StreamsAreFeeds`).
* **GuiProofs, the fills page.** That rows are of the current session is not inductive: an old
  worker may have passed its check. `PageInv` adds where each worker may be: it
  was started by a connect that finished and has seen its own generation, so once rows (or status) are
  cleared, a worker that holds their lock to write is the session's, and the fill it
  writes next is behind all rows. From it `PageIsOfSession`.
* **GuiProofs, sessions.** `GuiInv` joins `UiInv` (`begin_session` clears every
  field once, and sets the status after the last), `OwnersInv` (what a submit
  worker, the poll or a pending write names is an order of the session it was started in),
  `HeldInv` (what the holder of each lock is about to write; a connect worker that stores its
  client holds the connection lock) and `FieldsInv` with `ConnectionInv` (a field that has been
  cleared, and the write its lock is held for since, are of the current session). A write that
  passed its check in an old session must land before the clear, as both take the
  lock: that is why the check and the write need only one lock, and what
  `ScreenIsOfSession` rests on.
* **InputsProofs, the settings.** `SettingsInv` says per stage what has been checked and
  converted. The checks of the stages together give `ServedIsSound` (`LevelsArePrices`). The
  other direction is arithmetic: the price of a market is rounded to ticks, up or down, its
  spacing rounded down or clamped to one tick, and yet a ladder that fits in exact parts
  fits in ticks (`LadderArithmetic`), because levels times spacing are below 10 000 basis
  points. A documented range that counts the spread of the ladder in whole parts is too
  generous for that: only exact fractions of a part will do, so `Documented` compares
  these. From it `ValidationIsExact`.
* **InputsProofs, an order.** `OrderInv` remembers that a message is a request from elsewhere
  or what a form said at some click, and an accepted order one that the engine accepted at
  some time. The rest are lemmas about the conversions: `LimitIsNear`, `WindowIsNear`,
  `OmittedIsRefused`, and `RefusalHasCause`, which goes back through all of them: what the
  engine accepts and a message can say, the form accepts. From it `OrdersAreFaithful`.
  A limit and a duration go through two floats. `NearestBounds`: the nearest float is off
  by one part in `Precision` at most, half the distance of the floats there. `TwoRoundings`
  adds up the errors of parse and product in integers, as `Blur`. So the limit is the one typed
  but for half a tick and this (`LimitAsTyped`), which for whole ticks below about
  `Precision / 4` (`2^51` for f64, near the `2^35` currency units of `types.rs:39-46`) means
  exactly the one typed; above, it may be off by a tick and more, as that comment says. The window
  is as long as typed but for its blur, and less than a nanosecond short (`WindowAsTyped`).
  `FloatAssumption` is what f64 is made of, and `RequestAssumption` says that no part of a
  unit is so small that f64 loses precision there (below `2^-1021`).

**Only model-checked.** Liveness, which rests on fairness and is out of the prover's reach:
`EveryOrderFinishes` of the engine; `EveryCallEnds`, `EngineStops`, `ForwarderFollowsClient` and
`ReadersLetServeReturn` of the service; `FinishedOrdersSettle`, `OldStreamEnds` and `LiveAgain` of
the GUI. Every invariant, action property and refinement of a passing run is proved.

**Only proved.** `HaltIsFinal` of `EngineCore`, `WithinLimits` of `EngineCoreProofs`, and
`TypeOK` and `SplitIsTruncation` of `PositionLedger`: the proofs cover every instance, so no
run repeats them.

## Findings

* **GuiClient / `ClientOfSession`.** `trader-gui/src/main.rs:1198`: the connect worker
  checks its session under the connection lock and stores the client under the
  client lock. `begin_session` holds neither across bump and clear, so a disconnect
  or reconnect in between leaves the old session's client in place, against
  `main.rs:489-492` and `533-536`.
* **GuiDeadline / `AcceptedAreTracked`.** `main.rs:1279`: a submit whose deadline passes
  after the engine accepted is reported as failed and never tracked, against
  `main.rs:485-487`.
* **GuiForgotten / `ForgottenSaysSo`.** `trader-gui/src/main.rs:1482`: a read-back is answered
  WORKING (`1262`), the engine then forgets the order, a poll is told NOT_FOUND, and
  `forget_order` drops the id while there is no row (`1493`). The read-back's row is stored
  after that, says WORKING, and is never polled, against `main.rs:1486`. This is
  why `FinishedOrdersSettle` asks for the read-back to be over; from then on a row that
  tells the end keeps telling it.
* **SettingsLoss / `HaltsOnlyOnLoss`.** `engine/src/executor.rs:64`: `max_loss` passes `validate`
  as positive and is then rounded to ticks. Below half a tick it is zero, and the
  first tick halts an engine that has lost nothing, against `config/src/lib.rs:65`.

Smaller observations, no finding: a read-back and a poll may overtake each other, and
the next poll repairs the row of an order that is still polled; a restarted engine reuses
parent ids, which the GUI cannot tell apart; `serve` does not return while a connected client
does not read its stream, as line 594 of the repository's README says, which is why
`ReadersLetServeReturn` has this condition; `validate`'s check of `levels x level_spacing_bps` (`lib.rs:196`) says
it keeps every bid above zero, which for a spacing clamped to one tick only the
later `level_step` does (the mutant of `ValidationExact`).

## Not modelled

* Rendering, charts, quick-fill buttons, status lines and the log of the GUI; log lines
  of the engine: nothing decides by them.
* Parsing of TOML and of numbers, symbols as text, proto encoding: an input either
  parses to a value or does not.
* Conversion of positions and fills to proto (P&L saturates at i64), depth queries other
  than the ladder's, `average_price_ticks`, average fill price and shortfall of the status
  view: pure, and for display.
* The Python bindings and the backtest: an offline tool that calls the schedulers
  `Schedules` models and computes metrics in floats, one call after the other.
* f64 rounding of the Almgren-Chriss trajectory and of its cost: exact
  arithmetic instead. VWAP's float error is a bound. The f64 steps of typed prices and
  durations are modelled; not that a number may be typed too small for a normal f64.
* The f64 steps before an amount of the settings file is a number of ticks: amounts are counted
  by their product. Display of a price (`ticks_to_price`): a row only says whether there is a limit.
* Benchmarks, charts for the docs, CI: tools. The tests are read for what they say.
* Self-trade and order owners: the code has none.

## Plan

Order of work, most important first, all of it done: `Accounting`, `PositionLedger`,
`OrderBook` and `ReferenceBook`, `RiskBudget`, `EngineCore`, `Service` and
`FillFeed`, `TraderGui`, `Schedules`, `Venue` and `AnyVenue`, `Settings`, `OrderRequest`, `Inputs`,
`FillStream`, `Shortfall`, and the proofs above.
