--------------------------------- MODULE Venue ---------------------------------
(***************************************************************************)
(* One market of the simulated venue (crates/engine/src/venue.rs): a       *)
(* ladder of market maker quotes in the book of module OrderBook.          *)
(*                                                                         *)
(* Between ticks the market is Idle.  In a tick the engine first executes  *)
(* child orders (Trading), then refresh_quotes cancels what is left of the *)
(* old ladder one id at a time (Cancelling) and submits the new one, a     *)
(* sell and a buy per level (Quoting).  Every cancel and submission goes   *)
(* through the book's own steps, so a quote may match, rest or be rejected *)
(* like any other order.  A venue starts with an empty book at Quoting.    *)
(*                                                                         *)
(* The other markets of the venue share nothing with this one but the      *)
(* counter of quote ids: they take OtherQuotes of it in every refresh.     *)
(* Limit price 0 stands for every price that is not positive.              *)
(***************************************************************************)
EXTENDS OrderBook, FiniteSets

CONSTANTS
  Markets,        \* the market configurations: reference, levels, qty, bps
  QuoteIdBase,    \* QUOTE_ID_BASE
  OtherQuotes,    \* quote ids the other markets use in one refresh
  ChildQtys,      \* the sizes of child orders
  MaxTicks,       \* bound on the ticks of a run
  MaxChildren,    \* bound on the child orders of a run
  Unquoted        \* the mark within a tick

VARIABLES
  market,         \* the configuration, never changed
  quote_ids,      \* ids of the quotes submitted in the last refresh
  next_quote_id,
  next_child_id,  \* the engine's counter of child orders
  phase,          \* "Idle", "Trading", "Cancelling" or "Quoting"
  rung,           \* Quoting: how many quotes of the ladder were submitted
  ticks,
  traded          \* ghost: per side of the ladder, what children took this tick

MaxQuoteId ==
  LET ladder == Max({2 * m.levels : m \in Markets})
  IN  QuoteIdBase + (MaxTicks + 1) * (ladder + OtherQuotes)

\* A ladder has a level, and the ids of quotes and children are order ids.
VenueAssumption ==
  /\ Markets \subseteq [reference : 1 .. MaxPrice, levels : Nat \ {0},
                        qty : 1 .. QtyModulus - 1, bps : Nat \ {0}]
  /\ IsFiniteSet(Markets)
  /\ ChildQtys \subseteq 1 .. QtyModulus - 1
  /\ OtherQuotes \in Nat /\ MaxTicks \in Nat /\ MaxChildren \in Nat
  /\ QuoteIdBase \in Nat /\ QuoteIdBase > MaxChildren
  /\ (1 .. MaxChildren) \cup (QuoteIdBase .. MaxQuoteId) \subseteq OrderIds
  /\ Unquoted \notin Int
  /\ NoTaker \notin [side : Sides, limit_price : 0 .. MaxPrice \cup {NoLimit}, qty : Qty]

venueVars == <<vars, market, quote_ids, next_quote_id, next_child_id, phase, rung,
          ticks, traded>>
-----------------------------------------------------------------------------
\* A mutation: the spacing without its lower bound.
Mutant_NoSmallestStep(m) == (m.reference * m.bps) \div 10000

\* level_step: the distance between levels, at least one tick.
LevelStep(m) == Max({1, (m.reference * m.bps) \div 10000})

\* level_step refuses a ladder that leaves the positive prices at either end.
LadderFits(m, step) ==
  /\ m.reference - step * m.levels > 0
  /\ m.reference + step * m.levels <= MaxPrice

Step == LevelStep(market)

\* The price of a level of the ladder, the first next to the reference price.
QuotePrice(side, level) ==
  IF side = "Sell" THEN market.reference + Step * level
                   ELSE Max({0, market.reference - Step * level})

\* The quotes in the order they are submitted: per level a sell, then a buy.
QuoteSide(n) == IF n % 2 = 0 THEN "Sell" ELSE "Buy"

Quote ==
  [id |-> next_quote_id, side |-> QuoteSide(rung),
   limit_price |-> QuotePrice(QuoteSide(rung), rung \div 2 + 1),
   qty |-> market.qty, tif |-> "GTC"]

\* A mutation: children with ids from the quotes' range.
Mutant_QuoteIdChild(side, limit, qty) ==
  [id |-> QuoteIdBase + next_child_id - 1, side |-> side, limit_price |-> limit,
   qty |-> qty, tif |-> "IOC"]

\* child_order: limit or market, always immediate-or-cancel.
Child(side, limit, qty) ==
  [id |-> next_child_id, side |-> side, limit_price |-> limit, qty |-> qty,
   tif |-> "IOC"]
-----------------------------------------------------------------------------
\* The queries of the book that the engine reads.
Better(side, p, q) == IF side = "Buy" THEN p > q ELSE p < q

\* The price that so many others of its side are better than.
PriceAfter(side, n) ==
  CHOOSE p \in PricesOf(side) : Cardinality({q \in PricesOf(side) : Better(side, q, p)}) = n

\* bid_levels and ask_levels: the first n levels, best first, with their totals.
TopLevels(side, n) ==
  [i \in 1 .. Min({n, Cardinality(PricesOf(side))}) |->
     <<PriceAfter(side, i - 1), LevelQty(side, PriceAfter(side, i - 1))>>]

TwoSided == PricesOf("Buy") # {} /\ PricesOf("Sell") # {}

Mid == (BestPrice("Buy") + BestPrice("Sell")) \div 2

OrderCount == Cardinality(DOMAIN index)
-----------------------------------------------------------------------------
\* SimulatedVenue::new: a market that level_step accepts, an empty book.
VenueInit ==
  /\ market \in {m \in Markets : LadderFits(m, LevelStep(m))}
  /\ Init
  /\ quote_ids = <<>>
  /\ next_quote_id = QuoteIdBase
  /\ next_child_id = 1
  /\ phase = "Quoting" /\ rung = 0
  /\ ticks = 0
  /\ traded = [side \in Sides |-> 0]

\* The engine starts a tick.
TickBegin ==
  /\ phase = "Idle" /\ ticks < MaxTicks
  /\ phase' = "Trading"
  /\ ticks' = ticks + 1
  /\ UNCHANGED <<vars, market, quote_ids, next_quote_id, next_child_id, rung, traded>>

\* execute: a child order is handed to the book, which takes or rejects it.
Execute(side, limit, qty) ==
  /\ phase = "Trading" /\ next_child_id <= MaxChildren
  /\ \/ Accept(Child(side, limit, qty))
     \/ Reject(Child(side, limit, qty))
  /\ next_child_id' = next_child_id + 1
  /\ UNCHANGED <<market, quote_ids, next_quote_id, phase, rung, ticks, traded>>

\* A step of the book's submit_order, for a child or for a quote.
Trade ==
  /\ Match
  /\ traded' = [traded EXCEPT ![Opposite(taker.side)] = @ + taker.qty - taker'.qty]
  /\ UNCHANGED <<market, quote_ids, next_quote_id, next_child_id, phase, rung, ticks>>

Matched ==
  /\ FinishFilled \/ Rest \/ CancelRemainder
  /\ UNCHANGED <<market, quote_ids, next_quote_id, next_child_id, phase, rung, ticks, traded>>

\* The children of the tick are done: refresh_quotes starts.
RefreshBegin ==
  /\ phase = "Trading" /\ taker = NoTaker
  /\ phase' = "Cancelling"
  /\ UNCHANGED <<vars, market, quote_ids, next_quote_id, next_child_id, rung, ticks, traded>>

IdsLeft(id) == Tail(quote_ids)

\* drain: the next old quote leaves the list, and the book if it still rests.
CancelQuote ==
  /\ phase = "Cancelling" /\ quote_ids # <<>>
  /\ Cancel(Head(quote_ids)) \/ CancelUnknown(Head(quote_ids))
  /\ quote_ids' = IdsLeft(Head(quote_ids))
  /\ UNCHANGED <<market, next_quote_id, next_child_id, phase, rung, ticks, traded>>

CancelEnd ==
  /\ phase = "Cancelling" /\ quote_ids = <<>>
  /\ phase' = "Quoting" /\ rung' = 0
  /\ UNCHANGED <<vars, market, quote_ids, next_quote_id, next_child_id, ticks, traded>>

\* The next quote of the ladder goes to the book; an accepted one is noted.
SubmitQuote ==
  /\ phase = "Quoting" /\ rung < 2 * market.levels
  /\ \/ Accept(Quote) /\ quote_ids' = Append(quote_ids, next_quote_id)
     \/ Reject(Quote) /\ UNCHANGED quote_ids
  /\ next_quote_id' = next_quote_id + 1
  /\ rung' = rung + 1
  /\ UNCHANGED <<market, next_child_id, phase, ticks, traded>>

\* refresh_quotes goes on to the other markets and returns; the tick is over.
RefreshEnd ==
  /\ phase = "Quoting" /\ rung = 2 * market.levels /\ taker = NoTaker
  /\ phase' = "Idle"
  /\ next_quote_id' = next_quote_id + OtherQuotes
  /\ traded' = [side \in Sides |-> 0]
  /\ UNCHANGED <<vars, market, quote_ids, next_child_id, rung, ticks>>

\* The engine makes no further tick (the bound on ticks).
NoMoreTicks == phase = "Idle" /\ ticks = MaxTicks /\ UNCHANGED venueVars

VenueNext ==
  \/ TickBegin
  \/ \E side \in Sides, limit \in (1 .. MaxPrice) \cup {NoLimit}, qty \in ChildQtys :
       Execute(side, limit, qty)
  \/ Trade \/ Matched
  \/ RefreshBegin \/ CancelQuote \/ CancelEnd \/ SubmitQuote \/ RefreshEnd
  \/ NoMoreTicks

VenueSpec == VenueInit /\ [][VenueNext]_venueVars
-----------------------------------------------------------------------------
\* The venue's own state has its types, and the book's structures agree at every
\* step, quotes and children together.
VenueTypeOK ==
  /\ CheckInvariants
  /\ market \in Markets
  /\ quote_ids \in Seq(QuoteIdBase .. MaxQuoteId)
  /\ next_quote_id \in QuoteIdBase .. MaxQuoteId
  /\ next_child_id \in 1 .. MaxChildren + 1
  /\ phase \in {"Idle", "Trading", "Cancelling", "Quoting"}
  /\ rung \in 0 .. 2 * market.levels /\ ticks \in 0 .. MaxTicks
  /\ traded \in [Sides -> 0 .. market.levels * market.qty]

\* venue.rs:22-23, 86: between ticks, whatever the last tick's children took, the
\* depth is the full ladder on both sides and the mid is the reference price; so
\* a new order never meets a one-sided market and marks never move.
LadderRestored ==
  phase = "Idle" =>
    /\ \A side \in Sides :
         TopLevels(side, market.levels) =
           [k \in 1 .. market.levels |-> <<QuotePrice(side, k), market.qty>>]
    /\ OrderCount = 2 * market.levels
    /\ TwoSided /\ Mid = market.reference

\* Within a tick each side holds the ladder less what was traded on it, taken
\* from the reference price outwards: no child skips a level, none is served
\* twice, and none leaves a trace of its own.
LevelLeft(side, k) ==
  LET reach == k * market.qty - traded[side]
  IN  IF reach <= 0 THEN 0 ELSE IF reach >= market.qty THEN market.qty ELSE reach

DepthIsLadderLessTraded ==
  phase = "Trading" =>
    \A side \in Sides : \A price \in 1 .. MaxPrice :
      LevelQty(side, price) =
        IF \E k \in 1 .. market.levels : price = QuotePrice(side, k)
        THEN LevelLeft(side, CHOOSE k \in 1 .. market.levels : price = QuotePrice(side, k))
        ELSE 0

\* What rests is always known to the next refresh: an order resting under an id
\* that quote_ids lost, or a child's, would never be cancelled.
OnlyQuotesRest == DOMAIN index \subseteq ToSet(quote_ids)

\* venue.rs:11-12, 114: no quote and no child is ever rejected by the book: prices
\* are positive and the ids of quotes and children never meet.
NothingRejected ==
  outcome \notin {"ZeroQuantity", "NonPositivePrice", "LevelQuantityOverflow",
                  "MarketOrderCannotRest", "DuplicateOrderId", "Killed"}

\* Whatever the earlier children of the tick took, a child is accepted and meets the
\* ladder less that, and nothing rests but quotes that the next refresh knows; the
\* book is sound at every step of all this.
ChildrenMeetLadder ==
  VenueTypeOK /\ DepthIsLadderLessTraded /\ OnlyQuotesRest /\ NothingRejected
-----------------------------------------------------------------------------
\* What the engine sees of the market: the mid between ticks, and its child order.
MarkSeen == IF phase # "Idle" THEN Unquoted ELSE IF TwoSided THEN Mid ELSE 0

ChildSent == taker # NoTaker /\ taker.id < QuoteIdBase

ChildSeen ==
  IF ChildSent
  THEN [side |-> taker.side, limit_price |-> taker.limit_price, qty |-> taker.qty]
  ELSE NoTaker

FillsSeen ==
  IF ChildSent THEN [i \in DOMAIN fills |-> <<fills[i].price, fills[i].qty>>] ELSE <<>>

Seen == INSTANCE AnyVenue WITH
          Prices <- 1 .. MaxPrice, Quantities <- 1 .. QtyModulus - 1, NoChild <- NoTaker,
          reference <- market.reference, mark <- MarkSeen,
          child <- ChildSeen, got <- FillsSeen

\* executor.rs:196-200, 224-252: a venue with a ladder is one of those the engine
\* expects: one child at a time, each fill within its limit and what it still
\* wants, and the mid back at the reference price before the next tick.
ImplementsAnyVenue == Seen!Spec
=============================================================================
