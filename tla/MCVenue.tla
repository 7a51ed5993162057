-------------------------------- MODULE MCVenue --------------------------------
(***************************************************************************)
(* Venue with small markets: a spacing clamped to one tick, a spacing of   *)
(* two ticks, and two markets whose ladder leaves the prices at one end,   *)
(* which level_step refuses.                                               *)
(***************************************************************************)
EXTENDS Venue

MCMarkets ==
  { [reference |-> 4, levels |-> 2, qty |-> 2, bps |-> 1],
    [reference |-> 5, levels |-> 2, qty |-> 2, bps |-> 4000],
    [reference |-> 2, levels |-> 2, qty |-> 2, bps |-> 1],
    [reference |-> 8, levels |-> 2, qty |-> 2, bps |-> 1] }

MCOrderIds == (1 .. MaxChildren) \cup (QuoteIdBase .. MaxQuoteId)

ASSUME VenueConstants == VenueAssumption
=============================================================================
