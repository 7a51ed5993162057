------------------------------- MODULE MCSettings -------------------------------
(***************************************************************************)
(* Settings with files that differ from a good one in up to two fields.    *)
(***************************************************************************)
EXTENDS Settings

Market(symbol, price, levels, qty, bps) ==
  [symbol |-> symbol, reference_price |-> price, levels |-> levels,
   qty_per_level |-> qty, level_spacing_bps |-> bps]

Good ==
  [tick_interval_ms |-> 1, command_buffer |-> 1, fill_buffer |-> 2, retained |-> 1,
   max_order_qty |-> 3, max_position_qty |-> MaxI64,
   max_order_notional |-> 12, max_gross_notional |-> 20, max_loss |-> 8,
   price_collar_bps |-> 2, symbols |-> <<Market("A", 20, 2, 1, 1)>>]

Values ==
  [tick_interval_ms |-> {0, MaxInterval, MaxInterval + 1},
   command_buffer |-> {0, MaxBuffer, MaxBuffer + 1},
   fill_buffer |-> {0, MaxBuffer + 1},
   retained |-> {0},
   max_order_qty |-> {0, MaxI64, MaxI64 + 1},
   max_position_qty |-> {0, MaxI64 + 1},
   max_order_notional |-> {-4, 0, 1, MaxI64 * PartsPerTick + 1, MaxI64 * PartsPerTick + 2} \cup NotFinite,
   max_gross_notional |-> {0, 3} \cup NotFinite,
   max_loss |-> {-1, 0, 1, 2, 3} \cup NotFinite,
   price_collar_bps |-> {0, BasisPoints, BasisPoints + 1}]

\* Ladders on either side of every check, and two markets.
Ladders ==
  { <<Market("A", price, levels, 1, bps)>> :
      price \in {-3, 0, 1, 2, 8, 9, 10, 12, 23, 40, 60} \cup NotFinite,
      levels \in 0 .. MaxLevels + 1, bps \in {0, 1, 4, 10} }

SymbolLists ==
  { <<>>, <<Market("A", 24, 1, 0, 1)>>, <<Market("A", 24, 1, MaxI64 + 1, 1)>>,
    <<Market(" ", 24, 1, 1, 1)>>, <<Market(" A", 24, 1, 1, 1)>> }
  \cup {<<Market("A", 24, 1, 1, 1), Market(name, 20, 1, 2, 2)>> : name \in Names}

With1(s) == UNION {{[s EXCEPT ![f] = v] : v \in Values[f]} : f \in DOMAIN Values}
WithSymbols(s, lists) == {[s EXCEPT !.symbols = list] : list \in lists}

MCFiles ==
  {Good} \cup With1(Good) \cup UNION {With1(s) : s \in With1(Good)}
  \cup WithSymbols(Good, Ladders \cup SymbolLists)
  \cup UNION {WithSymbols(s, SymbolLists) : s \in With1(Good)}
=============================================================================
