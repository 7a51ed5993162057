------------------------------- MODULE AnyVenue -------------------------------
(***************************************************************************)
(* What the engine relies on of the venue of one symbol                    *)
(* (crates/engine/src/executor.rs): between ticks it is quoted, at the     *)
(* reference price; within a tick it takes one child order at a time, and  *)
(* fills of it what it likes, in as many parts as it likes, within the     *)
(* child's limit and quantity.  A child that is over leaves nothing        *)
(* behind.                                                                 *)
(*                                                                         *)
(* EngineCore has these choices in its actions Fill and Settle, and this   *)
(* mark in its constant Mark; module Venue is shown to make no others.     *)
(***************************************************************************)
EXTENDS Integers, Sequences

CONSTANTS
  Prices,       \* positive prices in ticks
  Quantities,   \* positive quantities
  NoLimit,      \* the limit of a market order
  NoChild,      \* no child order is with the venue
  Unquoted      \* the mark within a tick

VARIABLES
  reference,    \* the reference price
  mark,         \* the mid, between ticks
  child,        \* the child order with the venue, and what it still wants
  got           \* its fills so far, as price and quantity

vars == <<reference, mark, child, got>>
-----------------------------------------------------------------------------
\* The limit of a child accepts a price.
Acceptable(price) ==
  child.limit_price # NoLimit =>
    IF child.side = "Buy" THEN price <= child.limit_price ELSE price >= child.limit_price

Init ==
  /\ reference \in Prices
  /\ mark = Unquoted
  /\ child = NoChild /\ got = <<>>

\* A tick starts, ...
Tick ==
  /\ mark = reference
  /\ mark' = Unquoted
  /\ UNCHANGED <<reference, child, got>>

\* ... sends its children one after the other, ...
Send ==
  /\ mark = Unquoted /\ child = NoChild
  /\ child' \in [side : {"Buy", "Sell"}, limit_price : Prices \cup {NoLimit},
                 qty : Quantities]
  /\ UNCHANGED <<reference, mark, got>>

Fill(price, qty) ==
  /\ child # NoChild
  /\ qty <= child.qty /\ Acceptable(price)
  /\ child' = [child EXCEPT !.qty = @ - qty]
  /\ got' = Append(got, <<price, qty>>)
  /\ UNCHANGED <<reference, mark>>

Done ==
  /\ child # NoChild
  /\ child' = NoChild /\ got' = <<>>
  /\ UNCHANGED <<reference, mark>>

\* ... and is over when the venue is quoted again.
Quoted ==
  /\ mark = Unquoted /\ child = NoChild
  /\ mark' = reference
  /\ UNCHANGED <<reference, child, got>>

Next ==
  \/ Tick \/ Send \/ Done \/ Quoted
  \/ \E price \in Prices, qty \in Quantities : Fill(price, qty)

Spec == Init /\ [][Next]_vars
=============================================================================
