-------------------------------- MODULE Inputs --------------------------------
(***************************************************************************)
(* All that comes in from outside: the settings file, and then, for an     *)
(* engine that serves a good one, one order from a form or from another    *)
(* client.                                                                 *)
(***************************************************************************)
EXTENDS Settings

CONSTANTS
  Forms, Requests, Clock, Trim, NoSymbol, Markets, Words, Empty,
  Precision, Grain, Spacings, PriceParts, TimeParts, TickScale, Second,
  MaxTicks, MaxU64, MaxU32, MaxSlices, MaxFloat

VARIABLES form, order_stage, request, order, state, row

orderVars == <<form, order_stage, request, order, state, row>>

\* NoSymbol is the empty symbol, MaxTicks is i64::MAX for the price of an order.
Orders == INSTANCE OrderRequest WITH
  Blank <- NoSymbol, MaxI64 <- MaxTicks, stage <- order_stage

ASSUME OrderConstants == Orders!RequestAssumption
-----------------------------------------------------------------------------
InputsInit == Init /\ Orders!Init

\* An order needs an engine that serves, and a halted engine accepts none.
InputsNext ==
  \/ Next /\ UNCHANGED orderVars
  \/ /\ stage = "serving" /\ Orders!Next
     /\ order_stage' = "accepted" => order_stage = "accepted" \/ ~halted
     /\ UNCHANGED vars

InputsSpec == InputsInit /\ [][InputsNext]_<<vars, orderVars>>

\* main.rs:285-287, server.rs:245-246: an accepted order is the one that was typed, an
\* omitted field never trades, the form refuses nothing that the engine would take,
\* and the row tells how the order ended.
OrderFaithful == Orders!OrderFaithful
=============================================================================
