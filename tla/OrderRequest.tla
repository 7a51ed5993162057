------------------------------ MODULE OrderRequest ------------------------------
(***************************************************************************)
(* A parent order from the keyboard to the order table: the form of the    *)
(* GUI (OrderForm::to_request and its parsers, crates/trader-gui/src/      *)
(* main.rs), the conversion of the server (new_parent_order and            *)
(* order_status, crates/api/src/server.rs), the checks of the engine that  *)
(* depend on the order alone (EngineCore::submit, build_schedule and the   *)
(* checks of the schedulers), and the row of the GUI (update_order).       *)
(*                                                                         *)
(* The life of one request.  It comes from the form, or from any other     *)
(* client that speaks the protocol.  Whether trading is halted, and what   *)
(* the risk limits say of the positions, is EngineCore's matter and may    *)
(* refuse any order here.                                                  *)
(*                                                                         *)
(* A typed number is an integer of parts of its unit (PriceParts to a      *)
(* tick, TimeParts to a nanosecond, whole for counts), or one of NotFinite *)
(* that parses as a float, or one of Words that parses as nothing.  Prices *)
(* and durations are typed in a larger unit, parsed as f64 and multiplied, *)
(* and both steps round as f64 does; a number of a profile or of an impact *)
(* stands for the float it parses as.                                      *)
(***************************************************************************)
EXTENDS Floats, SequencesExt

CONSTANTS
  Forms,       \* what a trader may type
  Requests,    \* what other clients may send
  Clock,       \* readings of now_ns, of the GUI and of the engine
  Trim,        \* symbol as typed -> symbol without spaces around it
  Blank,       \* the empty symbol
  Markets,     \* symbols of the venue
  Words, Empty, NotFinite,
  PriceParts, TimeParts,
  TickScale,   \* TICK_SCALE, ticks in a currency unit
  Second,      \* nanoseconds in a second
  MaxI64, MaxU64, MaxU32, MaxSlices,
  MaxFloat,    \* f64::MAX
  None

VARIABLES
  form,        \* what is typed, or None for another client
  stage,       \* "typed", "refused", "sent", "malformed", "handled", "rejected", "accepted"
  request,     \* the message on the wire
  order,       \* NewParentOrder, then the accepted order
  state,       \* its ParentOrderState
  row          \* the OrderRow shown

vars == <<form, stage, request, order, state, row>>
-----------------------------------------------------------------------------
U64 == 0 .. MaxU64
Float == Int \cup NotFinite
WireSides == {"SIDE_UNSPECIFIED", "SIDE_BUY", "SIDE_SELL", "other"}
States == {"Working", "Filled", "Cancelled", "Expired"}

Impacts(Number) ==
  [risk : Number, volatility : Number, temporary : Number, permanent : Number]

Algorithms ==
  [kind : {"TWAP"}, slices : 0 .. MaxU32]
    \cup [kind : {"VWAP"}, profile : Seq(Float)]
    \cup [kind : {"IS"}, slices : 0 .. MaxU32, impact : Impacts(Float)]

SubmitParentOrderRequest ==
  [symbol : DOMAIN Trim, side : WireSides, quantity : U64,
   limit : {None} \cup -MaxI64 - 1 .. MaxI64, start : U64, end : U64,
   algorithm : {None} \cup Algorithms]

\* What a text field can hold, and a count: a number with a fraction is no count.
Typed == Float \cup Words

OrderForm ==
  [symbol : DOMAIN Trim, side : {"Buy", "Sell"}, quantity : Int \cup Words,
   limit : Typed, duration : Typed, algo : {"TWAP", "VWAP", "IS"},
   slices : Int \cup Words, profile : Seq(Typed), impact : Impacts(Typed)]

\* The units and widths, that None, the words and the numbers are told apart, and that
\* no part is so small that f64 loses precision there.
RequestAssumption ==
  /\ Forms \subseteq OrderForm /\ Requests \subseteq SubmitParentOrderRequest
  /\ Clock \subseteq 1 .. MaxU64
  /\ Trim \in [DOMAIN Trim -> DOMAIN Trim]
  /\ Markets \subseteq DOMAIN Trim \ {Blank}
  /\ Empty \in Words /\ Words \cap Float = {} /\ NotFinite \cap Int = {}
  /\ {PriceParts, TimeParts, TickScale, Second} \subseteq Nat \ {0}
  /\ FloatAssumption /\ MaxFloat \in Nat
  /\ Grain >= Precision * (PriceParts * TickScale) /\ Grain >= Precision * (TimeParts * Second)
  /\ {MaxI64, MaxU64, MaxU32} \subseteq Nat /\ MaxSlices \in 1 .. MaxU32
  /\ None \notin Int \cup Forms \cup Algorithms \cup States
-----------------------------------------------------------------------------
\* A number of parts, typed in a unit of scale times as many: parsed, then multiplied.
Parsed(text, parts, scale) == Nearest(text * Grain, parts * scale)
Scaled(text, parts, scale) == Nearest(Parsed(text, parts, scale) * scale, 1)

Finite(text, parts, scale) ==
  Fits(text * Grain, parts * scale) /\ Fits(Parsed(text, parts, scale) * scale, 1)

\* Price::try_from_f64: the product is rounded to a tick, half a tick away from zero.
Size(text) == IF text < 0 THEN -text ELSE text

Ticks(text) ==
  LET near == (2 * Scaled(Size(text), PriceParts, TickScale) + Grain) \div (2 * Grain)
  IN  IF text < 0 THEN -near ELSE near

\* A mutation: the price is rounded before it is compared with zero.
Mutant_HalfTickIsMarket(text) ==
  IF text = Empty \/ Ticks(text) = 0 THEN None ELSE Ticks(text)

\* parse_limit_price: nothing and zero mean no limit.
LimitOf(text) == IF text \in {Empty, 0} THEN None ELSE Ticks(text)

LimitParses(text) ==
  \/ text = Empty
  \/ text = 0
  \/ /\ text \in Int /\ text > 0
     /\ Finite(text, PriceParts, TickScale) /\ Ticks(text) <= MaxI64

CountParses(text, max) == text \in 1 .. max

\* parse_duration_secs: u64::MAX as f64 is 2^64, and the product is cut to a u64.
DurationParses(text) ==
  /\ text \in Int /\ text > 0
  /\ Finite(text, TimeParts, Second) /\ Scaled(text, TimeParts, Second) <= (MaxU64 + 1) * Grain

Nanos(text) ==
  IF text <= 0 THEN 0 ELSE Min({MaxU64, Scaled(text, TimeParts, Second) \div Grain})

WeightParses(text) == text \in Int /\ text >= 0

ProfileParses(profile) ==
  /\ profile # <<>>
  /\ \A i \in DOMAIN profile : WeightParses(profile[i])
  /\ \E i \in DOMAIN profile : profile[i] > 0

ImpactParses(p) ==
  /\ \A number \in {p.risk, p.volatility, p.permanent} : number \in Int /\ number >= 0
  /\ p.temporary \in Int /\ p.temporary > 0

AlgorithmParses(f) ==
  CASE f.algo = "TWAP" -> CountParses(f.slices, MaxU32)
    [] f.algo = "VWAP" -> ProfileParses(f.profile)
    [] f.algo = "IS"   -> CountParses(f.slices, MaxU32) /\ ImpactParses(f.impact)

AlgorithmOf(f) ==
  CASE f.algo = "TWAP" -> [kind |-> "TWAP", slices |-> f.slices]
    [] f.algo = "VWAP" -> [kind |-> "VWAP", profile |-> f.profile]
    [] f.algo = "IS"   -> [kind |-> "IS", slices |-> f.slices, impact |-> f.impact]

EndFits(f, now) == now + Nanos(f.duration) <= MaxU64

\* to_request accepts the form at a click at time now, ...
FormAccepts(f, now) ==
  /\ Trim[f.symbol] # Blank
  /\ CountParses(f.quantity, MaxU64)
  /\ LimitParses(f.limit)
  /\ DurationParses(f.duration) /\ EndFits(f, now)
  /\ AlgorithmParses(f)

\* ... and this is the request it makes of it.
Said(f, now) ==
  [symbol |-> Trim[f.symbol], side |-> IF f.side = "Buy" THEN "SIDE_BUY" ELSE "SIDE_SELL",
   quantity |-> f.quantity, limit |-> LimitOf(f.limit),
   start |-> now, end |-> now + Nanos(f.duration), algorithm |-> AlgorithmOf(f)]
-----------------------------------------------------------------------------
\* new_parent_order: what is not INVALID_ARGUMENT.
WellFormed(r) ==
  /\ r.side \in {"SIDE_BUY", "SIDE_SELL"}
  /\ r.algorithm # None
  /\ r.start # 0

NewParentOrder(r) == [r EXCEPT !.side = IF r.side = "SIDE_BUY" THEN "Buy" ELSE "Sell"]

\* validate_window.
WindowFits(o, slices) ==
  /\ slices \in 1 .. MaxSlices
  /\ o.start < o.end /\ o.end - o.start >= slices

\* largest_weight.
ProfileFits(profile) ==
  /\ \A i \in DOMAIN profile : profile[i] \notin NotFinite /\ profile[i] >= 0
  /\ \E i \in DOMAIN profile : profile[i] > 0

\* Model::new and kappa: the signs of the parameters, eta~ > 0, and every step of
\* kappa within the floats.  eta is eta~ and risk is lambda sigma^2, both times
\* 2 * horizon; tau = duration / horizon; kappa needs 2y + 1 <= f64::MAX.
ImpactFits(o, slices, p) ==
  /\ {p.risk, p.volatility, p.temporary, p.permanent} \cap NotFinite = {}
  /\ p.risk >= 0 /\ p.volatility >= 0 /\ p.permanent >= 0 /\ p.temporary > 0
  /\ LET duration == o.end - o.start
         horizon  == Second * slices
         eta      == 2 * p.temporary * horizon - p.permanent * duration
         risk     == 2 * p.risk * p.volatility * p.volatility * horizon
     IN  /\ eta > 0
         /\ risk <= 2 * MaxFloat * horizon
         /\ risk <= MaxFloat * eta
         /\ risk * duration * duration < MaxFloat * eta * horizon * horizon

\* build_schedule succeeds.
ScheduleFits(o) ==
  LET a == o.algorithm
  IN  CASE a.kind = "TWAP" -> WindowFits(o, a.slices)
        [] a.kind = "VWAP" -> WindowFits(o, Len(a.profile)) /\ ProfileFits(a.profile)
        [] a.kind = "IS"   -> WindowFits(o, a.slices) /\ ImpactFits(o, a.slices, a.impact)

\* The checks of submit on the order itself, at the engine's time now.
EngineAccepts(o, now) ==
  /\ o.symbol \in Markets
  /\ o.quantity # 0
  /\ o.limit # None => o.limit > 0
  /\ o.end > now
  /\ ScheduleFits(o)
-----------------------------------------------------------------------------
StateToProto == [s \in States |-> CASE s = "Working" -> 1 [] s = "Filled" -> 2
                                    [] s = "Cancelled" -> 3 [] s = "Expired" -> 4]

StateLabel(n) ==
  IF n \in 1 .. 4 THEN <<"WORKING", "FILLED", "CANCELLED", "EXPIRED">>[n] ELSE "UNKNOWN"

SideLabel(side) ==
  IF side = "SIDE_BUY" THEN "BUY" ELSE IF side = "SIDE_SELL" THEN "SELL" ELSE "?"

\* is_terminal: a row whose order is not polled again.
Terminal(r) == r.state # "WORKING"

\* order_status, then update_order: the order as the table shows it.
RowOf(o, s) ==
  [symbol |-> o.symbol,
   side |-> SideLabel(IF o.side = "Buy" THEN "SIDE_BUY" ELSE "SIDE_SELL"),
   algorithm |-> o.algorithm.kind, state |-> StateLabel(StateToProto[s]),
   quantity |-> o.quantity, limited |-> o.limit # None,
   start |-> o.start, end |-> o.end]
-----------------------------------------------------------------------------
Init ==
  /\ \/ form \in Forms /\ stage = "typed" /\ request = None
     \/ form = None /\ stage = "sent" /\ request \in Requests
  /\ order = None /\ state = None /\ row = None

\* submit_order: the form is refused, or its request goes out.
FormRefuses(now) ==
  /\ stage = "typed" /\ ~FormAccepts(form, now)
  /\ stage' = "refused"
  /\ UNCHANGED <<form, request, order, state, row>>

Submit(now) ==
  /\ stage = "typed" /\ FormAccepts(form, now)
  /\ request' = Said(form, now)
  /\ stage' = "sent"
  /\ UNCHANGED <<form, order, state, row>>

\* submit_parent_order: INVALID_ARGUMENT, or a command for the engine.
InvalidArgument ==
  /\ stage = "sent" /\ ~WellFormed(request)
  /\ stage' = "malformed"
  /\ UNCHANGED <<form, request, order, state, row>>

Hand ==
  /\ stage = "sent" /\ WellFormed(request)
  /\ order' = NewParentOrder(request)
  /\ stage' = "handled"
  /\ UNCHANGED <<form, request, state, row>>

\* The engine refuses the order, whatever it is if trading is halted or at a limit.
Reject ==
  /\ stage = "handled"
  /\ stage' = "rejected"
  /\ UNCHANGED <<form, request, order, state, row>>

Accept(now) ==
  /\ stage = "handled" /\ EngineAccepts(order, now)
  /\ stage' = "accepted"
  /\ state' = "Working"
  /\ UNCHANGED <<form, request, order, row>>

OrderEnds(end) ==
  /\ state = "Working"
  /\ state' = end
  /\ UNCHANGED <<form, stage, request, order, row>>

\* The read-back of a submit, and the poll while the row is not terminal.
ReadStatus ==
  /\ stage = "accepted" /\ form # None
  /\ row # None => ~Terminal(row)
  /\ row' = RowOf(order, state)
  /\ UNCHANGED <<form, stage, request, order, state>>

Next ==
  \/ \E now \in Clock : FormRefuses(now) \/ Submit(now) \/ Accept(now)
  \/ InvalidArgument \/ Hand \/ Reject
  \/ \E end \in States \ {"Working"} : OrderEnds(end)
  \/ ReadStatus

Spec == Init /\ [][Next]_vars
-----------------------------------------------------------------------------
\* What is on the wire fits the types of its message, computed window included.
TypeOK ==
  /\ stage \in {"typed", "refused", "sent", "malformed", "handled", "rejected", "accepted"}
  /\ request \in {None} \cup SubmitParentOrderRequest
  /\ order # None => order.side \in {"Buy", "Sell"}
  /\ state \in States \cup {None}

\* Two roundings move a number by at most this, in parts over Precision squared.
Blur(text) == text * (2 * Precision + 1)

\* types.rs:34-46, main.rs:92-126: the limit is the typed one but for half a tick and the
\* two roundings, exactly it for whole ticks that these cannot move by half a tick; ...
LimitAsTyped(limit, text) ==
  LET square == Precision * Precision
      off    == limit * PriceParts - text
      most   == square * PriceParts + 2 * Blur(text)
  IN  /\ square * (2 * off) \in -most .. most
      /\ text % PriceParts = 0 /\ 2 * Blur(text) < square * PriceParts => off = 0

\* ... and the window is as long as typed but for these, or less than a nanosecond short.
WindowAsTyped(length, text) ==
  LET square == Precision * Precision
  IN  square * (text - length * TimeParts) \in -Blur(text) .. square * TimeParts + Blur(text) - 1

\* An order accepted from the form is the one that was typed, through three
\* conversions: no limit only for nothing or zero.
OrderAsTyped ==
  stage = "accepted" /\ form # None =>
    /\ order.symbol = Trim[form.symbol] /\ order.side = form.side
    /\ order.quantity = form.quantity
    /\ IF form.limit \in {Empty, 0} THEN order.limit = None
       ELSE order.limit \in 1 .. MaxI64 /\ LimitAsTyped(order.limit, form.limit)
    /\ WindowAsTyped(order.end - order.start, form.duration)
    /\ order.algorithm = AlgorithmOf(form)

\* server.rs:245-246, execution.proto: proto3 delivers an omitted field as zero.
\* No client gets an order accepted with a field omitted that the protocol needs.
OmittedNeverTrades ==
  stage = "accepted" =>
    /\ request.symbol # Blank /\ request.side # "SIDE_UNSPECIFIED"
    /\ request.quantity # 0 /\ request.start # 0 /\ request.end # 0
    /\ request.algorithm # None
    /\ request.algorithm.kind \in {"TWAP", "IS"} => request.algorithm.slices # 0
    /\ request.algorithm.kind = "VWAP" => request.algorithm.profile # <<>>
    /\ request.algorithm.kind = "IS" => request.algorithm.impact.temporary # 0

\* main.rs:285-287: the form only catches what can be checked without a round trip.
\* Whatever it refuses no request can say, or the engine refuses at any time.
Sayable(f, now) ==
  /\ f.quantity \in U64
  /\ \/ f.limit = Empty
     \/ /\ f.limit \in Int
        /\ f.limit # 0 => Finite(Size(f.limit), PriceParts, TickScale)
        /\ Ticks(f.limit) \in -MaxI64 - 1 .. MaxI64
  /\ f.duration \in Int
  /\ f.duration > 0 => Finite(f.duration, TimeParts, Second)
  /\ now + Nanos(f.duration) \in U64
  /\ f.algo \in {"TWAP", "IS"} => f.slices \in 0 .. MaxU32
  /\ f.algo = "VWAP" => f.profile \in Seq(Float)
  /\ f.algo = "IS" => f.impact \in Impacts(Float)

FormRefusesForCause ==
  stage = "refused" =>
    \A clicked \in Clock :
      ~FormAccepts(form, clicked) /\ Sayable(form, clicked) =>
        \A now \in Clock : ~EngineAccepts(NewParentOrder(Said(form, clicked)), now)

\* The row tells the order, and a row that is not polled again tells how it ended.
RowTellsOrder ==
  row # None =>
    /\ row.side = (IF form.side = "Buy" THEN "BUY" ELSE "SELL")
    /\ row.limited <=> form.limit \notin {Empty, 0}
    /\ row.end - row.start = request.end - request.start
    /\ Terminal(row) =>
         [Filled |-> "FILLED", Cancelled |-> "CANCELLED", Expired |-> "EXPIRED"][state] = row.state

\* From the keyboard to the row nothing is lost: what is accepted is what was meant,
\* what is refused could not have been accepted, and the row says which.
OrderFaithful ==
  TypeOK /\ OrderAsTyped /\ OmittedNeverTrades /\ FormRefusesForCause /\ RowTellsOrder
=============================================================================
