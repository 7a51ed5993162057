------------------------------- MODULE MCInputs -------------------------------
(***************************************************************************)
(* Inputs with files, forms and requests that differ from a good one in up *)
(* to two fields, omitted ones included.                                   *)
(***************************************************************************)
EXTENDS Inputs, MCSettings

CONSTANT Letters
-----------------------------------------------------------------------------
MCWords == {Empty, Letters}

MCTrim == [name \in {"", " ", "SIM", " SIM", "XYZ"} |->
             IF name = " SIM" THEN "SIM" ELSE IF name = " " THEN "" ELSE name]

GoodImpact == [risk |-> 1, volatility |-> 1, temporary |-> 2, permanent |-> 1]
Odd == {-1, 0, 3} \cup NotFinite

Varied(good, field, values) == {[good EXCEPT ![field] = v] : v \in values}

BadImpacts ==
  UNION {Varied(GoodImpact, field, Odd) : field \in DOMAIN GoodImpact}
  \cup {[risk |-> 6, volatility |-> 4, temporary |-> 1, permanent |-> p] : p \in {0, 1}}

Profiles == {<<>>, <<0>>, <<0, 1>>, <<1, 0, 2>>, <<1, -1>>, <<1, 1, 1, 1, 1>>}
            \cup {<<1, v>> : v \in NotFinite}

GoodForm(algo) ==
  [symbol |-> " SIM", side |-> "Buy", quantity |-> 2, limit |-> 7, duration |-> 5,
   algo |-> algo, slices |-> 2, profile |-> <<1, 0>>, impact |-> GoodImpact]

FormValues ==
  [symbol |-> {"SIM", " ", "XYZ"}, side |-> {"Sell"},
   quantity |-> Words \cup {-1, 0, MaxU64, MaxU64 + 1},
   limit |-> Words \cup NotFinite \cup {-5, -1, 0, 1, 2, 3, 84, 116, 122, 124, 400, 2000},
   duration |-> Words \cup NotFinite \cup {-1, 0, 1, 2, 4, 21, 26, 52, 58, 64, 65, 4000},
   slices |-> Words \cup {-1, 0, 1, MaxSlices, MaxSlices + 1, MaxU32 + 1},
   profile |-> Profiles \cup {<<word>> : word \in Words},
   impact |-> BadImpacts \cup Varied(GoodImpact, "risk", Words)]

Changes(good, values) == UNION {Varied(good, field, values[field]) : field \in DOMAIN values}
UpToTwo(good, values) ==
  {good} \cup Changes(good, values) \cup UNION {Changes(one, values) : one \in Changes(good, values)}

MCForms == UNION {UpToTwo(GoodForm(algo), FormValues) : algo \in {"TWAP", "VWAP", "IS"}}

GoodRequest ==
  [symbol |-> "SIM", side |-> "SIDE_SELL", quantity |-> 2, limit |-> None,
   start |-> 2, end |-> 5, algorithm |-> [kind |-> "TWAP", slices |-> 2]]

RequestValues ==
  [symbol |-> {"", "XYZ"}, side |-> {"SIDE_UNSPECIFIED", "SIDE_BUY", "other"},
   quantity |-> {0, MaxU64}, limit |-> {-1, 0, 1, MaxTicks},
   start |-> {0, 5, 6}, end |-> {0, 2, 3, MaxU64},
   algorithm |-> {None} \cup {[kind |-> "TWAP", slices |-> n] : n \in {0, MaxSlices + 1}}
                 \cup {[kind |-> "VWAP", profile |-> p] : p \in Profiles}
                 \cup {[kind |-> "IS", slices |-> n, impact |-> p] :
                         n \in {0, 2}, p \in BadImpacts \cup {GoodImpact}}]

MCRequests == UpToTwo(GoodRequest, RequestValues)
-----------------------------------------------------------------------------
\* Any file and one form, or the good file and any form or request.
MCInit ==
  \/ file = Good /\ Init /\ Orders!Init
  \/ form = GoodForm("TWAP") /\ Orders!Init /\ Init

MCSpec == MCInit /\ [][InputsNext]_<<vars, orderVars>>
=============================================================================
