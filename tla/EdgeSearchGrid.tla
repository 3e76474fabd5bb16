--------------------------- MODULE EdgeSearchGrid ---------------------------
(***************************************************************************)
(* The frozen grid of an edge-search campaign (edge_search.py): the        *)
(* dimensions a caller declares, their expansion into points in one fixed  *)
(* order, the Strategy Contract of a point, the capability blocks it uses, *)
(* and the report that admits a grid to pre-registration.                  *)
(*                                                                         *)
(* A declaration maps a dimension to the list the caller wrote.  Scales,   *)
(* ratios and periods are in tenths; distances and multipliers in 10^-4,   *)
(* where the code keeps 10^-6; a session window is a pair of broker hours  *)
(* and <<>> is NONE.                                                       *)
(***************************************************************************)
EXTENDS Integers, Sequences, FiniteSets, SequencesExt, Functions, TLC

CONSTANTS
    TrialCap,    \* operative_trial_cap, never above HARD_TRIAL_CAP
    BaseBlocks   \* the blocks every point's contract uses

Shared == <<"stop_scale", "target_ratio", "sma_fast", "sma_slow", "sma_relation">>
DimensionKeys == Shared \o <<"setup_direction", "trigger_direction">>
DimensionKeysV2 == Shared \o <<"polarity", "direction", "session_window", "stop_type">>
Numeric == {"stop_scale", "target_ratio", "sma_fast", "sma_slow"}

\* protocol_of_dimensions and protocol_of: V2 is told by its own keys.
IsV2(record) == DOMAIN record = Range(DimensionKeysV2)

Keys(record) == IF IsV2(record) THEN DimensionKeysV2 ELSE DimensionKeys

\* The order sorted() gives the values of one dimension.
Names == <<"ABOVE", "ATR", "BEARISH", "BELOW", "BULLISH", "FIXED", "LONG", "SHORT">>

Rank(key, value) ==
    CASE key \in Numeric -> value
      [] key = "session_window" -> IF value = <<>> THEN 9999 ELSE 100 * value[1] + value[2]
      [] OTHER -> CHOOSE i \in DOMAIN Names : Names[i] = value

Sorted(dimensions, key) ==
    SetToSortSeq(Range(dimensions[key]), LAMBDA a, b : Rank(key, a) < Rank(key, b))

\* Every combination of the dimensions' values, the last dimension fastest.
Points(dimensions) ==
    LET Extend(points, key) ==
            LET values == Sorted(dimensions, key) IN
            FlattenSeq([i \in DOMAIN points |->
                [j \in DOMAIN values |-> points[i] @@ (key :> values[j])]])
    IN FoldLeft(Extend, <<<<>>>>, Keys(dimensions))

-----------------------------------------------------------------------------
(* _build_contract_v1, _build_contract_v2 *)

\* round(a / b), half up
Rounded(a, b) == (2 * a + b) \div (2 * b)

ReferenceStop == 2830
MeanTrueRange == 7560

\* Both stop types are matched on mean distance.
Distances(point) ==
    LET stop == Rounded(ReferenceStop * point["stop_scale"], 10)
        multiplier == Rounded(1000 * stop, MeanTrueRange \div 10)
    IN IF IsV2(point) /\ point["stop_type"] = "ATR"
       THEN [block |-> "ATR_SCALED", stop |-> multiplier,
             target |-> Rounded(multiplier * point["target_ratio"], 10)]
       ELSE [block |-> "FIXED_PRICE_DISTANCE", stop |-> stop,
             target |-> Rounded(stop * point["target_ratio"], 10)]

\* V2 gives setup and trigger one polarity; V1 is LONG at any hour.
Contract(point) ==
    [direction |-> IF IsV2(point) THEN point["direction"] ELSE "LONG",
     fast |-> point["sma_fast"] \div 10, slow |-> point["sma_slow"] \div 10,
     relation |-> point["sma_relation"],
     setup |-> point[IF IsV2(point) THEN "polarity" ELSE "setup_direction"],
     trigger |-> point[IF IsV2(point) THEN "polarity" ELSE "trigger_direction"],
     distances |-> Distances(point),
     window |-> IF IsV2(point) THEN point["session_window"] ELSE <<>>]

Blocks(contract) ==
    BaseBlocks \cup {contract.distances.block}
               \cup (IF contract.window = <<>> THEN {} ELSE {"SESSION_WINDOW"})

\* The dimensions as listed, and each point with its contract, in trial_index order.
GridRecord(dimensions) ==
    LET points == Points(dimensions) IN
    [dimensions |-> [key \in DOMAIN dimensions |-> Sorted(dimensions, key)],
     trials |-> [i \in DOMAIN points |->
                    [parameters |-> points[i], contract |-> Contract(points[i])]]]

UsedBlocks(grid) == UNION {Blocks(grid.trials[i].contract) : i \in DOMAIN grid.trials}

\* The definitions, in this registry, of the blocks a grid uses.
Dependencies(registry, grid) == Restrict(registry, UsedBlocks(grid) \cap DOMAIN registry)

-----------------------------------------------------------------------------
(* enumerate_grid's refusals, and validation_report *)

Admissible(key, value) ==
    CASE key = "polarity" -> value \in {"BULLISH", "BEARISH"}
      [] key = "direction" -> value \in {"LONG", "SHORT"}
      [] key = "stop_type" -> value \in {"FIXED", "ATR"}
      [] key = "session_window" ->
            value # <<>> => 0 <= value[1] /\ value[1] <= value[2] /\ value[2] <= 23
      [] OTHER -> TRUE

WellDeclared(dimensions) ==
    /\ DOMAIN dimensions = Range(Keys(dimensions))
    /\ \A key \in DOMAIN dimensions :
          /\ dimensions[key] # <<>> /\ IsInjective(dimensions[key])
          /\ \A value \in Range(dimensions[key]) : Admissible(key, value)
    /\ \A point \in Range(Points(dimensions)) :
          /\ point["sma_slow"] \div 10 > point["sma_fast"] \div 10
          /\ point["stop_scale"] > 0 /\ point["target_ratio"] > 0

\* assess_capability: CONTRACT_VALID for the generic evaluator.
Executable(contract, registry) ==
    /\ Blocks(contract) \subseteq DOMAIN registry
    /\ 0 < contract.fast /\ contract.fast < contract.slow
    /\ contract.distances.stop > 0 /\ contract.distances.target > 0

\* No issue is left: a calibration disclosure, a grid within the cap, and
\* contracts that can be executed.
Ready(payload, registry) ==
    /\ WellDeclared(payload.dimensions)
    /\ payload.disclosed
    /\ Len(Points(payload.dimensions)) <= TrialCap
    /\ \A point \in Range(Points(payload.dimensions)) : Executable(Contract(point), registry)
=============================================================================
