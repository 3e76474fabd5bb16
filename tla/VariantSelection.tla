--------------------------- MODULE VariantSelection ---------------------------
(***************************************************************************)
(* The rules a variant experiment applies to what it is given: the         *)
(* declaration a caller may confirm (variant_experiment_contracts.py), its *)
(* matrix (variant_train_runs.generate_matrix), and the comparison, the    *)
(* gate and the ranking of holdout replays (variant_holdout_runs.py).      *)
(*                                                                         *)
(* A number a caller writes is [value, whole]: 1 and 1.0 are equal, but a  *)
(* Strategy Contract's checksum is over its text, where they differ.       *)
(* Prices are in points, profit factors in hundredths.                     *)
(***************************************************************************)
EXTENDS Integers, SequencesExt, FiniteSetsExt

CONSTANTS
    HardLimit,       \* MAX_TOTAL_COMBINATIONS
    MinimumTrades,   \* minimum_holdout_trades
    FactorThreshold, \* profit_factor_strictly_greater_than
    FingerprintRank  \* place of each ordinal in the order of the variants' fingerprints

-----------------------------------------------------------------------------
(* normalize and assess *)

Values(numbers) == {n.value : n \in Range(numbers)}

\* Positive, and no value twice however it is written.
Distances(numbers) ==
    /\ numbers # <<>>
    /\ Cardinality(Values(numbers)) = Len(numbers)
    /\ \A v \in Values(numbers) : v > 0

\* frozen: the policies sent along are the ones in force.
Normalizable(raw) ==
    /\ raw.frozen
    /\ Distances(raw.stops) /\ Distances(raw.targets)
    /\ 1 <= raw.maximum /\ raw.maximum <= HardLimit
    /\ Len(raw.stops) * Len(raw.targets) <= raw.maximum

Ascending(numbers) == SetToSortSeq(Values(numbers), <)

Normalized(raw) ==
    [stops |-> Ascending(raw.stops), targets |-> Ascending(raw.targets),
     maximum |-> raw.maximum, count |-> Len(raw.stops) * Len(raw.targets)]

\* VARIANT_CONTRACT_READY: the baseline's distances are among the axes, compared
\* as numbers.
Assessed(strategy, terms) ==
    /\ strategy.status \in {"CONTRACT_VALID", "VALIDATED"}
    /\ strategy.stop.value \in Range(terms.stops)
    /\ strategy.target.value \in Range(terms.targets)

-----------------------------------------------------------------------------
(* generate_matrix *)

\* The complete product, targets fastest; every distance is written as a float.
VariantAt(terms, i) ==
    LET width == Len(terms.targets)
        float(value) == [value |-> value, whole |-> FALSE]
    IN [stop |-> float(terms.stops[((i - 1) \div width) + 1]),
        target |-> float(terms.targets[((i - 1) % width) + 1])]

\* The variants whose contract has the baseline's checksum.
Baselines(strategy, terms) ==
    {i \in 1..terms.count :
        VariantAt(terms, i) = [stop |-> strategy.stop, target |-> strategy.target]}

\* The confirmed count and exactly one baseline, or it raises.
Generates(strategy, terms) ==
    /\ terms.count = Len(terms.stops) * Len(terms.targets)
    /\ Cardinality(Baselines(strategy, terms)) = 1

-----------------------------------------------------------------------------
(* Holdout metrics *)

Scenarios == {"baseline", "adverse_cost"}

\* No gross loss: "INFINITE", or null when there is no gross profit either.
Infinite == 10000
Unavailable == -1

Magnitude(n) == IF n < 0 THEN -n ELSE n

\* _comparison of the three core metrics; null compares with nothing.
Directions(challenger, baseline) ==
    {IF challenger[s][m] > baseline[s][m] THEN 1
     ELSE IF challenger[s][m] < baseline[s][m] THEN -1 ELSE 0 :
        s \in Scenarios, m \in {"net", "factor", "drawdown"}}

\* compare_to_baseline.
Classification(challenger, baseline) ==
    CASE \E s \in Scenarios :
            Unavailable \in {challenger[s].factor, baseline[s].factor} -> "INSUFFICIENT_EVIDENCE"
      [] Directions(challenger, baseline) \in {{1}, {0, 1}} -> "DOMINATES_BASELINE"
      [] Directions(challenger, baseline) \in {{-1}, {-1, 0}} -> "INFERIOR"
      [] OTHER -> "TRADE_OFF"

PassesGate(metrics) ==
    /\ metrics.trades >= MinimumTrades
    /\ metrics.net > 0
    /\ metrics.factor # Unavailable /\ metrics.factor > FactorThreshold

\* Slip: the nominal scenario decides.
EligibleNominally(isBaseline, replay) == ~isBaseline /\ PassesGate(replay["baseline"])

\* eligibility: every cost scenario, and never the baseline.
Eligible(isBaseline, replay) ==
    ~isBaseline /\ \A s \in Scenarios : PassesGate(replay[s])

\* _rank_inputs: the worst of the scenarios.
RankInputs(replay) ==
    [factor |-> Min({replay[s].factor : s \in Scenarios}),
     net |-> Min({replay[s].net : s \in Scenarios}),
     drawdown |-> Max({Magnitude(replay[s].drawdown) : s \in Scenarios})]

\* The sort key of select_variant, fingerprints last.
RanksBefore(replays, i, j) ==
    LET a == RankInputs(replays[i]) b == RankInputs(replays[j]) IN
    \/ a.factor > b.factor
    \/ a.factor = b.factor /\ a.net > b.net
    \/ a.factor = b.factor /\ a.net = b.net /\ a.drawdown < b.drawdown
    \/ a = b /\ FingerprintRank[i] < FingerprintRank[j]

\* The variants of S, best first: n - 1 of them rank before the nth.
Ranking(replays, S) ==
    LET ahead(i) == {j \in S : RanksBefore(replays, j, i)}
    IN [n \in 1..Cardinality(S) |-> CHOOSE i \in S : Cardinality(ahead(i)) = n - 1]

\* select_variant over the replays of the matrix, in ordinal order.
Selection(replays, baseline) ==
    LET eligible == {i \in DOMAIN replays : Eligible(i = baseline, replays[i])}
        ranked == Ranking(replays, eligible)
    IN [status |-> IF eligible = {} THEN "NO_ELIGIBLE_VARIANT" ELSE "SELECTED",
        selected |-> IF eligible = {} THEN 0 ELSE ranked[1],
        ranked |-> ranked]

\* What the completed holdout run stores of each variant.
Evidence(replays, baseline) ==
    [i \in DOMAIN replays |->
        [replay |-> replays[i],
         comparison |-> IF i = baseline THEN "BASELINE"
                        ELSE Classification(replays[i], replays[baseline]),
         eligible |-> Eligible(i = baseline, replays[i])]]
=============================================================================
