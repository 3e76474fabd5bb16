------------------------ MODULE MCVariantExperiments ------------------------
(***************************************************************************)
(* Small instances of DeclaredExperiment.                                  *)
(***************************************************************************)
EXTENDS DeclaredExperiment, TLC

\* 5 and 6 rows have the same train and holdout partitions, 7 rows do not.
MCRows == {5, 6, 7}

Float(value) == [value |-> value, whole |-> FALSE]
Whole(value) == [value |-> value, whole |-> TRUE]

\* The second wrote its stop as a whole number.
MCStrategies ==
    {[status |-> "CONTRACT_VALID", stop |-> Float(20), target |-> Float(40)],
     [status |-> "CONTRACT_VALID", stop |-> Whole(20), target |-> Float(40)]}

\* Three stops in any order; a duplicate under two spellings, a matrix above its
\* own maximum and one without the baseline are refused.
MCPayloads ==
    {[frozen |-> TRUE, maximum |-> 3, stops |-> stops, targets |-> <<Float(40)>>] :
        stops \in {<<Whole(30), Float(20), Float(10)>>, <<Float(20), Whole(20), Float(10)>>,
                   <<Float(10), Float(20), Float(30), Float(50)>>,
                   <<Float(10), Float(30), Float(50)>>}}

Metrics(trades, net, factor, drawdown) ==
    [trades |-> trades, net |-> net, factor |-> factor, drawdown |-> drawdown]

Measured(nominal, adverse) == [baseline |-> nominal, adverse_cost |-> adverse]

Strong == Measured(Metrics(120, 9, 130, -5), Metrics(120, 6, 120, -6))
\* As strong as Strong where costs are adverse, stronger where they are not.
Tied == Measured(Metrics(120, 10, 140, -5), Metrics(120, 6, 120, -6))
\* The gate stops it at adverse costs only.
Fragile == Measured(Metrics(120, 9, 150, -4), Metrics(120, 2, 110, -6))
\* Deepest drawdown at nominal costs; worst factor as that of Strong.
Rough == Measured(Metrics(110, 12, 125, -9), Metrics(110, 6, 120, -8))
Flawless == Measured(Metrics(100, 4, Infinite, 0), Metrics(100, 3, Infinite, 0))
Few == Measured(Metrics(99, 4, Infinite, 0), Metrics(99, 3, Infinite, 0))
NoTrades == Measured(Metrics(0, 0, Unavailable, 0), Metrics(0, 0, Unavailable, 0))

\* The baseline is the second.
MCReplays ==
    {<<Strong, Strong, Tied>>, <<Tied, NoTrades, Strong>>, <<Rough, NoTrades, Strong>>,
     <<Fragile, Strong, Rough>>, <<Rough, Strong, Fragile>>, <<Flawless, Strong, Rough>>,
     <<Few, NoTrades, Fragile>>, <<Few, Flawless, NoTrades>>}

Stored == [i \in DOMAIN holdout |-> holdout[i].replay]

\* Bounds: behind a worker that was overtaken no further row runs out, the
\* dataset keeps its partitions, the contract is not registered elsewhere, and
\* the holdout measures one of two replays, of which one selects a variant.
MCBounds ==
    overtaken =>
        /\ \A k \in Kinds : row[k].status = "RUNNING" => row[k].fresh
        /\ SameHoldout(rows) /\ revision.lineage # "foreign"
        /\ Stored \in {<<>>, <<Strong, Strong, Tied>>, <<Few, NoTrades, Fragile>>}

MCFingerprintRank == [i \in 1..Matrix |-> Matrix - i]

\* Sound for the safety runs: no property names a worker.
MCSymmetry == Permutations(Workers)
=============================================================================
