-------------------------- MODULE DeclaredExperiment --------------------------
(***************************************************************************)
(* A variant experiment from its declaration to its verified selection:    *)
(* create (variant_experiment_contracts.py) records the contract, the      *)
(* machine of VariantExperiments runs it, and where that machine chooses,  *)
(* the rules of VariantSelection decide: whether the matrix generates,     *)
(* what the holdout selects, and whether the verifier's recomputation      *)
(* agrees with what was stored.                                            *)
(*                                                                         *)
(* Every behaviour is one of VariantExperiments (ImplementsExperiment).    *)
(***************************************************************************)
EXTENDS VariantExperiments, VariantSelection

CONSTANTS
    Payloads,     \* contracts a caller sends
    Strategies,   \* baseline StrategyVersions
    Replays,      \* what the holdout replays of the matrix can measure
    None

\* One replay for each variant of the matrix, under every cost scenario; no two
\* variants have one fingerprint.
ASSUME DeclaredAssumption ==
    /\ \A replays \in Replays :
          /\ replays = [i \in 1..Matrix |-> replays[i]]
          /\ \A i \in 1..Matrix, s \in Scenarios :
                /\ replays[i][s].factor \in Int /\ replays[i][s].net \in Int
                /\ replays[i][s].drawdown \in Int
    /\ \A i, j \in 1..Matrix :
          /\ FingerprintRank[i] \in Int
          /\ FingerprintRank[i] = FingerprintRank[j] => i = j

VARIABLES
    strategy,     \* the baseline StrategyVersion
    contract,     \* VariantExperimentContract
    holdout,      \* matrix.variants of the completed holdout run
    decision      \* result of the selection lock

declared == <<strategy, contract>>
allVars == <<vars, declared, holdout, decision>>

-----------------------------------------------------------------------------
(* create *)

\* The row count stands for the dataset's fingerprint: both move with a sync.
Lineage == [dataset |-> rows, rows |-> rows]

Fingerprint(dataset, terms, lineage) ==
    [strategy |-> strategy, dataset |-> dataset, terms |-> terms, lineage |-> lineage]

\* Inserted, or answered with the row of this fingerprint (bound: one contract,
\* of Matrix variants with the baseline's distances at Baseline).
DeclareContract(raw) ==
    /\ contract = None /\ rows = Declared
    /\ Normalizable(raw)
    /\ LET terms == Normalized(raw) IN
       /\ Assessed(strategy, terms)
       /\ terms.count = Matrix
       /\ VariantAt(terms, Baseline).stop.value = strategy.stop.value
       /\ VariantAt(terms, Baseline).target.value = strategy.target.value
       /\ contract' = [terms |-> terms, lineage |-> Lineage,
                       fingerprint |-> Fingerprint(rows, terms, Lineage)]
    /\ UNCHANGED <<vars, strategy, holdout, decision>>

-----------------------------------------------------------------------------
(* The stages, decided by the rules *)

\* The steps that need no rule.
Serve(w) ==
    /\ \/ \E k \in Kinds : Begin(w, k)
       \/ Claim(w)
       \/ EvaluateVariant(w) \/ CompleteTrain(w)
       \/ StoreEvidence(w) \/ FinishConfirm(w)
       \/ FinishVerify(w) \/ FailRun(w)
    /\ UNCHANGED <<declared, holdout, decision>>

GenerateMatrix(w) ==
    /\ ReadBounds(w)
    /\ req[w].kind = "train" => Generates(strategy, contract.terms)
    /\ UNCHANGED <<declared, holdout, decision>>

\* A baseline written as a whole number has another checksum than its variant.
MatrixRefused(w) ==
    /\ AbandonTrain(w)
    /\ ~Generates(strategy, contract.terms)
    /\ UNCHANGED <<declared, holdout, decision>>

\* The selection is computed from the replays and locked with them.
SelectVariant(w) ==
    /\ \E replays \in Replays :
          /\ holdout' = Evidence(replays, Baseline)
          /\ decision' = Selection(replays, Baseline)
    /\ CompleteHoldout(w)
    /\ lock' = decision'.status
    /\ UNCHANGED declared

\* Slip: recomputed over the dataset as it is now (before ARK-S25-04).
RecordedLineageLive(c) == Lineage

\* What the contract's own assessment names.
RecordedLineage(c) == c.lineage

\* verify: the contract is still ready and recomputes,
ContractHolds ==
    /\ Assessed(strategy, contract.terms)
    /\ LET lineage == RecordedLineage(contract) IN
       Fingerprint(lineage.dataset, contract.terms, lineage) = contract.fingerprint

\* and so do the comparison, eligibility and ranking of the stored variants.
CalculationsHold ==
    LET replays == [i \in DOMAIN holdout |-> holdout[i].replay] IN
    /\ holdout = Evidence(replays, Baseline)
    /\ decision = Selection(replays, Baseline)

VerifyChain(w) ==
    /\ req[w].step = "bounds" /\ req[w].kind = "verify"
    /\ req' = [req EXCEPT ![w].step = "finish",
               ![w].verdict = IF SelectionPasses /\ RevisionPasses
                                 /\ ContractHolds /\ CalculationsHold
                              THEN "PASSED" ELSE "FAILED"]
    /\ UNCHANGED <<rows, tables, overtaken, declared, holdout, decision>>

Surroundings ==
    /\ (\E k \in Kinds : LeaseExpires(k)) \/ DatasetGrows \/ RegisterElsewhere \/ Crash
    /\ UNCHANGED <<declared, holdout, decision>>

-----------------------------------------------------------------------------
DeclaredInit ==
    /\ Init
    /\ strategy \in Strategies
    /\ contract = None /\ holdout = <<>> /\ decision = None

DeclaredNext ==
    \/ \E raw \in Payloads : DeclareContract(raw)
    \/ /\ contract # None
       /\ \/ \E w \in Workers :
                Serve(w) \/ GenerateMatrix(w) \/ MatrixRefused(w) \/ SelectVariant(w)
                \/ VerifyChain(w)
          \/ Surroundings

DeclaredSpec == DeclaredInit /\ [][DeclaredNext]_allVars

-----------------------------------------------------------------------------
(* Properties *)

\* No eligible variant has a better profit factor than the selected one in every
\* cost scenario; the selected one passes the gate under each of them and is not
\* the baseline.  Nothing is selected only when no variant passes them all.
SelectedIsUnbeaten ==
    LET passes(i) == i # Baseline /\ \A s \in Scenarios : PassesGate(holdout[i].replay[s])
    IN /\ lock = "SELECTED" =>
             /\ passes(decision.selected)
             /\ \A i \in DOMAIN holdout : passes(i) =>
                   \E s \in Scenarios :
                      holdout[i].replay[s].factor <= holdout[decision.selected].replay[s].factor
       /\ lock = "NO_ELIGIBLE_VARIANT" => \A i \in DOMAIN holdout : ~passes(i)

\* Selecting by the rules and verifying by recomputation, the experiment does
\* nothing that VariantExperiments does not: whatever the dataset grows to, the
\* recomputation agrees with the record and adds no ground to fail it.
ImplementsExperiment == Spec
=============================================================================
