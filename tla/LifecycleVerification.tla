------------------------ MODULE LifecycleVerification ------------------------
(***************************************************************************)
(* The materialized lifecycle verifier                                     *)
(* (generic_validation_lifecycle_verification.py) beside the lifecycle it  *)
(* verifies.  Its rows are keyed by the strategy's row and one eligibility *)
(* snapshot: the promoted one, or else the latest of the strategy.         *)
(***************************************************************************)
EXTENDS ValidationLifecycle

VARIABLES
    latest, \* the latest eligibility snapshot of the strategy
    rows,   \* materialized verifications
    check   \* the verification request in progress

lvars == <<vars, latest, rows, check>>

Sources == [status : Statuses, eligibility : Keys \cup {NoKey}]
Results == {"PASSED", "FAILED"}
NoCheck == [status |-> "IDLE"]

Recorded(sources) == \E row \in rows : row.sources = sources

-----------------------------------------------------------------------------
\* The snapshot that verify looks at for a strategy it read in status "seen".
SnapshotFor(seen) == IF seen = "CONTRACT_VALID" THEN latest ELSE promotion

\* Slip: the promoted snapshot is recomputed from the live sources too.
EligibilityExactLive(seen, key) ==
    /\ key # NoKey
    /\ Fingerprint(key.decision, "CONTRACT_VALID") = key
    /\ (snapshots[key] = "ELIGIBLE") = Eligible(key.decision, "CONTRACT_VALID")

\* eligibility_lineage: recomputed from the live sources only before the
\* promotion, judged as recorded afterwards.
EligibilityExact(seen, key) ==
    /\ key # NoKey
    /\ seen = "CONTRACT_VALID" =>
          /\ Fingerprint(key.decision, seen) = key
          /\ (snapshots[key] = "ELIGIBLE") = Eligible(key.decision, seen)

Verify(seen, key) ==
    IF /\ EligibilityExact(seen, key)
       /\ seen # "CONTRACT_VALID" =>
             /\ key \in promotions
             /\ snapshots[key] = "ELIGIBLE" /\ decisions[key.decision] = "PASS"
       /\ seen = "RETIRED" => retirement # NoReason
    THEN "PASSED" ELSE "FAILED"

-----------------------------------------------------------------------------
\* The strategy is read, and the fingerprint computed.
BeginCheck ==
    /\ check = NoCheck
    /\ check' = [status |-> status, eligibility |-> SnapshotFor(status)]
    /\ ~Recorded(check')
    /\ UNCHANGED <<vars, latest, rows>>

\* The checks query the snapshot again; the row keeps the earlier fingerprint.
RecordCheck ==
    /\ check # NoCheck
    /\ rows' = IF Recorded(check) THEN rows
          ELSE rows \cup {[sources |-> check,
                           result |-> Verify(check.status, SnapshotFor(check.status))]}
    /\ check' = NoCheck
    /\ UNCHANGED <<vars, latest>>

\* A step of the lifecycle itself; a new snapshot becomes the latest.
LifecycleStep ==
    /\ Serve \/ DatasetGrows
    /\ latest' = IF snapshots' = snapshots THEN latest
          ELSE CHOOSE key \in Keys : snapshots'[key] # snapshots[key]
    /\ UNCHANGED <<rows, check>>

Restart ==
    /\ check # NoCheck \/ \E w \in Workers : req[w] # Idle
    /\ check' = NoCheck /\ req' = [w \in Workers |-> Idle]
    /\ UNCHANGED <<lifecycle, evidence, snapshots, version, latest, rows>>

LInit == Init /\ latest = NoKey /\ rows = {} /\ check = NoCheck

LNext == LifecycleStep \/ BeginCheck \/ RecordCheck \/ Restart

LSpec == LInit /\ [][LNext]_lvars

-----------------------------------------------------------------------------
\* Every variable of the verifier holds a value of its type.
VerifierTypeOK ==
    /\ latest \in Keys \cup {NoKey}
    /\ rows \subseteq [sources : Sources, result : Results]
    /\ check \in Sources \cup {NoCheck}

\* docs/SPRINT_25_04: a record is judged against what it stored.  Neither
\* dataset growth nor the transitions themselves make the verifier fail an
\* untouched VALIDATED or RETIRED lineage.
TransitionsVerify ==
    \A row \in rows :
        row.sources.status # "CONTRACT_VALID" => row.result = "PASSED"

\* A check in progress on a promoted strategy is about its one promotion.
CheckSound ==
    check # NoCheck /\ check.status # "CONTRACT_VALID" =>
        /\ status # "CONTRACT_VALID" /\ check.eligibility = promotion
        /\ check.status = "RETIRED" => status = "RETIRED"

\* The conjunction that every step preserves, beside IInv of the lifecycle.
VerifierInv == VerifierTypeOK /\ TransitionsVerify /\ CheckSound
=============================================================================
