------------------------- MODULE ValidationLifecycle -------------------------
(***************************************************************************)
(* The historical-validation lifecycle of one generic StrategyVersion:     *)
(* combined evidence decisions, the owner's acknowledgement, the           *)
(* materialized evidence verification, eligibility snapshots, promotion    *)
(* to VALIDATED and retirement (generic_evidence_*.py,                     *)
(* generic_validation_*.py).                                               *)
(*                                                                         *)
(* A request reads the strategy once: the session keeps that row, so what  *)
(* it knows of the status is as old as its first read, while every query   *)
(* for a confirmation, a verification or the dataset is fresh.  INSERT and *)
(* conditional UPDATE of one transaction are one step.                     *)
(***************************************************************************)
EXTENDS Integers, FiniteSets

CONSTANTS
    Decisions,  \* pairs of OOS and robustness evidence a decision can combine
    SourceOutcomes, \* what OOS gate and stability can find
    Reasons,    \* normalized retirement reasons
    MaxVersion, \* bound: how often the registered dataset grows
    Workers,    \* requests the service can have in flight
    NoKey, NoReason, NoDecision

ASSUME LifecycleAssumption ==
    /\ MaxVersion \in Nat
    /\ SourceOutcomes \subseteq {"PASS", "FAIL", "INSUFFICIENT_EVIDENCE"}
    /\ NoReason \notin Reasons /\ NoDecision \notin Decisions
    /\ NoKey \notin [decision : Decisions, status : {"CONTRACT_VALID", "VALIDATED", "RETIRED"},
                     confirmed : BOOLEAN, verified : BOOLEAN]

VARIABLES
    status,       \* StrategyVersion.status
    promotion,    \* StrategyVersion.generic_validation_promotion_id
    decisions,    \* outcome of each recorded decision
    confirmed,    \* decisions the owner has acknowledged
    verification, \* the one evidence verification of a decision
    snapshots,    \* eligibility snapshots: the status recorded for each source state
    promotions,   \* committed promotions, named by their eligibility snapshot
    retirement,   \* reason of the retirement row
    version,      \* live fingerprint of the registered dataset
    req           \* the request each worker is serving

evidence == <<decisions, confirmed, verification>>
lifecycle == <<status, promotion, promotions, retirement>>
vars == <<lifecycle, evidence, snapshots, version, req>>

Statuses == {"CONTRACT_VALID", "VALIDATED", "RETIRED"}
Outcomes == {"PASS", "FAIL", "INSUFFICIENT_EVIDENCE"}
Versions == 0..MaxVersion

Combine(oos, robustness) ==
    IF "INSUFFICIENT_EVIDENCE" \in {oos, robustness} THEN "INSUFFICIENT_EVIDENCE"
    ELSE IF {oos, robustness} = {"PASS"} THEN "PASS" ELSE "FAIL"

Verifications == [result : {"NONE", "PASSED", "FAILED"}, version : Versions]
Unverified == [result |-> "NONE", version |-> 0]

\* What an eligibility fingerprint hashes: rows are immutable, so it tells
\* apart the strategy's status and the presence of the two artifacts.
Keys == [decision : Decisions, status : Statuses,
         confirmed : BOOLEAN, verified : BOOLEAN]

Idle == [step |-> "idle", decision |-> NoDecision, key |-> NoKey,
         status |-> "CONTRACT_VALID", version |-> 0, reason |-> NoReason]

RequestStates ==
    [step : {"idle", "decide", "verify", "assess", "recheck", "promote", "retire"},
     decision : Decisions \cup {NoDecision}, key : Keys \cup {NoKey},
     status : Statuses, version : Versions, reason : Reasons \cup {NoReason}]

-----------------------------------------------------------------------------
\* The fingerprint of the sources as they are, for a request that read the
\* strategy in status "seen".
Fingerprint(d, seen) ==
    [decision |-> d, status |-> seen,
     confirmed |-> d \in confirmed, verified |-> verification[d].result # "NONE"]

\* The five checks.  The verifier is exact only while the dataset is still
\* what it was fingerprinted with.
Eligible(d, seen) ==
    /\ decisions[d] = "PASS"
    /\ d \in confirmed
    /\ verification[d].result = "PASSED" /\ verification[d].version = version
    /\ seen = "CONTRACT_VALID"

Begin(w, fields) == req[w].step = "idle" /\ req' = [req EXCEPT ![w] = fields]

Respond(w, from) == req[w].step = from /\ req' = [req EXCEPT ![w] = Idle]

-----------------------------------------------------------------------------
(* Evidence *)

BeginDecide(w, d) ==
    /\ status # "RETIRED"
    /\ decisions[d] = "NONE"
    /\ Begin(w, [Idle EXCEPT !.step = "decide", !.decision = d])
    /\ UNCHANGED <<lifecycle, evidence, snapshots, version>>

\* One row per pair of source evidence.
RecordDecision(w) ==
    /\ Respond(w, "decide")
    /\ \E oos, robustness \in SourceOutcomes :
          decisions' = IF decisions[req[w].decision] = "NONE"
             THEN [decisions EXCEPT ![req[w].decision] = Combine(oos, robustness)]
             ELSE decisions
    /\ UNCHANGED <<lifecycle, confirmed, verification, snapshots, version>>

\* The owner's acknowledgement of a recorded decision; exact retries reuse it.
Confirm(d) ==
    /\ decisions[d] # "NONE"
    /\ confirmed' = confirmed \cup {d}
    /\ UNCHANGED <<lifecycle, decisions, verification, snapshots, version, req>>

\* The fingerprint of strategy and dataset is taken first.
BeginVerify(w, d) ==
    /\ decisions[d] # "NONE" /\ verification[d].result = "NONE"
    /\ Begin(w, [Idle EXCEPT !.step = "verify", !.decision = d,
                             !.status = status, !.version = version])
    /\ UNCHANGED <<lifecycle, evidence, snapshots, version>>

\* An untouched chain passes all checks but, once the strategy is promoted,
\* lifecycle_safety.
VerificationBy(r) ==
    [result |-> IF r.status = "CONTRACT_VALID" THEN "PASSED" ELSE "FAILED",
     version |-> r.version]

\* Slip: a second verification replaces the first.
RecordVerificationAgain(w) ==
    /\ Respond(w, "verify")
    /\ verification' = [verification EXCEPT ![req[w].decision] =
             VerificationBy(req[w])]
    /\ UNCHANGED <<lifecycle, decisions, confirmed, snapshots, version>>

\* One verification per decision.
RecordVerification(w) ==
    /\ Respond(w, "verify")
    /\ verification' = IF verification[req[w].decision].result # "NONE" THEN verification
          ELSE [verification EXCEPT ![req[w].decision] =
             VerificationBy(req[w])]
    /\ UNCHANGED <<lifecycle, decisions, confirmed, snapshots, version>>

-----------------------------------------------------------------------------
(* Eligibility: the fingerprint is computed, then the assessment *)

BeginAssess(w, d) ==
    /\ decisions[d] # "NONE"
    /\ snapshots[Fingerprint(d, status)] = "NONE"
    /\ Begin(w, [Idle EXCEPT !.step = "assess", !.key = Fingerprint(d, status)])
    /\ UNCHANGED <<lifecycle, evidence, snapshots, version>>

\* The assessment reads again what the fingerprint has hashed.
RecordSnapshot(w) ==
    /\ Respond(w, "assess")
    /\ LET key == req[w].key IN
       snapshots' = IF snapshots[key] # "NONE" THEN snapshots
          ELSE [snapshots EXCEPT ![key] =
             IF Eligible(key.decision, key.status) THEN "ELIGIBLE" ELSE "INELIGIBLE"]
    /\ UNCHANGED <<lifecycle, evidence, version>>

-----------------------------------------------------------------------------
(* Promotion: authorize, recheck, insert and compare-and-set *)

BeginPromote(w, key) ==
    /\ snapshots[key] = "ELIGIBLE" /\ key \notin promotions
    /\ decisions[key.decision] = "PASS"
    /\ status = "CONTRACT_VALID"
    /\ Begin(w, [Idle EXCEPT !.step = "recheck", !.key = key])
    /\ UNCHANGED <<lifecycle, evidence, snapshots, version>>

\* Slip: only the assessment is repeated, not the fingerprint.
RecheckAssessment(key) == Eligible(key.decision, "CONTRACT_VALID")

\* The sources still have the snapshot's fingerprint and its assessment.
StillExact(key) ==
    /\ Fingerprint(key.decision, "CONTRACT_VALID") = key
    /\ Eligible(key.decision, "CONTRACT_VALID")

Recheck(w) ==
    /\ req[w].step = "recheck"
    /\ StillExact(req[w].key)
    /\ req' = [req EXCEPT ![w].step = "promote"]
    /\ UNCHANGED <<lifecycle, evidence, snapshots, version>>

RejectStale(w) ==
    /\ Respond(w, "recheck")
    /\ ~StillExact(req[w].key)
    /\ UNCHANGED <<lifecycle, evidence, snapshots, version>>

Promote(key) ==
    /\ promotions' = promotions \cup {key}
    /\ status' = "VALIDATED"
    /\ promotion' = key
    /\ UNCHANGED retirement

\* The row is unique per snapshot and the UPDATE must find CONTRACT_VALID;
\* otherwise the transaction rolls back.
CommitPromotion(w) ==
    /\ Respond(w, "promote")
    /\ IF req[w].key \notin promotions /\ status = "CONTRACT_VALID"
          THEN Promote(req[w].key) ELSE UNCHANGED lifecycle
    /\ UNCHANGED <<evidence, snapshots, version>>

-----------------------------------------------------------------------------
(* Retirement *)

BeginRetire(w, reason) ==
    /\ promotion \in promotions /\ snapshots[promotion] = "ELIGIBLE"
    /\ decisions[promotion.decision] = "PASS"
    /\ status = "VALIDATED"
    /\ Begin(w, [Idle EXCEPT !.step = "retire", !.key = promotion, !.reason = reason])
    /\ UNCHANGED <<lifecycle, evidence, snapshots, version>>

\* Slip: neither the row's uniqueness nor the status is asked for.
CommitRetirementUnconditional(w) ==
    /\ Respond(w, "retire")
    /\ status' = "RETIRED" /\ retirement' = req[w].reason
    /\ UNCHANGED <<promotion, promotions, evidence, snapshots, version>>

\* One row per strategy; the UPDATE must find VALIDATED with this promotion.
CommitRetirement(w) ==
    /\ Respond(w, "retire")
    /\ IF retirement = NoReason /\ status = "VALIDATED" /\ promotion = req[w].key
          THEN status' = "RETIRED" /\ retirement' = req[w].reason
          ELSE UNCHANGED <<status, retirement>>
    /\ UNCHANGED <<promotion, promotions, evidence, snapshots, version>>

-----------------------------------------------------------------------------
\* A market-data sync appends bars to the registered dataset.
DatasetGrows ==
    /\ version < MaxVersion
    /\ version' = version + 1
    /\ UNCHANGED <<lifecycle, evidence, snapshots, req>>

\* The service restarts; committed rows stay.
Crash ==
    /\ \E w \in Workers : req[w] # Idle
    /\ req' = [w \in Workers |-> Idle]
    /\ UNCHANGED <<lifecycle, evidence, snapshots, version>>

Init ==
    /\ status = "CONTRACT_VALID" /\ promotion = NoKey
    /\ promotions = {} /\ retirement = NoReason
    /\ decisions = [d \in Decisions |-> "NONE"]
    /\ confirmed = {}
    /\ verification = [d \in Decisions |-> Unverified]
    /\ snapshots = [key \in Keys |-> "NONE"]
    /\ version = 0
    /\ req = [w \in Workers |-> Idle]

Evidence(w) ==
    \/ \E d \in Decisions : BeginDecide(w, d) \/ BeginVerify(w, d) \/ BeginAssess(w, d)
    \/ RecordDecision(w) \/ RecordVerification(w) \/ RecordSnapshot(w)

Transition(w) ==
    \/ \E key \in Keys : BeginPromote(w, key)
    \/ Recheck(w) \/ RejectStale(w) \/ CommitPromotion(w)
    \/ \E reason \in Reasons : BeginRetire(w, reason)
    \/ CommitRetirement(w)

Serve ==
    \/ \E w \in Workers : Evidence(w) \/ Transition(w)
    \/ \E d \in Decisions : Confirm(d)

Next == Serve \/ DatasetGrows \/ Crash

Spec == Init /\ [][Next]_vars

-----------------------------------------------------------------------------
(* Safety *)

\* Every variable holds a value of its type.
TypeOK ==
    /\ status \in Statuses /\ promotion \in Keys \cup {NoKey}
    /\ promotions \subseteq Keys /\ retirement \in Reasons \cup {NoReason}
    /\ decisions \in [Decisions -> Outcomes \cup {"NONE"}]
    /\ confirmed \subseteq Decisions
    /\ verification \in [Decisions -> Verifications]
    /\ snapshots \in [Keys -> {"NONE", "ELIGIBLE", "INELIGIBLE"}]
    /\ version \in Versions
    /\ req \in [Workers -> RequestStates]

\* A passing decision, acknowledged, with a verification that passed.
Complete(d) ==
    decisions[d] = "PASS" /\ d \in confirmed /\ verification[d].result = "PASSED"

\* FAIL and INSUFFICIENT_EVIDENCE have no promotion path, and neither has a
\* chain without acknowledgement or verifier: an ELIGIBLE snapshot is never
\* recorded for one, whatever lands between its fingerprint and its result.
EligibilityHasGround ==
    \A key \in Keys : snapshots[key] = "ELIGIBLE" =>
        Complete(key.decision) /\ key.status = "CONTRACT_VALID"

\* The lifecycle verifier's promotion_lineage: a promotion exists exactly for
\* VALIDATED and RETIRED, it is the only one, and its snapshot was taken of
\* the acknowledged and verified chain itself.
PromotionIsExact ==
    /\ status = "CONTRACT_VALID" => promotions = {} /\ promotion = NoKey
    /\ status # "CONTRACT_VALID" =>
          /\ promotions = {promotion} /\ promotion \in Keys
          /\ snapshots[promotion] = "ELIGIBLE"
          /\ promotion.confirmed /\ promotion.verified

\* The lifecycle verifier's retirement_lineage: a retirement exists exactly
\* and only for RETIRED.
RetirementIsExact == status = "RETIRED" <=> retirement # NoReason

\* What a request can rely on at each step.
RequestSound(r) ==
    /\ r.step \in {"decide", "verify"} => r.decision \in Decisions
    /\ r.step = "assess" => r.key \in Keys
    /\ r.step \in {"recheck", "promote"} =>
          r.key \in Keys /\ snapshots[r.key] = "ELIGIBLE"
    /\ r.step = "promote" => r.key.confirmed /\ r.key.verified
    /\ r.step = "retire" => r.reason \in Reasons /\ status # "CONTRACT_VALID"

\* The conjunction that every step preserves.
IInv ==
    /\ TypeOK
    /\ EligibilityHasGround
    /\ PromotionIsExact
    /\ RetirementIsExact
    /\ \A w \in Workers : RequestSound(req[w])

-----------------------------------------------------------------------------
(* Action properties *)

\* Forward only, one transition at a time, the first promotion and the first
\* reason kept: racing promotions of different snapshots and racing
\* retirements with different reasons leave one winner.
ForwardOnly ==
    [][/\ status' # status =>
             <<status, status'>> \in {<<"CONTRACT_VALID", "VALIDATED">>,
                                      <<"VALIDATED", "RETIRED">>}
       /\ status # "CONTRACT_VALID" =>
             promotion' = promotion /\ promotions' = promotions
       /\ retirement # NoReason => retirement' = retirement]_vars

\* Recorded evidence is never rewritten: a late writer or a retry keeps the
\* decision, the acknowledgement, the verification and every snapshot.
EvidenceIsImmutable ==
    [][/\ \A d \in Decisions :
             /\ decisions[d] # "NONE" => decisions'[d] = decisions[d]
             /\ verification[d].result # "NONE" => verification'[d] = verification[d]
       /\ confirmed \subseteq confirmed'
       /\ \A key \in Keys : snapshots[key] # "NONE" => snapshots'[key] = snapshots[key]]_vars
=============================================================================
