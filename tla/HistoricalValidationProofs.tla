--------------------- MODULE HistoricalValidationProofs ---------------------
(***************************************************************************)
(* Proofs about the two halves of the historical validation, which share   *)
(* no state.                                                               *)
(*                                                                         *)
(* The first part, for any number of decisions, retirement reasons,        *)
(* dataset versions and requests in flight: the safety invariants and      *)
(* action properties of ValidationLifecycle and, from its invariant, of    *)
(* the verifier that LifecycleVerification puts beside it.                 *)
(*                                                                         *)
(* The second part, for any contracts, calendars, context candles and      *)
(* market: the safety invariants of CandleReplay.  It goes from lemmas     *)
(* about extremes, sums, chosen subsequences and windows, over the         *)
(* operators of CandleRules, to the inductive invariant ReplayInv (what    *)
(* the kernel remembers of the candles it has been fed), and from there to *)
(* the two facts a replay is trusted for: Answered (a signal is answered   *)
(* as if the whole split were there) and Ledgered (the trades so far are   *)
(* those of the legacy loop).                                              *)
(***************************************************************************)
EXTENDS CandleReplay, LifecycleVerification, FiniteSetTheorems, SequenceTheorems, TLAPS

LEMMA IdleSound == Idle \in RequestStates /\ Idle.step = "idle" /\ RequestSound(Idle)
BY LifecycleAssumption DEF Idle, RequestStates, Statuses, Versions, RequestSound

LEMMA FingerprintIsKey ==
    ASSUME NEW d \in Decisions, NEW seen \in Statuses
    PROVE  Fingerprint(d, seen) \in Keys
<1>1. ASSUME NEW a \in BOOLEAN, NEW b \in BOOLEAN
      PROVE  [decision |-> d, status |-> seen, confirmed |-> a, verified |-> b] \in Keys
    BY DEF Keys
<1>2. (d \in confirmed) \in BOOLEAN /\ (verification[d].result # "NONE") \in BOOLEAN
    OBVIOUS
<1> QED BY <1>1, <1>2, Zenon DEF Fingerprint

\* A step that changes one request and no row.
LEMMA RequestStep ==
    ASSUME IInv, NEW w \in Workers, NEW r \in RequestStates, RequestSound(r),
           req' = [req EXCEPT ![w] = r],
           UNCHANGED <<lifecycle, evidence, snapshots, version>>
    PROVE  IInv'
<1>1. TypeOK'
    BY DEF IInv, TypeOK, lifecycle, evidence
<1>2. EligibilityHasGround' /\ PromotionIsExact' /\ RetirementIsExact'
    BY DEF IInv, EligibilityHasGround, PromotionIsExact, RetirementIsExact,
           Complete, lifecycle, evidence
<1>3. \A v \in Workers : RequestSound(req'[v])
    BY DEF IInv, TypeOK
<1>4. \A v \in Workers : RequestSound(req[v])'
    BY <1>3 DEF RequestSound, lifecycle
<1> QED BY <1>1, <1>2, <1>4 DEF IInv

\* What commits takes nothing from a request in flight: a snapshot stays
\* ELIGIBLE and the status never returns to CONTRACT_VALID.
LEMMA RowsGrow ==
    ASSUME IInv,
           req' = req \/ \E w \in Workers : req' = [req EXCEPT ![w] = Idle],
           \A key \in Keys : snapshots[key] = "ELIGIBLE" => snapshots'[key] = "ELIGIBLE",
           status # "CONTRACT_VALID" => status' # "CONTRACT_VALID"
    PROVE  /\ req' \in [Workers -> RequestStates]
           /\ \A v \in Workers : RequestSound(req[v])'
<1>1. req' \in [Workers -> RequestStates] /\ \A v \in Workers : req'[v] \in {req[v], Idle}
    BY IdleSound DEF IInv, TypeOK
<1>2. \A v \in Workers : RequestSound(req'[v])
    BY <1>1, IdleSound DEF IInv
<1> QED BY <1>1, <1>2 DEF RequestSound

\* An append to the evidence of a decision keeps every ELIGIBLE snapshot sound.
LEMMA EvidenceStep ==
    ASSUME IInv,
           req' = req \/ \E w \in Workers : req' = [req EXCEPT ![w] = Idle],
           UNCHANGED <<lifecycle, snapshots>>,
           decisions' \in [Decisions -> Outcomes \cup {"NONE"}],
           confirmed' \subseteq Decisions,
           verification' \in [Decisions -> Verifications],
           version' \in Versions,
           \A d \in Decisions : Complete(d) => Complete(d)'
    PROVE  IInv'
<1>1. req' \in [Workers -> RequestStates] /\ \A v \in Workers : RequestSound(req[v])'
    BY RowsGrow DEF lifecycle
<1>2. TypeOK'
    BY <1>1 DEF IInv, TypeOK, lifecycle
<1>3. EligibilityHasGround'
    <2> SUFFICES ASSUME NEW key \in Keys, snapshots[key] = "ELIGIBLE"
                 PROVE  Complete(key.decision)' /\ key.status = "CONTRACT_VALID"
        BY DEF EligibilityHasGround
    <2>1. key.decision \in Decisions
        BY DEF Keys
    <2> QED BY <2>1 DEF IInv, EligibilityHasGround
<1>4. PromotionIsExact' /\ RetirementIsExact'
    BY DEF IInv, PromotionIsExact, RetirementIsExact, lifecycle
<1> QED BY <1>1, <1>2, <1>3, <1>4 DEF IInv

-----------------------------------------------------------------------------
(* Initial states and requests that begin *)

LEMMA InitIInv == Init => IInv
<1> SUFFICES ASSUME Init PROVE IInv
    OBVIOUS
<1>1. TypeOK
    <2>1. req \in [Workers -> RequestStates]
        BY IdleSound DEF Init
    <2>2. snapshots \in [Keys -> {"NONE", "ELIGIBLE", "INELIGIBLE"}]
        BY DEF Init
    <2>3. verification \in [Decisions -> Verifications] /\ version \in Versions
        BY LifecycleAssumption DEF Init, Verifications, Unverified, Versions
    <2> QED BY <2>1, <2>2, <2>3 DEF Init, TypeOK, Statuses
<1>2. EligibilityHasGround /\ PromotionIsExact /\ RetirementIsExact
    BY DEF Init, EligibilityHasGround, PromotionIsExact, RetirementIsExact
<1>3. \A w \in Workers : RequestSound(req[w])
    BY IdleSound DEF Init
<1> QED BY <1>1, <1>2, <1>3 DEF IInv

LEMMA EvidenceBegins ==
    ASSUME IInv, NEW w \in Workers, NEW d \in Decisions,
           BeginDecide(w, d) \/ BeginVerify(w, d) \/ BeginAssess(w, d)
    PROVE  IInv'
<1>1. status \in Statuses /\ version \in Versions
    BY DEF IInv, TypeOK
<1>2. CASE BeginDecide(w, d)
    <2> DEFINE r == [Idle EXCEPT !.step = "decide", !.decision = d]
    <2>1. r \in RequestStates
        BY IdleSound DEF RequestStates
    <2>2. r.step = "decide" /\ r.decision = d
        BY DEF Idle
    <2>3. RequestSound(r)
        BY <2>2 DEF RequestSound
    <2> QED BY <1>2, <2>1, <2>3, RequestStep DEF BeginDecide, Begin
<1>3. CASE BeginVerify(w, d)
    <2> DEFINE r == [Idle EXCEPT !.step = "verify", !.decision = d,
                                 !.status = status, !.version = version]
    <2>1. r \in RequestStates
        BY <1>1, IdleSound DEF RequestStates
    <2>2. r.step = "verify" /\ r.decision = d
        BY DEF Idle
    <2>3. RequestSound(r)
        BY <2>2 DEF RequestSound
    <2> QED BY <1>3, <2>1, <2>3, RequestStep DEF BeginVerify, Begin
<1>4. CASE BeginAssess(w, d)
    <2> DEFINE key == Fingerprint(d, status)
               r == [Idle EXCEPT !.step = "assess", !.key = key]
    <2>1. key \in Keys
        BY <1>1, FingerprintIsKey DEF IInv
    <2>2. req' = [req EXCEPT ![w] = r]
        BY <1>4 DEF BeginAssess, Begin
    <2> HIDE DEF key
    <2>3. r \in RequestStates
        BY <2>1, IdleSound DEF RequestStates
    <2>4. r.step = "assess" /\ r.key = key
        BY DEF Idle
    <2>5. RequestSound(r)
        BY <2>1, <2>4 DEF RequestSound
    <2> QED BY <1>4, <2>2, <2>3, <2>5, RequestStep DEF BeginAssess
<1> QED BY <1>2, <1>3, <1>4

LEMMA TransitionBegins ==
    ASSUME IInv, NEW w \in Workers,
           \/ \E key \in Keys : BeginPromote(w, key)
           \/ \E reason \in Reasons : BeginRetire(w, reason)
    PROVE  IInv'
<1>1. ASSUME NEW key \in Keys, BeginPromote(w, key)
      PROVE  IInv'
    <2> DEFINE r == [Idle EXCEPT !.step = "recheck", !.key = key]
    <2>1. r \in RequestStates
        BY IdleSound DEF RequestStates
    <2>2. r.step = "recheck" /\ r.key = key
        BY DEF Idle
    <2>3. RequestSound(r)
        BY <1>1, <2>2 DEF RequestSound, BeginPromote
    <2> QED BY <1>1, <2>1, <2>3, RequestStep DEF BeginPromote, Begin
<1>2. ASSUME NEW reason \in Reasons, BeginRetire(w, reason)
      PROVE  IInv'
    <2> DEFINE r == [Idle EXCEPT !.step = "retire", !.key = promotion, !.reason = reason]
    <2>1. promotion \in Keys
        BY <1>2 DEF BeginRetire, IInv, TypeOK
    <2>2. r \in RequestStates
        BY <2>1, IdleSound DEF RequestStates
    <2>3. r.step = "retire" /\ r.reason = reason
        BY DEF Idle
    <2>4. RequestSound(r)
        BY <1>2, <2>3 DEF RequestSound, BeginRetire
    <2> QED BY <1>2, <2>2, <2>4, RequestStep DEF BeginRetire, Begin
<1> QED BY <1>1, <1>2

\* The recheck: the fingerprint is that of an acknowledged, verified chain.
LEMMA RecheckStep ==
    ASSUME IInv, NEW w \in Workers, Recheck(w) \/ RejectStale(w)
    PROVE  IInv'
<1>1. CASE RejectStale(w)
    BY <1>1, IdleSound, RequestStep DEF RejectStale, Respond
<1>2. CASE Recheck(w)
    <2>1. PICK r \in RequestStates : r = [req[w] EXCEPT !.step = "promote"]
        BY DEF IInv, TypeOK, RequestStates
    <2>2. r.step = "promote" /\ r.key = req[w].key
        BY <2>1 DEF IInv, TypeOK, RequestStates
    <2>3. req[w].key \in Keys /\ snapshots[req[w].key] = "ELIGIBLE"
        BY <1>2 DEF IInv, RequestSound, Recheck
    <2>4. req[w].key.decision \in Decisions
        BY <2>3 DEF Keys
    <2>5. /\ req[w].key.decision \in confirmed
          /\ verification[req[w].key.decision].result = "PASSED"
          /\ req[w].key = Fingerprint(req[w].key.decision, "CONTRACT_VALID")
        BY <1>2 DEF Recheck, StillExact, Eligible
    <2>6. verification[req[w].key.decision].result # "NONE"
        BY <2>5
    <2>7. req[w].key.confirmed /\ req[w].key.verified
        <3> DEFINE d == req[w].key.decision
        <3>1. Fingerprint(d, "CONTRACT_VALID").confirmed = (d \in confirmed)
            BY DEF Fingerprint
        <3>2. Fingerprint(d, "CONTRACT_VALID").verified = (verification[d].result # "NONE")
            BY DEF Fingerprint
        <3> QED BY <2>5, <2>6, <3>1, <3>2
    <2>8. RequestSound(r)
        BY <2>2, <2>3, <2>7 DEF RequestSound
    <2> QED BY <1>2, <2>1, <2>8, RequestStep DEF Recheck
<1> QED BY <1>1, <1>2

-----------------------------------------------------------------------------
(* Rows *)

LEMMA EvidenceRecorded ==
    ASSUME IInv,
           \/ \E w \in Workers : RecordDecision(w) \/ RecordVerification(w)
           \/ \E d \in Decisions : Confirm(d)
           \/ DatasetGrows
    PROVE  IInv'
<1>1. ASSUME NEW w \in Workers, RecordDecision(w) PROVE IInv'
    <2>1. PICK oos \in SourceOutcomes, robustness \in SourceOutcomes :
              decisions' = IF decisions[req[w].decision] = "NONE"
                 THEN [decisions EXCEPT ![req[w].decision] = Combine(oos, robustness)]
                 ELSE decisions
        BY <1>1 DEF RecordDecision
    <2>2. Combine(oos, robustness) \in Outcomes
        BY DEF Combine, Outcomes
    <2>3. decisions' \in [Decisions -> Outcomes \cup {"NONE"}]
        BY <2>1, <2>2 DEF IInv, TypeOK
    <2>4. \A d \in Decisions : decisions[d] # "NONE" => decisions'[d] = decisions[d]
        BY <2>1 DEF IInv, TypeOK
    <2>5. \A d \in Decisions : Complete(d) => Complete(d)'
        BY <1>1, <2>4 DEF Complete, RecordDecision
    <2> QED BY <1>1, <2>3, <2>5, EvidenceStep DEF RecordDecision, Respond, IInv, TypeOK
<1>2. ASSUME NEW w \in Workers, RecordVerification(w) PROVE IInv'
    <2> DEFINE row == VerificationBy(req[w])
    <2>1. row \in Verifications
        BY DEF IInv, TypeOK, RequestStates, Verifications, VerificationBy
    <2>2. verification' = IF verification[req[w].decision].result # "NONE" THEN verification
              ELSE [verification EXCEPT ![req[w].decision] = row]
        BY <1>2 DEF RecordVerification
    <2> HIDE DEF row
    <2>3. verification' \in [Decisions -> Verifications]
        BY <2>1, <2>2 DEF IInv, TypeOK
    <2>4. \A d \in Decisions :
              verification[d].result # "NONE" => verification'[d] = verification[d]
        BY <2>2 DEF IInv, TypeOK
    <2>6. \A d \in Decisions : Complete(d) => Complete(d)'
        BY <1>2, <2>4 DEF Complete, RecordVerification
    <2> QED BY <1>2, <2>3, <2>6, EvidenceStep DEF RecordVerification, Respond, IInv, TypeOK
<1>3. ASSUME NEW d \in Decisions, Confirm(d) PROVE IInv'
    <2>1. \A e \in Decisions : Complete(e) => Complete(e)'
        BY <1>3 DEF Complete, Confirm
    <2> QED BY <1>3, <2>1, EvidenceStep DEF Confirm, IInv, TypeOK
<1>4. CASE DatasetGrows
    <2>1. version' \in Versions
        BY <1>4, LifecycleAssumption DEF DatasetGrows, IInv, TypeOK, Versions
    <2>2. \A e \in Decisions : Complete(e) => Complete(e)'
        BY <1>4 DEF Complete, DatasetGrows, evidence
    <2> QED BY <1>4, <2>1, <2>2, EvidenceStep DEF DatasetGrows, evidence, IInv, TypeOK
<1> QED BY <1>1, <1>2, <1>3, <1>4

\* Whatever lands between fingerprint and assessment, an ELIGIBLE result is
\* recorded only for complete evidence.
LEMMA SnapshotRecorded ==
    ASSUME IInv, NEW w \in Workers, RecordSnapshot(w)
    PROVE  IInv'
<1> DEFINE key == req[w].key
<1>1. key \in Keys
    BY DEF RecordSnapshot, Respond, IInv, RequestSound
<1>2. PICK result \in {"ELIGIBLE", "INELIGIBLE"} :
          /\ result = "ELIGIBLE" => Eligible(key.decision, key.status)
          /\ snapshots' = IF snapshots[key] # "NONE" THEN snapshots
                             ELSE [snapshots EXCEPT ![key] = result]
    BY DEF RecordSnapshot
<1>3. UNCHANGED <<lifecycle, evidence, version>> /\ req' = [req EXCEPT ![w] = Idle]
    BY DEF RecordSnapshot, Respond
<1> HIDE DEF key
<1>4. snapshots' \in [Keys -> {"NONE", "ELIGIBLE", "INELIGIBLE"}]
    BY <1>2 DEF IInv, TypeOK
<1>5. \A k \in Keys : snapshots[k] = "ELIGIBLE" => snapshots'[k] = "ELIGIBLE"
    BY <1>1, <1>2 DEF IInv, TypeOK
<1>6. req' \in [Workers -> RequestStates] /\ \A v \in Workers : RequestSound(req[v])'
    BY <1>3, <1>5, RowsGrow DEF lifecycle
<1>7. TypeOK'
    BY <1>3, <1>4, <1>6 DEF IInv, TypeOK, lifecycle, evidence
<1>8. EligibilityHasGround'
    <2> SUFFICES ASSUME NEW k \in Keys, snapshots'[k] = "ELIGIBLE"
                 PROVE  Complete(k.decision) /\ k.status = "CONTRACT_VALID"
        BY <1>3 DEF EligibilityHasGround, Complete, evidence
    <2>1. CASE snapshots[k] = "ELIGIBLE"
        BY <2>1 DEF IInv, EligibilityHasGround
    <2>2. CASE snapshots[k] # "ELIGIBLE"
        <3>1. k = key /\ result = "ELIGIBLE"
            BY <1>1, <1>2, <2>2 DEF IInv, TypeOK
        <3> QED BY <1>2, <3>1 DEF Eligible, Complete
    <2> QED BY <2>1, <2>2
<1>9. PromotionIsExact' /\ RetirementIsExact'
    BY <1>3, <1>5 DEF IInv, PromotionIsExact, RetirementIsExact, lifecycle
<1> QED BY <1>6, <1>7, <1>8, <1>9 DEF IInv

\* The compare-and-set leaves at most one promotion, whoever wins.
LEMMA PromotionCommitted ==
    ASSUME IInv, NEW w \in Workers, CommitPromotion(w)
    PROVE  IInv'
<1>1. /\ req[w].key \in Keys /\ snapshots[req[w].key] = "ELIGIBLE"
      /\ req[w].key.confirmed /\ req[w].key.verified
    BY DEF CommitPromotion, Respond, IInv, RequestSound
<1>2. UNCHANGED <<evidence, snapshots, version>> /\ req' = [req EXCEPT ![w] = Idle]
    BY DEF CommitPromotion, Respond
<1>3. CASE UNCHANGED lifecycle
    BY <1>2, <1>3, IdleSound, RequestStep
<1>4. CASE status = "CONTRACT_VALID" /\ Promote(req[w].key)
    <2>1. req' \in [Workers -> RequestStates] /\ \A v \in Workers : RequestSound(req[v])'
        BY <1>2, <1>4, RowsGrow DEF Promote
    <2>2. TypeOK'
        BY <1>1, <1>2, <1>4, <2>1 DEF IInv, TypeOK, Promote, evidence, Statuses
    <2>3. EligibilityHasGround'
        BY <1>2 DEF IInv, EligibilityHasGround, Complete, evidence
    <2>4. PromotionIsExact'
        BY <1>1, <1>2, <1>4 DEF IInv, PromotionIsExact, Promote
    <2>5. RetirementIsExact'
        BY <1>4 DEF IInv, RetirementIsExact, Promote
    <2> QED BY <2>1, <2>2, <2>3, <2>4, <2>5 DEF IInv
<1> QED BY <1>3, <1>4 DEF CommitPromotion

LEMMA RetirementCommitted ==
    ASSUME IInv, NEW w \in Workers, CommitRetirement(w)
    PROVE  IInv'
<1>1. req[w].reason \in Reasons
    BY DEF CommitRetirement, Respond, IInv, RequestSound
<1>2. /\ UNCHANGED <<promotion, promotions, evidence, snapshots, version>>
      /\ req' = [req EXCEPT ![w] = Idle]
    BY DEF CommitRetirement, Respond
<1>3. CASE UNCHANGED <<status, retirement>>
    BY <1>2, <1>3, IdleSound, RequestStep DEF lifecycle
<1>4. CASE status = "VALIDATED" /\ status' = "RETIRED" /\ retirement' = req[w].reason
    <2>1. req' \in [Workers -> RequestStates] /\ \A v \in Workers : RequestSound(req[v])'
        BY <1>2, <1>4, RowsGrow
    <2>2. TypeOK'
        BY <1>1, <1>2, <1>4, <2>1 DEF IInv, TypeOK, evidence, Statuses
    <2>3. EligibilityHasGround' /\ PromotionIsExact'
        BY <1>2, <1>4 DEF IInv, EligibilityHasGround, PromotionIsExact, Complete, evidence
    <2>4. RetirementIsExact'
        BY <1>1, <1>4, LifecycleAssumption DEF RetirementIsExact
    <2> QED BY <2>1, <2>2, <2>3, <2>4 DEF IInv
<1> QED BY <1>3, <1>4 DEF CommitRetirement

LEMMA CrashStep == ASSUME IInv, Crash PROVE IInv'
<1>1. UNCHANGED <<lifecycle, evidence, snapshots, version>>
      /\ req' = [w \in Workers |-> Idle]
    BY DEF Crash
<1>2. TypeOK'
    BY <1>1, IdleSound DEF IInv, TypeOK, lifecycle, evidence
<1>3. EligibilityHasGround' /\ PromotionIsExact' /\ RetirementIsExact'
    BY <1>1 DEF IInv, EligibilityHasGround, PromotionIsExact, RetirementIsExact,
           Complete, lifecycle, evidence
<1>4. \A w \in Workers : RequestSound(req[w])'
    BY <1>1, IdleSound DEF RequestSound
<1> QED BY <1>2, <1>3, <1>4 DEF IInv

-----------------------------------------------------------------------------
(* Theorems *)

LEMMA NextIInv == IInv /\ [Next]_vars => IInv'
<1> SUFFICES ASSUME IInv, [Next]_vars PROVE IInv'
    OBVIOUS
<1>1. ASSUME NEW w \in Workers, Evidence(w) PROVE IInv'
    BY <1>1, EvidenceBegins, EvidenceRecorded, SnapshotRecorded DEF Evidence
<1>2. ASSUME NEW w \in Workers, Transition(w) PROVE IInv'
    BY <1>2, TransitionBegins, RecheckStep, PromotionCommitted, RetirementCommitted
       DEF Transition
<1>3. CASE \E d \in Decisions : Confirm(d)
    BY <1>3, EvidenceRecorded
<1>4. CASE DatasetGrows
    BY <1>4, EvidenceRecorded
<1>5. CASE Crash
    BY <1>5, CrashStep
<1>6. CASE UNCHANGED vars
    BY <1>6 DEF vars, lifecycle, evidence, IInv, TypeOK, EligibilityHasGround,
        PromotionIsExact, RetirementIsExact, Complete, RequestSound
<1> QED BY <1>1, <1>2, <1>3, <1>4, <1>5, <1>6 DEF Next, Serve

\* The inductive invariant of the lifecycle.
THEOREM LifecycleInvariant == Spec => []IInv
BY InitIInv, NextIInv, PTL DEF Spec

\* FAIL, INSUFFICIENT_EVIDENCE and incomplete chains are never ELIGIBLE.
THEOREM EligibilitySafety == Spec => []EligibilityHasGround
<1>1. IInv => EligibilityHasGround
    BY DEF IInv
<1> QED BY <1>1, LifecycleInvariant, PTL

\* VALIDATED and RETIRED strategies have exactly one promotion, and it has its
\* ground; no other strategy has one.
THEOREM PromotionSafety == Spec => []PromotionIsExact
<1>1. IInv => PromotionIsExact
    BY DEF IInv
<1> QED BY <1>1, LifecycleInvariant, PTL

\* A retirement exists exactly and only for RETIRED.
THEOREM RetirementSafety == Spec => []RetirementIsExact
<1>1. IInv => RetirementIsExact
    BY DEF IInv
<1> QED BY <1>1, LifecycleInvariant, PTL

\* One step moves the lifecycle at most one transition forward.
LEMMA ForwardStep ==
    ASSUME IInv, Next
    PROVE  /\ status' # status =>
                 <<status, status'>> \in {<<"CONTRACT_VALID", "VALIDATED">>,
                                          <<"VALIDATED", "RETIRED">>}
           /\ status # "CONTRACT_VALID" =>
                 promotion' = promotion /\ promotions' = promotions
           /\ retirement # NoReason => retirement' = retirement
<1>1. CASE UNCHANGED lifecycle
    BY <1>1 DEF lifecycle
<1>2. CASE \E w \in Workers : CommitPromotion(w)
    BY <1>1, <1>2 DEF CommitPromotion, Promote
<1>3. CASE \E w \in Workers : CommitRetirement(w)
    BY <1>3 DEF CommitRetirement, lifecycle
<1>4. CASE \E w \in Workers : Evidence(w)
    BY <1>1, <1>4 DEF Evidence, BeginDecide, BeginVerify, BeginAssess, RecordDecision,
                RecordVerification, RecordSnapshot
<1>5. CASE \E w \in Workers : Transition(w)
    BY <1>1, <1>2, <1>3, <1>5 DEF Transition, BeginPromote, Recheck, RejectStale, BeginRetire
<1>6. CASE (\E d \in Decisions : Confirm(d)) \/ DatasetGrows \/ Crash
    BY <1>1, <1>6 DEF Confirm, DatasetGrows, Crash
<1> QED BY <1>4, <1>5, <1>6 DEF Next, Serve

\* The lifecycle only moves forward and keeps its first promotion and reason.
THEOREM ForwardOnlySafety == Spec => ForwardOnly
<1> DEFINE Forward ==
        /\ status' # status =>
              <<status, status'>> \in {<<"CONTRACT_VALID", "VALIDATED">>,
                                       <<"VALIDATED", "RETIRED">>}
        /\ status # "CONTRACT_VALID" =>
              promotion' = promotion /\ promotions' = promotions
        /\ retirement # NoReason => retirement' = retirement
<1>1. IInv /\ [Next]_vars => [Forward]_vars
    BY ForwardStep
<1> QED BY <1>1, LifecycleInvariant, PTL DEF Spec, ForwardOnly

\* Decisions, acknowledgements, verifications and snapshots are never rewritten.
THEOREM EvidenceSafety == Spec => EvidenceIsImmutable
<1> DEFINE Kept ==
        /\ \A d \in Decisions :
              /\ decisions[d] # "NONE" => decisions'[d] = decisions[d]
              /\ verification[d].result # "NONE" => verification'[d] = verification[d]
        /\ confirmed \subseteq confirmed'
        /\ \A key \in Keys : snapshots[key] # "NONE" => snapshots'[key] = snapshots[key]
<1>1. IInv /\ [Next]_vars => [Kept]_vars
    <2> SUFFICES ASSUME IInv, Next PROVE Kept
        OBVIOUS
    <2>1. CASE UNCHANGED <<evidence, snapshots>>
        BY <2>1 DEF evidence
    <2>2. ASSUME NEW w \in Workers, RecordDecision(w) PROVE Kept
        BY <2>2 DEF RecordDecision, IInv, TypeOK
    <2>3. ASSUME NEW w \in Workers, RecordVerification(w) PROVE Kept
        BY <2>3 DEF RecordVerification, IInv, TypeOK
    <2>4. ASSUME NEW w \in Workers, RecordSnapshot(w) PROVE Kept
        BY <2>4 DEF RecordSnapshot, IInv, TypeOK, evidence
    <2>5. CASE \E d \in Decisions : Confirm(d)
        BY <2>5 DEF Confirm
    <2>6. CASE \E w \in Workers : Transition(w)
        BY <2>1, <2>6 DEF Transition, BeginPromote, Recheck, RejectStale, CommitPromotion,
                    BeginRetire, CommitRetirement
    <2>7. CASE DatasetGrows \/ Crash
        BY <2>1, <2>7 DEF DatasetGrows, Crash
    <2>8. ASSUME NEW w \in Workers, Evidence(w) PROVE Kept
        BY <2>1, <2>2, <2>3, <2>4, <2>8 DEF Evidence, BeginDecide, BeginVerify, BeginAssess
    <2> QED BY <2>5, <2>6, <2>7, <2>8 DEF Next, Serve
<1> QED BY <1>1, LifecycleInvariant, PTL DEF Spec, EvidenceIsImmutable

-----------------------------------------------------------------------------
(* The verifier of the lifecycle *)

\* The verifier's own steps leave the lifecycle alone, and the others are
\* steps of the lifecycle.
LEMMA LifecycleBelow ==
    ASSUME IInv, [LNext]_lvars
    PROVE  Next \/ UNCHANGED vars
<1>1. CASE LifecycleStep
    BY <1>1 DEF LifecycleStep, Next
<1>2. CASE BeginCheck \/ RecordCheck \/ UNCHANGED lvars
    BY <1>2 DEF BeginCheck, RecordCheck, lvars
<1>3. CASE Restart
    <2>1. CASE \E w \in Workers : req[w] # Idle
        BY <1>3, <2>1 DEF Restart, Next, Crash
    <2>2. CASE \A w \in Workers : req[w] = Idle
        <3>1. req' = req
            BY <1>3, <2>2 DEF Restart, IInv, TypeOK
        <3> QED BY <1>3, <3>1 DEF Restart, vars, lifecycle, evidence
    <2> QED BY <2>1, <2>2
<1> QED BY <1>1, <1>2, <1>3 DEF LNext

\* A promoted or retired lineage passes, whatever the dataset has become.
LEMMA PromotedLineagePasses ==
    ASSUME IInv, NEW seen \in {"VALIDATED", "RETIRED"}, status # "CONTRACT_VALID",
           seen = "RETIRED" => status = "RETIRED"
    PROVE  Verify(seen, SnapshotFor(seen)) = "PASSED"
<1>1. SnapshotFor(seen) = promotion
    BY DEF SnapshotFor
<1>2. /\ promotion \in Keys /\ promotion \in promotions
      /\ snapshots[promotion] = "ELIGIBLE"
    BY DEF IInv, PromotionIsExact
<1>3. promotion # NoKey
    BY <1>2, LifecycleAssumption DEF Keys, Statuses
<1>4. decisions[promotion.decision] = "PASS"
    BY <1>2 DEF IInv, EligibilityHasGround, Complete
<1>5. seen = "RETIRED" => retirement # NoReason
    BY DEF IInv, RetirementIsExact
<1>6. EligibilityExact(seen, promotion)
    BY <1>3 DEF EligibilityExact
<1> QED BY <1>1, <1>2, <1>4, <1>5, <1>6 DEF Verify

LEMMA VerifierStep ==
    ASSUME IInv, IInv', VerifierInv, [LNext]_lvars
    PROVE  VerifierInv'
<1>1. CASE LifecycleStep
    <2>1. latest' \in Keys \cup {NoKey}
        <3>1. CASE snapshots' = snapshots
            BY <1>1, <3>1 DEF LifecycleStep, VerifierInv, VerifierTypeOK
        <3>2. CASE snapshots' # snapshots
            <4>1. \E key \in Keys : snapshots'[key] # snapshots[key]
                BY <3>2 DEF IInv, TypeOK
            <4> QED BY <1>1, <3>2, <4>1 DEF LifecycleStep
        <3> QED BY <3>1, <3>2
    <2>2. VerifierTypeOK' /\ TransitionsVerify'
        BY <1>1, <2>1 DEF LifecycleStep, VerifierInv, VerifierTypeOK, TransitionsVerify
    <2>3. Next
        BY <1>1 DEF LifecycleStep, Next
    <2>4. CheckSound'
        BY <1>1, <2>3, ForwardStep DEF LifecycleStep, VerifierInv, CheckSound
    <2> QED BY <2>2, <2>4 DEF VerifierInv
<1>2. CASE BeginCheck
    <2>1. UNCHANGED <<status, promotion, latest, rows>>
        BY <1>2 DEF BeginCheck, vars, lifecycle
    <2>2. check' = [status |-> status, eligibility |-> SnapshotFor(status)]
        BY <1>2 DEF BeginCheck
    <2>3. check' \in Sources
        BY <2>2 DEF IInv, TypeOK, VerifierInv, VerifierTypeOK, SnapshotFor, Sources
    <2>4. VerifierTypeOK' /\ TransitionsVerify'
        BY <2>1, <2>3 DEF VerifierInv, VerifierTypeOK, TransitionsVerify
    <2>5. CheckSound'
        BY <2>1, <2>2 DEF CheckSound, SnapshotFor
    <2> QED BY <2>4, <2>5 DEF VerifierInv
<1>3. CASE RecordCheck
    <2> DEFINE row == [sources |-> check,
                       result |-> Verify(check.status, SnapshotFor(check.status))]
    <2>1. check \in Sources /\ UNCHANGED latest /\ check' = NoCheck
        BY <1>3 DEF RecordCheck, VerifierInv, VerifierTypeOK
    <2>2. rows' = rows \/ rows' = rows \cup {row}
        BY <1>3 DEF RecordCheck
    <2>3. row \in [sources : Sources, result : Results]
        BY <2>1 DEF Verify, Results
    <2>4. row.sources.status # "CONTRACT_VALID" => row.result = "PASSED"
        <3> SUFFICES ASSUME check.status # "CONTRACT_VALID"
                     PROVE  Verify(check.status, SnapshotFor(check.status)) = "PASSED"
            OBVIOUS
        <3>1. check.status \in {"VALIDATED", "RETIRED"}
            BY <2>1 DEF Sources, Statuses
        <3>2. /\ status # "CONTRACT_VALID"
              /\ check.status = "RETIRED" => status = "RETIRED"
            BY <1>3 DEF RecordCheck, VerifierInv, CheckSound
        <3> QED BY <3>1, <3>2, PromotedLineagePasses
    <2> HIDE DEF row
    <2>5. VerifierTypeOK' /\ TransitionsVerify'
        BY <2>1, <2>2, <2>3, <2>4 DEF VerifierInv, VerifierTypeOK, TransitionsVerify
    <2>6. CheckSound'
        BY <2>1 DEF CheckSound
    <2> QED BY <2>5, <2>6 DEF VerifierInv
<1>4. CASE Restart
    BY <1>4 DEF Restart, VerifierInv, VerifierTypeOK, TransitionsVerify, CheckSound
<1>5. CASE UNCHANGED lvars
    BY <1>5 DEF lvars, vars, lifecycle, VerifierInv, VerifierTypeOK, TransitionsVerify, CheckSound
<1> QED BY <1>1, <1>2, <1>3, <1>4, <1>5 DEF LNext

\* The lifecycle keeps its invariant beside the verifier, and the verifier
\* keeps its own.
THEOREM VerifierInvariant == LSpec => [](IInv /\ VerifierInv)
<1>1. LInit => IInv /\ VerifierInv
    <2> SUFFICES ASSUME LInit PROVE IInv /\ VerifierInv
        OBVIOUS
    <2>1. IInv
        BY InitIInv DEF LInit
    <2>2. VerifierInv
        BY DEF LInit, VerifierInv, VerifierTypeOK, TransitionsVerify, CheckSound
    <2> QED BY <2>1, <2>2
<1>2. IInv /\ [LNext]_lvars => IInv'
    BY LifecycleBelow, NextIInv
<1>3. IInv /\ VerifierInv /\ [LNext]_lvars => (IInv /\ VerifierInv)'
    BY <1>2, VerifierStep
<1> QED BY <1>1, <1>3, PTL DEF LSpec

\* An untouched VALIDATED or RETIRED lineage never fails its verification.
THEOREM TransitionsSafety == LSpec => []TransitionsVerify
<1>1. VerifierInv => TransitionsVerify
    BY DEF VerifierInv
<1> QED BY <1>1, VerifierInvariant, PTL

(***************************************************************************)
(* The candle replay                                                       *)
(***************************************************************************)

-----------------------------------------------------------------------------
(* Greatest and least elements *)

\* A set of numbers up to N has a greatest one: otherwise adding one would map
\* the numbers that some member reaches into themselves without 0.
LEMMA GreatestExists ==
    ASSUME NEW N \in Nat, NEW S \in SUBSET (0 .. N), S # {}
    PROVE  \E x \in S : \A y \in S : x >= y
<1>1. SUFFICES ASSUME \A x \in S : \E y \in S : y > x
               PROVE  FALSE
    OBVIOUS
<1> DEFINE T == {k \in 0 .. N : \E y \in S : k <= y}
           up == [k \in T |-> k + 1]
<1>2. 0 \in T /\ IsFiniteSet(T)
    <2>1. IsFiniteSet(0 .. N) /\ T \in SUBSET (0 .. N)
        BY FS_Interval
    <2>2. IsFiniteSet(T)
        BY <2>1, FS_Subset
    <2>3. PICK y \in S : TRUE
        OBVIOUS
    <2>4. y \in Nat /\ 0 \in 0 .. N /\ 0 <= y
        OBVIOUS
    <2>5. 0 \in T
        BY <2>4
    <2> QED BY <2>2, <2>5
<1>3. up \in [T -> T \ {0}]
    <2>1. ASSUME NEW k \in T PROVE k + 1 \in T \ {0}
        <3>1. PICK y \in S : k <= y
            OBVIOUS
        <3>2. PICK z \in S : z > y
            BY <1>1
        <3> QED BY <3>1, <3>2
    <2> QED BY <2>1
<1>4. IsFiniteSet(T \ {0}) /\ Cardinality(T \ {0}) < Cardinality(T)
    <2> HIDE DEF T
    <2>1. Cardinality(T) \in Nat
        BY <1>2, FS_CardinalityType
    <2>2. IsFiniteSet(T \ {0}) /\ Cardinality(T \ {0}) = Cardinality(T) - 1
        BY <1>2, FS_RemoveElement
    <2> QED BY <2>1, <2>2
<1>5. \E x, y \in T : x # y /\ up[x] = up[y]
    <2> HIDE DEF T, up
    <2> QED BY <1>2, <1>3, <1>4, FS_PigeonHole
<1> QED BY <1>5

\* Induction over 0 .. N, for a property given as the set of its numbers.
LEMMA StepByStep ==
    ASSUME NEW N \in Nat, NEW S, 0 \in S, \A k \in 0 .. N - 1 : k \in S => k + 1 \in S
    PROVE  \A k \in 0 .. N : k \in S
<1> DEFINE T == {k \in 0 .. N : 0 .. k \subseteq S}
<1>1. 0 \in T
    OBVIOUS
<1>2. PICK m \in T : \A y \in T : m >= y
    BY <1>1, GreatestExists
<1>3. CASE m = N
    BY <1>3
<1>4. CASE m # N
    <2>1. m + 1 \in S /\ m + 1 \in 0 .. N
        BY <1>4
    <2>2. 0 .. m + 1 \subseteq S
        BY <2>1
    <2>3. m + 1 \in T
        BY <2>1, <2>2
    <2> QED BY <2>3, <1>2
<1> QED BY <1>3, <1>4

LEMMA MaxIs ==
    ASSUME NEW S \in SUBSET Int, NEW x \in S, \A y \in S : y <= x
    PROVE  Max(S) = x
<1>1. Max(S) \in S /\ \A y \in S : Max(S) >= y
    BY DEF Max
<1>2. Max(S) \in Int /\ x \in Int /\ Max(S) >= x /\ Max(S) <= x
    BY <1>1
<1> QED BY <1>2

LEMMA MinIs ==
    ASSUME NEW S \in SUBSET Int, NEW x \in S, \A y \in S : x <= y
    PROVE  Min(S) = x
<1>1. Min(S) \in S /\ \A y \in S : Min(S) <= y
    BY DEF Min
<1>2. Min(S) \in Int /\ x \in Int /\ Min(S) >= x /\ Min(S) <= x
    BY <1>1
<1> QED BY <1>2

LEMMA MaxOfTwo ==
    ASSUME NEW x \in Int, NEW y \in Int
    PROVE  Max({x, y}) = IF x >= y THEN x ELSE y
<1>1. CASE x >= y
    BY <1>1, MaxIs
<1>2. CASE ~(x >= y)
    BY <1>2, MaxIs
<1> QED BY <1>1, <1>2

LEMMA MinOfTwo ==
    ASSUME NEW x \in Int, NEW y \in Int
    PROVE  Min({x, y}) = IF x <= y THEN x ELSE y
<1>1. CASE x <= y
    BY <1>1, MinIs
<1>2. CASE ~(x <= y)
    BY <1>2, MinIs
<1> QED BY <1>1, <1>2

\* A finite set of numbers has a greatest one: count through it and keep what
\* bounds the numbers seen so far.
LEMMA MaxOfFinite ==
    ASSUME NEW S \in SUBSET Int, S # {}, IsFiniteSet(S)
    PROVE  Max(S) \in S /\ Max(S) \in Int /\ \A y \in S : y <= Max(S)
<1>1. PICK n \in Nat : \E f \in [1 .. n -> S] : \A y \in S : \E i \in 1 .. n : f[i] = y
    <2>1. PICK n \in Nat : ExistsBijection(1 .. n, S)
        BY FS_NatBijection
    <2>2. PICK f : f \in Bijection(1 .. n, S)
        BY <2>1 DEF ExistsBijection
    <2> QED BY <2>2 DEF Bijection, Surjection
<1>2. PICK f \in [1 .. n -> S] : \A y \in S : \E i \in 1 .. n : f[i] = y
    BY <1>1
<1> DEFINE B == {k \in 0 .. n : \E y \in S : \A i \in 1 .. k : f[i] <= y}
<1>3. 0 \in B
    <2>1. PICK y \in S : TRUE
        OBVIOUS
    <2> QED BY <2>1
<1>4. ASSUME NEW k \in 0 .. n - 1, k \in B PROVE k + 1 \in B
    <2>1. PICK y \in S : \A i \in 1 .. k : f[i] <= y
        BY <1>4
    <2>2. k + 1 \in 1 .. n /\ f[k + 1] \in S /\ f[k + 1] \in Int /\ y \in Int
        <3>1. k + 1 \in 1 .. n
            OBVIOUS
        <3>2. f[k + 1] \in S
            BY <3>1
        <3> QED BY <3>1, <3>2
    <2>3. CASE f[k + 1] <= y
        <3>1. \A i \in 1 .. k + 1 : f[i] <= y
            BY <2>1, <2>3
        <3> QED BY <3>1, <2>2
    <2>4. CASE ~(f[k + 1] <= y)
        <3>1. \A i \in 1 .. k + 1 : f[i] \in Int
            <4>1. \A i \in 1 .. k + 1 : i \in 1 .. n
                OBVIOUS
            <4>2. \A i \in 1 .. n : f[i] \in S
                OBVIOUS
            <4> QED BY <4>1, <4>2
        <3>2. \A i \in 1 .. k + 1 : f[i] <= f[k + 1]
            BY <2>1, <2>2, <2>4, <3>1
        <3> QED BY <3>2, <2>2
    <2> QED BY <2>3, <2>4
<1>5. \A k \in 0 .. n : k \in B
    <2> HIDE DEF B
    <2> QED BY <1>3, <1>4, StepByStep
<1>6. PICK y \in S : \A i \in 1 .. n : f[i] <= y
    BY <1>5
<1>7. \A z \in S : z <= y
    BY <1>2, <1>6
<1>8. Max(S) = y
    BY <1>7, MaxIs
<1> QED BY <1>7, <1>8

LEMMA MinOfFinite ==
    ASSUME NEW S \in SUBSET Int, S # {}, IsFiniteSet(S)
    PROVE  Min(S) \in S /\ Min(S) \in Int /\ \A y \in S : Min(S) <= y
<1> DEFINE R == {-y : y \in S}
<1>1. R \in SUBSET Int /\ R # {} /\ IsFiniteSet(R)
    <2> DEFINE negate == [y \in S |-> -y]
    <2>1. negate \in Surjection(S, R)
        BY DEF Surjection
    <2>2. IsFiniteSet(R)
        <3> HIDE DEF R, negate
        <3> QED BY <2>1, FS_Surjection DEF ExistsSurjection
    <2>3. R \in SUBSET Int
        OBVIOUS
    <2>4. R # {}
        OBVIOUS
    <2> QED BY <2>2, <2>3, <2>4
<1>2. Max(R) \in R /\ \A z \in R : z <= Max(R)
    <2> HIDE DEF R
    <2> QED BY <1>1, MaxOfFinite
<1>3. PICK x \in S : Max(R) = -x
    BY <1>2
<1>4. ASSUME NEW y \in S PROVE x <= y
    <2>1. -y \in R
        OBVIOUS
    <2>2. -y <= -x
        BY <2>1, <1>2, <1>3
    <2> QED BY <2>2
<1>5. Min(S) = x
    BY <1>4, MinIs
<1> QED BY <1>4, <1>5

-----------------------------------------------------------------------------
(* Functions defined by recursion *)

\* step[k] takes a value before the k-th step to the value after it.
StepsWithin(step, N, V) == \A k \in 1 .. N, v \in V : step[k][v] \in V

Iterates(f, N, V, base, step) ==
  f \in [0 .. N -> V] /\ f[0] = base /\ \A k \in 1 .. N : f[k] = step[k][f[k - 1]]

\* From a first value, one step for each number: there is such a function.
LEMMA Iterated ==
    ASSUME NEW N \in Nat, NEW V, NEW base \in V, NEW step, StepsWithin(step, N, V)
    PROVE  \E f : Iterates(f, N, V, base, step)
<1> DEFINE Good(f, n) == f[0] = base /\ \A k \in 1 .. n : f[k] = step[k][f[k - 1]]
           S == {n \in 0 .. N : \E f \in [0 .. n -> V] : Good(f, n)}
<1>1. 0 \in S
    <2> DEFINE one == [k \in 0 .. 0 |-> base]
    <2>1. one \in [0 .. 0 -> V] /\ one[0] = base
        OBVIOUS
    <2> HIDE DEF one
    <2>2. Good(one, 0)
        BY <2>1
    <2> HIDE DEF Good
    <2> QED BY <2>1, <2>2
<1>2. ASSUME NEW n \in 0 .. N - 1, n \in S PROVE n + 1 \in S
    <2>1. PICK f \in [0 .. n -> V] : Good(f, n)
        BY <1>2
    <2> DEFINE g == [k \in 0 .. n + 1 |-> IF k = n + 1 THEN step[n + 1][f[n]] ELSE f[k]]
    <2>2. g \in [0 .. n + 1 -> V]
        <3>1. n + 1 \in 1 .. N /\ f[n] \in V
            OBVIOUS
        <3>2. step[n + 1][f[n]] \in V
            BY <3>1 DEF StepsWithin
        <3> QED BY <3>2
    <2>3. g[0] = base
        BY <2>1
    <2>4. ASSUME NEW k \in 1 .. n + 1 PROVE g[k] = step[k][g[k - 1]]
        <3>1. k \in 0 .. n + 1 /\ k - 1 \in 0 .. n + 1 /\ k - 1 # n + 1
            OBVIOUS
        <3>2. g[k - 1] = f[k - 1]
            BY <3>1
        <3>3. CASE k = n + 1
            <4>1. k - 1 = n /\ g[k] = step[n + 1][f[n]]
                BY <3>1, <3>3
            <4> QED BY <4>1, <3>2, <3>3
        <3>4. CASE k # n + 1
            <4>1. k \in 1 .. n /\ g[k] = f[k]
                BY <3>1, <3>4
            <4> QED BY <4>1, <3>2, <2>1
        <3> QED BY <3>3, <3>4
    <2> HIDE DEF g
    <2>5. Good(g, n + 1)
        BY <2>3, <2>4
    <2> QED BY <2>2, <2>5
<1>3. \A n \in 0 .. N : n \in S
    <2> HIDE DEF S
    <2> QED BY <1>1, <1>2, StepByStep
<1>4. PICK f \in [0 .. N -> V] : Good(f, N)
    BY <1>3
<1>5. Iterates(f, N, V, base, step)
    BY <1>4 DEF Iterates
<1> QED BY <1>5

\* Two functions that start alike and go on alike are alike.
LEMMA Alike ==
    ASSUME NEW N \in Nat, NEW f, NEW g, f[0] = g[0],
           \A k \in 0 .. N - 1 : f[k] = g[k] => f[k + 1] = g[k + 1]
    PROVE  \A k \in 0 .. N : f[k] = g[k]
<1> DEFINE S == {k \in 0 .. N : f[k] = g[k]}
<1>1. 0 \in S
    OBVIOUS
<1>2. \A k \in 0 .. N - 1 : k \in S => k + 1 \in S
    OBVIOUS
<1>3. \A k \in 0 .. N : k \in S
    <2> HIDE DEF S
    <2> QED BY <1>1, <1>2, StepByStep
<1> QED BY <1>3

-----------------------------------------------------------------------------
(* Sums *)

\* Total is the last of the partial sums.
LEMMA PartialSums ==
    ASSUME NEW s \in Seq(Int)
    PROVE  \E f \in [0 .. Len(s) -> Int] :
              /\ f[0] = 0 /\ \A k \in 1 .. Len(s) : f[k] = f[k - 1] + s[k]
              /\ Total(s) = f[Len(s)]
<1> DEFINE N == Len(s)
           step == [k \in 1 .. N |-> [v \in Int |-> v + s[k]]]
           Eq(f) == f = [k \in 0 .. N |-> IF k = 0 THEN 0 ELSE f[k - 1] + s[k]]
           sum == CHOOSE f : Eq(f)
<1>1. N \in Nat /\ \A k \in 1 .. N : s[k] \in Int
    BY ElementOfSeq
<1>2. StepsWithin(step, N, Int) /\ \A k \in 1 .. N, v \in Int : step[k][v] = v + s[k]
    BY <1>1 DEF StepsWithin
<1>3. PICK f : Iterates(f, N, Int, 0, step)
    <2>1. 0 \in Int
        OBVIOUS
    <2> HIDE DEF step, N
    <2> QED BY <1>1, <1>2, <2>1, Iterated
<1>4. f \in [0 .. N -> Int] /\ f[0] = 0 /\ \A k \in 1 .. N : f[k] = f[k - 1] + s[k]
    <2>1. f \in [0 .. N -> Int] /\ f[0] = 0 /\ \A k \in 1 .. N : f[k] = step[k][f[k - 1]]
        BY <1>3 DEF Iterates
    <2>2. ASSUME NEW k \in 1 .. N PROVE f[k] = f[k - 1] + s[k]
        <3> HIDE DEF step, N
        <3>1. k - 1 \in 0 .. N
            BY <1>1
        <3>2. f[k - 1] \in Int
            BY <3>1, <2>1
        <3> QED BY <1>2, <2>1, <3>2
    <2> QED BY <2>1, <2>2
<1>5. Eq(f)
    <2> HIDE DEF step
    <2> QED BY <1>1, <1>4
<1>6. Eq(sum)
    <2> HIDE DEF Eq
    <2> QED BY <1>5
<1>7. sum[0] = 0 /\ \A k \in 1 .. N : sum[k] = sum[k - 1] + s[k]
    <2> HIDE DEF sum
    <2>1. \A k \in 0 .. N : sum[k] = IF k = 0 THEN 0 ELSE sum[k - 1] + s[k]
        BY <1>6
    <2> QED BY <2>1, <1>1
<1>8. \A k \in 0 .. N : f[k] = sum[k]
    <2> HIDE DEF sum, step
    <2>1. ASSUME NEW k \in 0 .. N - 1, f[k] = sum[k] PROVE f[k + 1] = sum[k + 1]
        <3>1. k + 1 \in 1 .. N /\ (k + 1) - 1 = k
            BY <1>1
        <3> QED BY <3>1, <1>4, <1>7, <2>1
    <2>2. N \in Nat /\ f[0] = sum[0]
        BY <1>1, <1>4, <1>7
    <2>3. \A k \in 0 .. N - 1 : f[k] = sum[k] => f[k + 1] = sum[k + 1]
        BY <2>1
    <2> HIDE DEF N
    <2> QED BY <2>2, <2>3, Alike
<1>9. Total(s) = sum[N]
    BY DEF Total
<1> HIDE DEF sum, step
<1> QED BY <1>1, <1>4, <1>8, <1>9

LEMMA TotalOfNone == Total(<<>>) = 0
<1>1. <<>> \in Seq(Int) /\ Len(<<>>) = 0
    OBVIOUS
<1> QED BY <1>1, PartialSums

LEMMA TotalIsInt == ASSUME NEW s \in Seq(Int) PROVE Total(s) \in Int
BY PartialSums

\* One more number.
LEMMA TotalAppend ==
    ASSUME NEW s \in Seq(Int), NEW x \in Int
    PROVE  Total(Append(s, x)) = Total(s) + x
<1> DEFINE N == Len(s)
           r == Append(s, x)
<1>1. r \in Seq(Int) /\ Len(r) = N + 1 /\ N \in Nat /\ r[N + 1] = x
      /\ \A k \in 1 .. N : r[k] = s[k]
    OBVIOUS
<1> HIDE DEF r
<1>2. PICK f \in [0 .. N -> Int] : /\ f[0] = 0 /\ \A k \in 1 .. N : f[k] = f[k - 1] + s[k]
                                   /\ Total(s) = f[N]
    BY PartialSums
<1>3. PICK g \in [0 .. N + 1 -> Int] : /\ g[0] = 0 /\ \A k \in 1 .. N + 1 : g[k] = g[k - 1] + r[k]
                                       /\ Total(r) = g[N + 1]
    BY <1>1, PartialSums
<1>4. \A k \in 0 .. N : f[k] = g[k]
    <2>1. ASSUME NEW k \in 0 .. N - 1, f[k] = g[k] PROVE f[k + 1] = g[k + 1]
        <3>1. k + 1 \in 1 .. N /\ k + 1 \in 1 .. N + 1 /\ (k + 1) - 1 = k
            BY <1>1
        <3> QED BY <3>1, <1>1, <1>2, <1>3, <2>1
    <2>2. N \in Nat /\ f[0] = g[0]
        BY <1>1, <1>2, <1>3
    <2>3. \A k \in 0 .. N - 1 : f[k] = g[k] => f[k + 1] = g[k + 1]
        BY <2>1
    <2> HIDE DEF N
    <2> QED BY <2>2, <2>3, Alike
<1>5. g[N + 1] = g[N] + x
    <2>1. N + 1 \in 1 .. N + 1 /\ (N + 1) - 1 = N
        BY <1>1
    <2> QED BY <2>1, <1>1, <1>3
<1>6. f[N] = g[N]
    BY <1>1, <1>4
<1> QED BY <1>2, <1>3, <1>5, <1>6 DEF r

-----------------------------------------------------------------------------
(* Stretches of sequences *)

\* A stretch of a sequence: the elements from a to b.
LEMMA StretchIsSeq ==
    ASSUME NEW S, NEW s \in Seq(S), NEW a \in Nat \ {0}, NEW b \in 0 .. Len(s)
    PROVE  /\ SubSeq(s, a, b) \in Seq(S)
           /\ Len(SubSeq(s, a, b)) = IF b < a THEN 0 ELSE b - a + 1
           /\ \A k \in 1 .. Len(SubSeq(s, a, b)) : SubSeq(s, a, b)[k] = s[a - 1 + k]
<1>1. \A k \in a .. b : s[k] \in S
    <2>1. \A k \in a .. b : k \in 1 .. Len(s)
        OBVIOUS
    <2> QED BY <2>1, ElementOfSeq
<1>2. a \in Int /\ b \in Int
    OBVIOUS
<1> DEFINE x == SubSeq(s, a, b)
<1>3. x \in Seq(S) /\ (Len(x) = IF a <= b THEN b - a + 1 ELSE 0) /\ \A i \in 1 .. b - a + 1 : x[i] = s[a + i - 1]
    BY <1>1, <1>2, SubSeqProperties
<1> HIDE DEF x
<1>4. Len(x) = IF b < a THEN 0 ELSE b - a + 1
    BY <1>2, <1>3
<1>5. \A k \in 1 .. Len(x) : x[k] = s[a - 1 + k]
    <2>1. \A k \in 1 .. Len(x) : k \in 1 .. b - a + 1 /\ a + k - 1 = a - 1 + k
        BY <1>2, <1>4
    <2> QED BY <2>1, <1>3
<1> QED BY <1>3, <1>4, <1>5 DEF x

\* A stretch that ends before it begins is empty.
LEMMA EmptyStretch ==
    ASSUME NEW s, NEW a \in Int, NEW b \in Int, b < a
    PROVE  SubSeq(s, a, b) = <<>>
BY SubSeqEmpty

\* A stretch that is one element longer.
LEMMA StretchAppend ==
    ASSUME NEW S, NEW s \in Seq(S), NEW a \in Nat \ {0}, NEW b \in 0 .. Len(s) - 1, a <= b + 1
    PROVE  SubSeq(s, a, b + 1) = Append(SubSeq(s, a, b), s[b + 1])
<1> DEFINE x == SubSeq(s, a, b)
           y == SubSeq(s, a, b + 1)
           z == Append(x, s[b + 1])
           m == b - a + 1
<1>1. b \in 0 .. Len(s) /\ b + 1 \in 0 .. Len(s) /\ b + 1 \in 1 .. Len(s) /\ m \in Nat
      /\ m = IF b < a THEN 0 ELSE b - a + 1
    OBVIOUS
<1>2. x \in Seq(S) /\ Len(x) = m /\ \A k \in 1 .. m : x[k] = s[a - 1 + k]
    BY <1>1, StretchIsSeq
<1>3. y \in Seq(S) /\ Len(y) = m + 1 /\ \A k \in 1 .. m + 1 : y[k] = s[a - 1 + k]
    <2>1. m + 1 = IF b + 1 < a THEN 0 ELSE (b + 1) - a + 1
        OBVIOUS
    <2> HIDE DEF m
    <2> QED BY <1>1, <2>1, StretchIsSeq
<1>4. s[b + 1] \in S
    BY <1>1, ElementOfSeq
<1> HIDE DEF x, y
<1>5. z \in Seq(S) /\ Len(z) = m + 1 /\ z[m + 1] = s[b + 1] /\ \A k \in 1 .. m : z[k] = x[k]
    BY <1>1, <1>2, <1>4, AppendProperties
<1> HIDE DEF z
<1>6. \A k \in 1 .. m + 1 : y[k] = z[k]
    <2>1. ASSUME NEW k \in 1 .. m + 1 PROVE y[k] = z[k]
        <3>1. CASE k = m + 1
            <4>1. a - 1 + k = b + 1
                BY <3>1
            <4> QED BY <4>1, <3>1, <1>3, <1>5
        <3>2. CASE k # m + 1
            <4>1. k \in 1 .. m
                BY <3>2, <1>1
            <4> QED BY <4>1, <1>2, <1>3, <1>5
        <3> QED BY <3>1, <3>2
    <2> QED BY <2>1
<1> HIDE DEF m
<1>7. y = z
    BY <1>3, <1>5, <1>6, SeqEqual
<1> QED BY <1>7 DEF y, z, x

\* What lies between a and b, chosen out of a sequence.
LEMMA ChosenStretch ==
    ASSUME NEW S, NEW s \in Seq(S), NEW a \in Nat \ {0}, NEW b \in 0 .. Len(s), NEW kept,
           \A k \in 1 .. Len(s) : k \in kept <=> a <= k /\ k <= b
    PROVE  Chosen(s, kept) = SubSeq(s, a, b)
<1> DEFINE N == Len(s)
           upTo(i) == IF i < b THEN i ELSE b
           F == [i \in 0 .. N |-> SubSeq(s, a, upTo(i))]
           Eq(f) == f = [i \in 0 .. N |-> IF i = 0 THEN <<>>
                                          ELSE IF i \in kept THEN Append(f[i - 1], s[i]) ELSE f[i - 1]]
           from == CHOOSE f : Eq(f)
<1>1. N \in Nat
    OBVIOUS
<1>2. F[0] = <<>>
    <2>1. upTo(0) = 0
        OBVIOUS
    <2>2. F[0] = SubSeq(s, a, 0)
        BY <1>1, <2>1
    <2>3. SubSeq(s, a, 0) = <<>>
        BY EmptyStretch
    <2> QED BY <2>2, <2>3
<1>3. ASSUME NEW i \in 1 .. N
      PROVE  F[i] = IF i \in kept THEN Append(F[i - 1], s[i]) ELSE F[i - 1]
    <2>1. i - 1 \in 0 .. N /\ i \in 0 .. N
        OBVIOUS
    <2>2. F[i] = SubSeq(s, a, upTo(i)) /\ F[i - 1] = SubSeq(s, a, upTo(i - 1))
        BY <2>1
    <2> HIDE DEF F
    <2>3. CASE i \in kept
        <3>1. a <= i /\ i <= b
            BY <2>3
        <3>2. upTo(i) = (i - 1) + 1 /\ upTo(i - 1) = i - 1
            BY <3>1
        <3>3. i - 1 \in 0 .. Len(s) - 1 /\ a <= (i - 1) + 1 /\ (i - 1) + 1 = i
            BY <3>1
        <3>4. SubSeq(s, a, (i - 1) + 1) = Append(SubSeq(s, a, i - 1), s[(i - 1) + 1])
            BY <3>3, StretchAppend
        <3> QED BY <2>2, <2>3, <3>2, <3>3, <3>4
    <2>4. CASE i \notin kept
        <3>1. ~(a <= i) \/ ~(i <= b)
            BY <2>4
        <3>2. CASE ~(i <= b)
            <4>1. upTo(i) = b /\ upTo(i - 1) = b
                BY <3>2
            <4> QED BY <4>1, <2>2, <2>4
        <3>3. CASE ~(a <= i) /\ i <= b
            <4>1. upTo(i) = i /\ upTo(i - 1) = i - 1
                BY <3>3
            <4>2. SubSeq(s, a, i) = <<>> /\ SubSeq(s, a, i - 1) = <<>>
                BY <3>3, EmptyStretch
            <4> QED BY <4>1, <4>2, <2>2, <2>4
        <3> QED BY <3>1, <3>2, <3>3
    <2> QED BY <2>3, <2>4
<1>4. Eq(F)
    <2> DEFINE G == [i \in 0 .. N |-> IF i = 0 THEN <<>>
                                      ELSE IF i \in kept THEN Append(F[i - 1], s[i]) ELSE F[i - 1]]
    <2>1. \A i \in 0 .. N : F[i] = G[i]
        <3> HIDE DEF F
        <3> QED BY <1>1, <1>2, <1>3
    <2>2. F = G
        <3>1. F = [i \in 0 .. N |-> F[i]]
            OBVIOUS
        <3>2. G = [i \in 0 .. N |-> G[i]]
            OBVIOUS
        <3> HIDE DEF F, G
        <3> QED BY <2>1, <3>1, <3>2
    <2> HIDE DEF F
    <2> QED BY <2>2
<1>5. Eq(from)
    <2> HIDE DEF Eq, F
    <2> QED BY <1>4
<1>6. from[0] = <<>> /\ \A i \in 1 .. N : from[i] = IF i \in kept THEN Append(from[i - 1], s[i]) ELSE from[i - 1]
    <2> HIDE DEF from
    <2>1. \A i \in 0 .. N : from[i] = IF i = 0 THEN <<>>
                                      ELSE IF i \in kept THEN Append(from[i - 1], s[i]) ELSE from[i - 1]
        BY <1>5
    <2> QED BY <2>1, <1>1
<1>7. \A i \in 0 .. N : F[i] = from[i]
    <2> HIDE DEF from, F
    <2>1. ASSUME NEW i \in 0 .. N - 1, F[i] = from[i] PROVE F[i + 1] = from[i + 1]
        <3>1. i + 1 \in 1 .. N /\ (i + 1) - 1 = i
            BY <1>1
        <3> QED BY <3>1, <1>3, <1>6, <2>1
    <2>2. F[0] = from[0]
        BY <1>2, <1>6
    <2>3. \A i \in 0 .. N - 1 : F[i] = from[i] => F[i + 1] = from[i + 1]
        BY <2>1
    <2>4. N \in Nat
        BY <1>1
    <2> HIDE DEF N
    <2> QED BY <2>2, <2>3, <2>4, Alike, SMTT(20)
<1>8. F[N] = SubSeq(s, a, b)
    <2>1. upTo(N) = b
        OBVIOUS
    <2> QED BY <1>1, <2>1
<1>9. Chosen(s, kept) = from[N]
    BY DEF Chosen
<1> HIDE DEF from, F
<1>10. F[N] = from[N]
    <2>1. N \in 0 .. N
        BY <1>1
    <2> HIDE DEF N
    <2> QED BY <2>1, <1>7
<1> HIDE DEF N
<1> QED BY <1>8, <1>9, <1>10

-----------------------------------------------------------------------------
(* The inductive invariant *)

RegimeNames == Labels \cup {Warmup}

\* The candles of the context asset that close by an instant are the first ones.
DueBy(ctx, close) == Max({j \in DOMAIN ctx : CloseTime(ctx[j], Ctx) <= close} \cup {0})

\* The inputs, and the candles fed so far.
Fed ==
  /\ contract \in Contracts /\ calendar \in Calendars /\ context \in Contexts
  /\ bars \in Seq(Candle) /\ Len(bars) <= Len(calendar)
  /\ \A i \in 1 .. Len(bars) : bars[i].t = calendar[i]
  /\ signal = Len(bars) /\ before \in Nat /\ before \in {0, signal - 1}
  /\ ended \in BOOLEAN

\* hist holds the last indices up to the one called last: at most most of them,
\* and all of them when there have been no more than that.
Remembers(hist, last, all, most) ==
  /\ hist \in Seq(Nat)
  /\ Len(hist) = IF all <= most THEN all ELSE most
  /\ \A k \in 1 .. Len(hist) : hist[k] = last - Len(hist) + k

Held == IF pending = 0 THEN taken ELSE taken - 1

\* How many context candles closed inside the split, of the first held ones.
Inside(ctx, held, split) ==
  IF held = 0 THEN 0 ELSE IF held <= DueBy(ctx, split) THEN 0 ELSE held - DueBy(ctx, split)

Histories ==
  /\ history \in [{Exec, Ctx} -> Seq(Nat)]
  /\ Remembers(history[Exec], Len(bars), Len(bars), RequiredLookback(contract, Exec, Exec) + 1)
  /\ taken \in 0 .. Len(context) /\ pending \in {0, taken}
  /\ Held > 0 => bars # <<>> /\ CloseTime(context[Held], Ctx) <= DecisionClose(bars[Len(bars)])
  /\ Remembers(history[Ctx], Held, Inside(context, Held, calendar[1]),
               RequiredLookback(contract, Ctx, Exec) + 1)

\* The trades written so far, and the one position.
Traded(t) == t.signal > 0 /\ t.entryBar = t.signal + 1 /\ t.entryBar <= t.exitBar

Books ==
  /\ trades \in Seq(TradeRecord)
  /\ \A k \in 1 .. Len(trades) : Traded(trades[k]) /\ trades[k].exitBar <= Len(bars)
  /\ active # NoTrade => /\ active \in Position /\ active.signal > 0
                         /\ active.bar = active.signal + 1 /\ active.bar <= Len(bars)
  /\ ended => active = NoTrade
  /\ OnePositionAtATime
  /\ ~ended /\ active = NoTrade /\ before # 0 /\ trades # <<>> =>
       trades[Len(trades)].exitBar < signal

\* The profits of ts, as they are added up.
Sum(ts, i, j) == Total([k \in 1 .. j - i + 1 |-> ts[i + k - 1].pnl])
NoWinner(ts, i, j) == \A k \in i .. j : ts[k].pnl <= 0

\* What the accumulator has kept of a ledger: the fall since the last peak is
\* the worst run up to now, the losing streak the longest one up to now.
Accumulated(ts, kept) ==
  LET n == Len(ts) IN
  /\ kept.equity \in Int /\ kept.peak \in Int /\ kept.drawdown \in Int
  /\ kept.losing \in 0 .. n /\ kept.maxLosing \in Nat
  /\ kept.equity = Sum(ts, 1, n)
  /\ kept.equity - kept.peak <= 0
  /\ \A i \in 1 .. n : kept.equity - kept.peak <= Sum(ts, i, n)
  /\ kept.equity - kept.peak = 0 \/ \E i \in 1 .. n : kept.equity - kept.peak = Sum(ts, i, n)
  /\ kept.drawdown <= 0
  /\ \A i, j \in 1 .. n : i <= j => kept.drawdown <= Sum(ts, i, j)
  /\ kept.drawdown = 0 \/ \E i, j \in 1 .. n : i <= j /\ kept.drawdown = Sum(ts, i, j)
  /\ NoWinner(ts, n - kept.losing + 1, n)
  /\ kept.losing < n => ts[n - kept.losing].pnl > 0
  /\ \A i, j \in 1 .. n : i <= j /\ NoWinner(ts, i, j) => j - i + 1 <= kept.maxLosing
  /\ kept.maxLosing = 0 \/ \E i, j \in 1 .. n : /\ i <= j /\ NoWinner(ts, i, j)
                                                /\ kept.maxLosing = j - i + 1

\* What each trade adds to a regime.
UnderRegime(feed, ts, l) ==
  [k \in 1 .. Len(ts) |-> IF RegimeAfter(SubSeq(feed, 1, ts[k].entryBar - 1)) = l THEN ts[k].pnl ELSE 0]

ByRegime(feed, ts, kept) ==
  /\ kept.byRegime \in [RegimeNames -> Int]
  /\ \A l \in RegimeNames : kept.byRegime[l] = Total(UnderRegime(feed, ts, l))

\* The metrics are those of the trades.
Measured(feed, ts, kept) ==
  /\ kept \in [count : Nat, equity : Int, peak : Int, drawdown : Int, losing : Nat,
               maxLosing : Nat, byRegime : [RegimeNames -> Int]]
  /\ Accumulated(ts, kept)
  /\ ByRegime(feed, ts, kept)

TotalsKept == Measured(bars, trades, totals)

\* The labels in use: after the last candle, and before the open position's entry.
Labelled ==
  /\ regimes \in [current : RegimeNames, pre : RegimeNames, entry : RegimeNames \cup {NoTrade}]
  /\ regimes.current = RegimeAfter(bars)
  /\ regimes.entry = IF active = NoTrade THEN NoTrade
                                         ELSE RegimeAfter(SubSeq(bars, 1, active.bar - 1))

-----------------------------------------------------------------------------
(* What the evaluator keeps *)

\* Whatever is chosen out of a sequence is a sequence of the same elements.
LEMMA ChosenIsSeq ==
    ASSUME NEW S, NEW s \in Seq(S), NEW kept
    PROVE  Chosen(s, kept) \in Seq(S)
<1> DEFINE N == Len(s)
           step == [k \in 1 .. N |-> [v \in Seq(S) |-> IF k \in kept THEN Append(v, s[k]) ELSE v]]
           Eq(f) == f = [i \in 0 .. N |-> IF i = 0 THEN <<>>
                                          ELSE IF i \in kept THEN Append(f[i - 1], s[i]) ELSE f[i - 1]]
           from == CHOOSE f : Eq(f)
<1>1. N \in Nat /\ \A k \in 1 .. N : s[k] \in S
    BY ElementOfSeq
<1>2. StepsWithin(step, N, Seq(S))
      /\ \A k \in 1 .. N, v \in Seq(S) : step[k][v] = IF k \in kept THEN Append(v, s[k]) ELSE v
    <2>1. ASSUME NEW k \in 1 .. N, NEW v \in Seq(S)
          PROVE  step[k][v] \in Seq(S) /\ step[k][v] = IF k \in kept THEN Append(v, s[k]) ELSE v
        <3>1. Append(v, s[k]) \in Seq(S)
            BY <1>1, AppendProperties
        <3> QED BY <3>1
    <2> QED BY <2>1 DEF StepsWithin
<1>3. PICK f : Iterates(f, N, Seq(S), <<>>, step)
    <2>1. <<>> \in Seq(S)
        OBVIOUS
    <2> HIDE DEF step, N
    <2> QED BY <1>1, <1>2, <2>1, Iterated
<1>4. /\ f \in [0 .. N -> Seq(S)] /\ f[0] = <<>>
      /\ \A k \in 1 .. N : f[k] = IF k \in kept THEN Append(f[k - 1], s[k]) ELSE f[k - 1]
    <2>1. f \in [0 .. N -> Seq(S)] /\ f[0] = <<>> /\ \A k \in 1 .. N : f[k] = step[k][f[k - 1]]
        BY <1>3 DEF Iterates
    <2>2. ASSUME NEW k \in 1 .. N
          PROVE  f[k] = IF k \in kept THEN Append(f[k - 1], s[k]) ELSE f[k - 1]
        <3> HIDE DEF step, N
        <3>1. k - 1 \in 0 .. N
            BY <1>1
        <3>2. f[k - 1] \in Seq(S)
            BY <3>1, <2>1
        <3> QED BY <1>2, <2>1, <3>2
    <2> QED BY <2>1, <2>2
<1>5. Eq(f)
    <2> DEFINE g == [i \in 0 .. N |-> IF i = 0 THEN <<>>
                                      ELSE IF i \in kept THEN Append(f[i - 1], s[i]) ELSE f[i - 1]]
    <2>1. f = [i \in 0 .. N |-> f[i]]
        BY <1>4
    <2>2. \A i \in 0 .. N : f[i] = g[i]
        <3>1. \A i \in 0 .. N : i = 0 \/ i \in 1 .. N
            BY <1>1
        <3> HIDE DEF step, N
        <3> QED BY <3>1, <1>4
    <2>3. g = [i \in 0 .. N |-> g[i]]
        OBVIOUS
    <2>4. f = g
        <3> HIDE DEF g
        <3> QED BY <2>1, <2>2, <2>3
    <2> QED BY <2>4
<1>6. Eq(from)
    <2> HIDE DEF Eq
    <2> QED BY <1>5
<1>7. from[0] = <<>> /\ \A k \in 1 .. N : from[k] = IF k \in kept THEN Append(from[k - 1], s[k]) ELSE from[k - 1]
    <2> HIDE DEF from
    <2>1. \A k \in 0 .. N : from[k] = IF k = 0 THEN <<>>
                                      ELSE IF k \in kept THEN Append(from[k - 1], s[k]) ELSE from[k - 1]
        BY <1>6
    <2> QED BY <2>1, <1>1
<1>8. \A k \in 0 .. N : f[k] = from[k]
    <2> HIDE DEF from, step
    <2>1. ASSUME NEW k \in 0 .. N - 1, f[k] = from[k] PROVE f[k + 1] = from[k + 1]
        <3>1. k + 1 \in 1 .. N /\ (k + 1) - 1 = k
            BY <1>1
        <3> QED BY <3>1, <1>4, <1>7, <2>1
    <2>2. f[0] = from[0]
        BY <1>4, <1>7
    <2>3. \A k \in 0 .. N - 1 : f[k] = from[k] => f[k + 1] = from[k + 1]
        BY <2>1
    <2> HIDE DEF N
    <2> QED BY <1>1, <2>2, <2>3, Alike
<1>9. Chosen(s, kept) = from[N]
    BY DEF Chosen
<1> HIDE DEF from, step
<1>10. N \in 0 .. N
    BY <1>1
<1> HIDE DEF N
<1> QED BY <1>4, <1>8, <1>9, <1>10

\* The context candles that close by an instant are a prefix: their times rise.
LEMMA DueByIs ==
    ASSUME NEW ctx \in Contexts, NEW close \in Int
    PROVE  /\ ctx \in Seq(Candle) /\ DueBy(ctx, close) \in 0 .. Len(ctx)
           /\ \A k \in 1 .. Len(ctx) : CloseTime(ctx[k], Ctx) \in Int
           /\ \A k \in 1 .. Len(ctx) : CloseTime(ctx[k], Ctx) <= close <=> k <= DueBy(ctx, close)
<1>1. ctx \in Seq(Candle) /\ Rising([i \in DOMAIN ctx |-> ctx[i].t]) /\ Exec # Ctx /\ CtxMinutes \in Nat \ {0}
    BY ReplayAssumption
<1>2. Len(ctx) \in Nat /\ DOMAIN ctx = 1 .. Len(ctx) /\ \A k \in 1 .. Len(ctx) : ctx[k] \in Candle
    BY <1>1, ElementOfSeq
<1>3. \A k \in 1 .. Len(ctx) : ctx[k].t \in Int /\ CloseTime(ctx[k], Ctx) = ctx[k].t + CtxMinutes
    BY <1>1, <1>2 DEF Candle, CloseTime, Minutes
<1>4. \A i, j \in 1 .. Len(ctx) : i < j => ctx[i].t < ctx[j].t
    BY <1>1, <1>2 DEF Rising
<1> DEFINE S == {j \in DOMAIN ctx : CloseTime(ctx[j], Ctx) <= close} \cup {0}
<1>5. S \in SUBSET (0 .. Len(ctx)) /\ 0 \in S /\ S \in SUBSET Int
    BY <1>2
<1>6. PICK m \in S : \A y \in S : m >= y
    <2> HIDE DEF S
    <2> QED BY <1>2, <1>5, GreatestExists
<1>7. DueBy(ctx, close) = m
    <2>1. Max(S) = m
        <3>1. m \in S /\ \A y \in S : y <= m
            <4> HIDE DEF S
            <4> QED BY <1>5, <1>6
        <3> HIDE DEF S
        <3> QED BY <1>5, <3>1, MaxIs
    <2> QED BY <2>1 DEF DueBy
<1>8. ASSUME NEW k \in 1 .. Len(ctx) PROVE CloseTime(ctx[k], Ctx) <= close <=> k <= m
    <2>1. CASE CloseTime(ctx[k], Ctx) <= close
        <3>1. k \in S
            BY <2>1, <1>2
        <3> HIDE DEF S
        <3> QED BY <2>1, <3>1, <1>5, <1>6
    <2>2. CASE k <= m
        <3>1. m \in 1 .. Len(ctx) /\ CloseTime(ctx[m], Ctx) <= close
            BY <2>2, <1>2, <1>5, <1>6
        <3>2. ctx[k].t <= ctx[m].t
            <4>1. CASE k = m
                BY <4>1, <3>1, <1>3
            <4>2. CASE k # m
                <5>1. k < m
                    BY <4>2, <2>2, <3>1
                <5> HIDE DEF S
                <5> QED BY <5>1, <3>1, <1>3, <1>4
            <4> QED BY <4>1, <4>2
        <3> HIDE DEF S
        <3> QED BY <2>2, <3>1, <3>2, <1>1, <1>3
    <2> QED BY <2>1, <2>2
<1> HIDE DEF S
<1> QED BY <1>1, <1>2, <1>3, <1>5, <1>6, <1>7, <1>8

\* A block looks back a number of candles, a recursive one past its warm-up.
LEMMA WarmupIs ==
    ASSUME NEW period \in Nat \ {0}
    PROVE  WarmupBars(period) \in Nat /\ WarmupBars(period) >= period + 1
<1>1. WarmupMultiple * period \in Int
    BY WarmupAssumption
<1>2. period + 1 \in Int
    OBVIOUS
<1>3. WarmupBars(period) = IF period + 1 >= WarmupMultiple * period THEN period + 1
                                                                   ELSE WarmupMultiple * period
    BY <1>1, <1>2, MaxOfTwo DEF WarmupBars
<1> QED BY <1>1, <1>3

\* Every block of an accepted contract is declared to need a candle.
LEMMA BlockLookbackIs ==
    ASSUME NEW leaf, AcceptedLeaf(leaf)
    PROVE  BlockLookback(leaf) \in Nat \ {0}
<1>1. CASE leaf.block = "RSI_THRESHOLD"
    <2>1. leaf.period \in Nat \ {0} /\ BlockLookback(leaf) = WarmupBars(leaf.period) + 1
        BY <1>1 DEF AcceptedLeaf, BlockLookback
    <2>2. WarmupBars(leaf.period) \in Nat
        BY <2>1, WarmupIs
    <2> QED BY <2>1, <2>2
<1>2. CASE leaf.block # "RSI_THRESHOLD"
    <2>1. CASE leaf.block = "PRICE_VS_MA"
        BY <2>1 DEF AcceptedLeaf, BlockLookback
    <2>2. CASE leaf.block = "MINIMUM_RANGE"
        BY <2>2 DEF AcceptedLeaf, BlockLookback
    <2>3. CASE leaf.block = "SMA_RELATION"
        BY <2>3 DEF AcceptedLeaf, BlockLookback
    <2>4. CASE leaf.block = "TWO_BAR_REVERSAL"
        BY <2>4 DEF BlockLookback
    <2>5. CASE leaf.block \in {"ALWAYS", "CANDLE_DIRECTION"}
        BY <2>5 DEF BlockLookback
    <2> QED BY <1>2, <2>1, <2>2, <2>3, <2>4, <2>5 DEF AcceptedLeaf
<1> QED BY <1>1, <1>2

\* What is kept of a timeframe covers every block on it, and the ATR.
LEMMA LookbackIs ==
    ASSUME NEW con \in Contracts, NEW tf \in {Exec, Ctx}
    PROVE  /\ RequiredLookback(con, tf, Exec) \in Nat
           /\ tf = Exec => RequiredLookback(con, tf, Exec) >= 1
           /\ tf = Exec /\ con.atr > 0 => RequiredLookback(con, tf, Exec) >= con.atr + 1
           /\ \A r \in con.rules : \A x \in Leaves(r) :
                x.tf = tf => BlockLookback(x) <= RequiredLookback(con, tf, Exec)
<1> DEFINE leaves == UNION {Leaves(r) : r \in con.rules}
           here == {y \in leaves : y.tf = tf}
           need == {BlockLookback(x) : x \in here}
           own == IF tf = Exec THEN {1} ELSE {0}
           atr == IF tf = Exec /\ con.atr > 0 THEN {con.atr + 1} ELSE {}
           L == RequiredLookback(con, tf, Exec)
<1>1. Accepted(con)
    BY ReplayAssumption
<1>2. IsFiniteSet(leaves)
    <2> DEFINE each == [r \in con.rules |-> Leaves(r)]
               families == {Leaves(r) : r \in con.rules}
    <2>1. each \in Surjection(con.rules, families)
        BY DEF Surjection
    <2>2. IsFiniteSet(con.rules) /\ \A T \in families : IsFiniteSet(T)
        BY <1>1 DEF Accepted
    <2>3. IsFiniteSet(families)
        <3> HIDE DEF each, families
        <3> QED BY <2>1, <2>2, FS_Surjection
    <2> HIDE DEF families
    <2>4. IsFiniteSet(UNION families)
        BY <2>2, <2>3, FS_UNION
    <2> QED BY <2>4 DEF families
<1>3. IsFiniteSet(here) /\ \A y \in here : AcceptedLeaf(y)
    <2>1. here \in SUBSET leaves
        OBVIOUS
    <2>2. IsFiniteSet(here)
        <3> HIDE DEF here, leaves
        <3> QED BY <1>2, <2>1, FS_Subset
    <2>3. \A y \in here : AcceptedLeaf(y)
        BY <1>1 DEF Accepted
    <2> QED BY <2>2, <2>3
<1>4. IsFiniteSet(need) /\ need \in SUBSET Nat
    <2> DEFINE each == [x \in here |-> BlockLookback(x)]
    <2>1. each \in Surjection(here, need)
        BY DEF Surjection
    <2>2. IsFiniteSet(need)
        <3> HIDE DEF each, here, need
        <3> QED BY <1>3, <2>1, FS_Surjection
    <2>3. \A y \in here : BlockLookback(y) \in Nat
        BY <1>3, BlockLookbackIs
    <2>4. need \in SUBSET Nat
        <3> HIDE DEF here
        <3> QED BY <2>3
    <2> QED BY <2>2, <2>4
<1>5. con.atr \in Nat
    BY <1>1 DEF Accepted
<1>6. IsFiniteSet(own) /\ IsFiniteSet(atr) /\ own \in SUBSET Nat /\ atr \in SUBSET Nat /\ own # {}
    <2>1. IsFiniteSet(own) /\ IsFiniteSet(atr)
        BY FS_Singleton, FS_EmptySet
    <2> QED BY <2>1, <1>5
<1> HIDE DEF need, own, atr, here, leaves
<1>7. IsFiniteSet(need \cup own \cup atr) /\ need \cup own \cup atr \in SUBSET Int /\ need \cup own \cup atr # {}
    <2>1. IsFiniteSet(need \cup own)
        BY <1>4, <1>6, FS_Union
    <2>2. IsFiniteSet((need \cup own) \cup atr)
        BY <2>1, <1>6, FS_Union
    <2> QED BY <2>2, <1>4, <1>6
<1>8. L = Max(need \cup own \cup atr)
    BY DEF RequiredLookback, need, own, atr, here, leaves
<1> DEFINE all == need \cup own \cup atr
<1>9. L \in all /\ L \in Int /\ \A y \in all : y <= L
    <2> HIDE DEF all, L
    <2>1. Max(all) \in all /\ Max(all) \in Int /\ \A y \in all : y <= Max(all)
        BY <1>7, MaxOfFinite DEF all
    <2> QED BY <2>1, <1>8 DEF all
<1>10. L \in Nat
    BY <1>4, <1>6, <1>9
<1>11. tf = Exec => L >= 1
    BY <1>9, <1>10 DEF own
<1>12. tf = Exec /\ con.atr > 0 => L >= con.atr + 1
    BY <1>9, <1>10, <1>5 DEF atr
<1>13. ASSUME NEW r \in con.rules, NEW x \in Leaves(r), x.tf = tf
       PROVE  BlockLookback(x) <= L
    <2>1. BlockLookback(x) \in need
        BY <1>13 DEF need, here, leaves
    <2> HIDE DEF L
    <2> QED BY <2>1, <1>9
<1> HIDE DEF L
<1> QED BY <1>10, <1>11, <1>12, <1>13 DEF L

\* The last of consecutive indices.
LEMMA KeepRemembers ==
    ASSUME NEW hist \in Seq(Nat), NEW last \in Int, NEW all \in Nat, NEW most \in Nat \ {0},
           \A k \in 1 .. Len(hist) : hist[k] = last - Len(hist) + k,
           Len(hist) <= all, Len(hist) = all \/ Len(hist) >= most
    PROVE  Remembers(Keep(hist, most), last, all, most)
<1> DEFINE n == Len(hist)
           a == n - most + 1
<1>1. n \in Nat /\ most \in Nat \ {0}
    OBVIOUS
<1>2. CASE n > most
    <2>1. a \in Nat \ {0} /\ n \in 0 .. Len(hist) /\ ~(n < a)
        BY <1>1, <1>2
    <2> DEFINE x == SubSeq(hist, a, n)
    <2>2. Keep(hist, most) = x
        BY <1>2 DEF Keep, Window
    <2>3. x \in Seq(Nat) /\ Len(x) = n - a + 1 /\ \A k \in 1 .. Len(x) : x[k] = hist[a - 1 + k]
        <3> HIDE DEF a, n
        <3> QED BY <2>1, StretchIsSeq
    <2> HIDE DEF x
    <2>4. Len(x) = most
        BY <2>3, <1>1
    <2>5. \A k \in 1 .. most : x[k] = last - most + k
        <3>1. \A k \in 1 .. most : a - 1 + k \in 1 .. n /\ a - 1 + k = n - most + k
            BY <1>1, <1>2
        <3>2. \A k \in 1 .. most : x[k] = hist[n - most + k]
            BY <2>3, <2>4, <3>1
        <3>3. \A k \in 1 .. most : hist[n - most + k] = last - n + (n - most + k)
            BY <3>1
        <3> QED BY <3>2, <3>3, <1>1
    <2>6. Len(x) = IF all <= most THEN all ELSE most
        BY <2>4, <1>1, <1>2
    <2> HIDE DEF n, a
    <2> QED BY <2>2, <2>3, <2>4, <2>5, <2>6 DEF Remembers
<1>3. CASE ~(n > most)
    <2>1. Keep(hist, most) = hist
        BY <1>3 DEF Keep
    <2>2. Len(hist) = IF all <= most THEN all ELSE most
        BY <1>3
    <2> QED BY <2>1, <2>2 DEF Remembers
<1> QED BY <1>2, <1>3

\* Candles that carry the times of a calendar, which rise.
Follows(feed, cal) ==
  /\ cal \in Calendars /\ feed \in Seq(Candle) /\ Len(feed) <= Len(cal)
  /\ \A i \in 1 .. Len(feed) : feed[i].t = cal[i]

LEMMA FeedIs ==
    ASSUME NEW feed, NEW cal, Follows(feed, cal)
    PROVE  /\ Len(feed) \in Nat /\ DOMAIN feed = 1 .. Len(feed)
           /\ cal \in Seq(Int) /\ Len(cal) \in Nat
           /\ ExecMinutes \in Nat \ {0} /\ CtxMinutes \in Nat \ {0} /\ Exec # Ctx
           /\ \A i \in 1 .. Len(cal) : cal[i] \in Int
           /\ \A i \in 1 .. Len(feed) : /\ feed[i] \in Candle /\ feed[i].t \in Int
                                        /\ feed[i].o \in Int /\ feed[i].h \in Int
                                        /\ feed[i].l \in Int /\ feed[i].c \in Int
                                        /\ CloseTime(feed[i], Exec) = feed[i].t + ExecMinutes
                                        /\ DecisionClose(feed[i]) = feed[i].t + ExecMinutes
           /\ \A i, j \in 1 .. Len(feed) : i < j => feed[i].t < feed[j].t
<1>1. cal \in Seq(Int) /\ Rising(cal) /\ ExecMinutes \in Nat \ {0} /\ CtxMinutes \in Nat \ {0} /\ Exec # Ctx
    BY ReplayAssumption DEF Follows
<1>2. feed \in Seq(Candle)
    BY DEF Follows
<1>3. \A i \in 1 .. Len(feed) : feed[i] \in Candle
    BY <1>2, ElementOfSeq
<1>4. \A i \in 1 .. Len(cal) : cal[i] \in Int
    BY <1>1, ElementOfSeq
<1>5. \A i, j \in 1 .. Len(feed) : i < j => feed[i].t < feed[j].t
    <2>1. Len(feed) <= Len(cal) /\ \A i \in 1 .. Len(feed) : feed[i].t = cal[i]
        BY DEF Follows
    <2>2. \A i, j \in 1 .. Len(cal) : i < j => cal[i] < cal[j]
        BY <1>1 DEF Rising
    <2>3. \A i \in 1 .. Len(feed) : i \in 1 .. Len(cal)
        BY <2>1, <1>1, <1>2
    <2> QED BY <2>1, <2>2, <2>3
<1>6. \A i \in 1 .. Len(feed) : feed[i].t \in Int /\ feed[i].o \in Int /\ feed[i].h \in Int
                                /\ feed[i].l \in Int /\ feed[i].c \in Int
    BY <1>3 DEF Candle
<1>7. \A i \in 1 .. Len(feed) : /\ CloseTime(feed[i], Exec) = feed[i].t + ExecMinutes
                                /\ DecisionClose(feed[i]) = feed[i].t + ExecMinutes
    BY DEF DecisionClose, CloseTime, Minutes
<1>8. Len(feed) \in Nat /\ DOMAIN feed = 1 .. Len(feed) /\ Len(cal) \in Nat
    BY <1>1, <1>2
<1> QED BY <1>1, <1>3, <1>4, <1>5, <1>6, <1>7, <1>8

\* The candles fed so far.
LEMMA BarsAre ==
    ASSUME Fed
    PROVE  /\ Len(bars) \in Nat /\ DOMAIN bars = 1 .. Len(bars)
           /\ calendar \in Seq(Int) /\ Len(calendar) \in Nat
           /\ ExecMinutes \in Nat \ {0} /\ CtxMinutes \in Nat \ {0} /\ Exec # Ctx
           /\ \A i \in 1 .. Len(calendar) : calendar[i] \in Int
           /\ \A i \in 1 .. Len(bars) : /\ bars[i] \in Candle /\ bars[i].t \in Int
                                        /\ bars[i].o \in Int /\ bars[i].h \in Int
                                        /\ bars[i].l \in Int /\ bars[i].c \in Int
                                        /\ CloseTime(bars[i], Exec) = bars[i].t + ExecMinutes
                                        /\ DecisionClose(bars[i]) = bars[i].t + ExecMinutes
           /\ \A i, j \in 1 .. Len(bars) : i < j => bars[i].t < bars[j].t
<1>1. Follows(bars, calendar)
    BY DEF Follows, Fed
<1> QED BY <1>1, FeedIs

\* What on_candle appends.
LEMMA NextCandleIs ==
    ASSUME Fed, NEW shape \in Shapes, OnCandle(NextCandle(shape))
    PROVE  /\ NextCandle(shape) \in Candle /\ NextCandle(shape).t = calendar[Len(bars) + 1]
           /\ bars' \in Seq(Candle) /\ Len(bars') = Len(bars) + 1
           /\ bars'[Len(bars) + 1] = NextCandle(shape)
           /\ \A i \in 1 .. Len(bars) : bars'[i] = bars[i]
           /\ contract' = contract /\ calendar' = calendar /\ context' = context /\ ended' = ended
<1> DEFINE bar == NextCandle(shape)
<1>1. Len(bars) + 1 \in 1 .. Len(calendar) /\ calendar[Len(bars) + 1] \in Int
    BY BarsAre DEF OnCandle
<1>2. shape \in Shaped
    BY ReplayAssumption
<1>3. bar \in Candle /\ bar.t = calendar[Len(bars) + 1]
    BY <1>1, <1>2 DEF NextCandle, Shaped, Candle
<1>4. bars' = Append(bars, bar) /\ bars \in Seq(Candle)
    BY DEF OnCandle, Fed
<1> HIDE DEF bar
<1>5. bars' \in Seq(Candle) /\ Len(bars') = Len(bars) + 1 /\ bars'[Len(bars) + 1] = bar
      /\ \A i \in 1 .. Len(bars) : bars'[i] = bars[i]
    BY <1>3, <1>4, AppendProperties
<1>6. contract' = contract /\ calendar' = calendar /\ context' = context /\ ended' = ended
    BY DEF OnCandle, inputs
<1> QED BY <1>3, <1>5, <1>6 DEF bar

LEMMA FedInit == ReplayInit => Fed
<1>1. <<>> \in Seq(Candle) /\ Len(<<>>) = 0
    OBVIOUS
<1>2. ASSUME ReplayInit PROVE Fed
    <2>1. calendar \in Seq(Int)
        BY <1>2, ReplayAssumption DEF ReplayInit
    <2>2. ended \in BOOLEAN
        BY <1>2 DEF ReplayInit
    <2>3. bars \in Seq(Candle) /\ Len(bars) <= Len(calendar) /\ signal = Len(bars) /\ before = 0
          /\ \A i \in 1 .. Len(bars) : bars[i].t = calendar[i]
        BY <1>1, <1>2, <2>1 DEF ReplayInit
    <2> QED BY <1>2, <2>2, <2>3 DEF ReplayInit, Fed
<1> QED BY <1>2

\* A candle fed to the kernel is the next one of the calendar, and the newest signal.
LEMMA FedStep ==
    ASSUME Fed, NEW shape \in Shapes, OnCandle(NextCandle(shape)),
           Shift(Len(bars) + 1) \/ Forget(Len(bars) + 1)
    PROVE  Fed'
<1>1. /\ NextCandle(shape) \in Candle /\ NextCandle(shape).t = calendar[Len(bars) + 1]
      /\ bars' \in Seq(Candle) /\ Len(bars') = Len(bars) + 1
      /\ bars'[Len(bars) + 1] = NextCandle(shape)
      /\ \A i \in 1 .. Len(bars) : bars'[i] = bars[i]
      /\ contract' = contract /\ calendar' = calendar /\ context' = context /\ ended' = ended
    BY NextCandleIs
<1>2. Len(bars) < Len(calendar)
    BY DEF OnCandle
<1>3. contract' \in Contracts /\ calendar' \in Calendars /\ context' \in Contexts /\ ended' \in BOOLEAN
    BY <1>1 DEF Fed
<1>4. bars' \in Seq(Candle) /\ Len(bars') <= Len(calendar')
    BY <1>1, <1>2, BarsAre
<1>5. \A i \in 1 .. Len(bars') : bars'[i].t = calendar'[i]
    <2>1. \A i \in 1 .. Len(bars) + 1 : i = Len(bars) + 1 \/ i \in 1 .. Len(bars)
        BY BarsAre
    <2>2. \A i \in 1 .. Len(bars) : bars[i].t = calendar[i]
        BY DEF Fed
    <2> QED BY <1>1, <2>1, <2>2
<1>6. signal' = Len(bars') /\ before' \in Nat /\ before' \in {0, signal' - 1}
    <2>1. signal = Len(bars) /\ Len(bars) \in Nat
        BY BarsAre DEF Fed
    <2> QED BY <2>1, <1>1 DEF Shift, Forget
<1> QED BY <1>3, <1>4, <1>5, <1>6 DEF Fed

\* The execution history with the next candle.
LEMMA Observation ==
    ASSUME Fed, Histories
    PROVE  LET n == Len(bars) + 1 IN
           /\ Observed(n) \in [{Exec, Ctx} -> Seq(Nat)]
           /\ Remembers(Observed(n)[Exec], n, n, RequiredLookback(contract, Exec, Exec) + 1)
           /\ Observed(n)[Ctx] = history[Ctx]
<1> DEFINE n == Len(bars) + 1
           h == history[Exec]
           L == RequiredLookback(contract, Exec, Exec)
           x == Append(h, n)
<1>1. history \in [{Exec, Ctx} -> Seq(Nat)] /\ h \in Seq(Nat) /\ Exec # Ctx /\ n \in Nat /\ Len(bars) \in Nat
    BY BarsAre DEF Histories
<1>2. L \in Nat
    BY LookbackIs DEF Fed
<1>3. (Len(h) = IF Len(bars) <= L + 1 THEN Len(bars) ELSE L + 1)
      /\ \A k \in 1 .. Len(h) : h[k] = Len(bars) - Len(h) + k
    BY DEF Histories, Remembers
<1> HIDE DEF h, L
<1>4. x \in Seq(Nat) /\ Len(x) = Len(h) + 1 /\ x[Len(h) + 1] = n /\ \A k \in 1 .. Len(h) : x[k] = h[k]
    <2> HIDE DEF n
    <2> QED BY <1>1, AppendProperties
<1> HIDE DEF x
<1>5. \A k \in 1 .. Len(x) : x[k] = n - Len(x) + k
    <2>1. ASSUME NEW k \in 1 .. Len(x) PROVE x[k] = n - Len(x) + k
        <3>1. Len(h) \in Nat
            BY <1>1
        <3>2. CASE k = Len(h) + 1
            BY <3>1, <3>2, <1>1, <1>4
        <3>3. CASE k # Len(h) + 1
            <4>1. k \in 1 .. Len(h)
                BY <3>1, <3>3, <1>4
            <4>2. x[k] = Len(bars) - Len(h) + k
                BY <4>1, <1>3, <1>4
            <4> QED BY <3>1, <4>2, <1>1, <1>4
        <3> QED BY <3>2, <3>3
    <2> QED BY <2>1
<1>6. Len(x) <= n /\ (Len(x) = n \/ Len(x) >= L + 1)
    BY <1>1, <1>2, <1>3, <1>4
<1>7. Remembers(Keep(x, L + 1), n, n, L + 1)
    <2>1. L + 1 \in Nat \ {0} /\ n \in Int
        BY <1>1, <1>2
    <2> HIDE DEF n
    <2> QED BY <2>1, <1>1, <1>4, <1>5, <1>6, KeepRemembers
<1>8. Observed(n) = [history EXCEPT ![Exec] = Keep(x, L + 1)]
    BY DEF Observed, x, h, L
<1>9. Keep(x, L + 1) \in Seq(Nat)
    BY <1>7 DEF Remembers
<1>10. Observed(n)[Exec] = Keep(x, L + 1) /\ Observed(n)[Ctx] = history[Ctx]
       /\ Observed(n) \in [{Exec, Ctx} -> Seq(Nat)]
    <2> HIDE DEF n
    <2> QED BY <1>1, <1>8, <1>9
<1> QED BY <1>7, <1>10 DEF L

\* Reading on to a decision: the source is read through the last context candle
\* that has closed, and the fresh ones are those of them inside the split.
LEMMA AdvanceIs ==
    ASSUME Fed, Histories, bars # <<>>
    PROVE  LET close == DecisionClose(bars[signal])
               last  == DueBy(context, close)
               adv   == Advance(calendar[1], close)
           IN /\ calendar[1] \in Int /\ close \in Int
              /\ last \in 0 .. Len(context) /\ Held \in 0 .. last
              /\ adv.taken \in 0 .. Len(context) /\ adv.pending \in {0, adv.taken}
              /\ last = IF adv.pending = 0 THEN adv.taken ELSE adv.taken - 1
              /\ adv.fresh \in Seq(Nat)
              /\ Inside(context, last, calendar[1]) = Inside(context, Held, calendar[1]) + Len(adv.fresh)
              /\ \A k \in 1 .. Len(adv.fresh) : adv.fresh[k] = last - Len(adv.fresh) + k
<1> DEFINE split == calendar[1]
           close == DecisionClose(bars[signal])
           due(j) == CloseTime(context[j], Ctx) <= close
           seen   == {j \in Held + 1 .. Len(context) : \A k \in Held + 1 .. j : due(k)}
           last   == DueBy(context, close)
           first  == DueBy(context, split)
           read   == [k \in 1 .. last - Held |-> Held + k]
           kept   == {k \in 1 .. last - Held : CloseTime(context[Held + k], Ctx) > split}
           fresh  == Chosen(read, kept)
           a      == IF first > Held THEN first - Held + 1 ELSE 1
           b      == last - Held
<1>1. signal \in 1 .. Len(bars) /\ signal = Len(bars)
    <2>1. Len(bars) \in Nat /\ Len(bars) # 0 /\ signal = Len(bars)
        BY BarsAre DEF Fed
    <2> QED BY <2>1
<1>2. split \in Int /\ close \in Int
    <2>1. 1 \in 1 .. Len(calendar)
        BY <1>1, BarsAre DEF Fed
    <2>2. close = bars[signal].t + ExecMinutes /\ bars[signal].t \in Int
        BY <1>1, BarsAre
    <2> QED BY <2>1, <2>2, BarsAre
<1> HIDE DEF split, close
<1>3. /\ context \in Seq(Candle) /\ last \in 0 .. Len(context) /\ first \in 0 .. Len(context)
      /\ \A k \in 1 .. Len(context) : /\ CloseTime(context[k], Ctx) \in Int
                                      /\ due(k) <=> k <= last
                                      /\ CloseTime(context[k], Ctx) <= split <=> k <= first
    BY <1>2, DueByIs DEF Fed
<1> HIDE DEF last, first
<1>4. Len(context) \in Nat /\ taken \in 0 .. Len(context) /\ pending \in {0, taken}
    BY <1>3 DEF Histories
<1>5. Held \in 0 .. Len(context)
    BY <1>4 DEF Held
<1>6. Held <= last
    <2>1. CASE Held > 0
        <3>1. due(Held)
            BY <2>1, <1>1 DEF Histories, close
        <3> QED BY <3>1, <2>1, <1>3, <1>5
    <2>2. CASE ~(Held > 0)
        BY <2>2, <1>3, <1>5
    <2> QED BY <2>1, <2>2
<1> HIDE DEF Held
<1>7. Max(seen \cup {Held}) = last
    <2>1. seen \cup {Held} \in SUBSET Int
        BY <1>4, <1>5
    <2>2. last \in seen \cup {Held}
        <3>1. CASE last = Held
            BY <3>1
        <3>2. CASE last # Held
            <4>1. last \in Held + 1 .. Len(context)
                BY <3>2, <1>3, <1>5, <1>6
            <4>2. \A k \in Held + 1 .. last : k \in 1 .. Len(context) /\ k <= last
                BY <4>1, <1>3, <1>5
            <4>3. \A k \in Held + 1 .. last : due(k)
                BY <4>2, <1>3
            <4> QED BY <4>1, <4>3
        <3> QED BY <3>1, <3>2
    <2>3. \A y \in seen \cup {Held} : y <= last
        <3>1. ASSUME NEW y \in seen PROVE y <= last
            <4>1. y \in Held + 1 .. y /\ y \in 1 .. Len(context)
                BY <1>5
            <4>2. due(y)
                BY <4>1
            <4> QED BY <4>1, <4>2, <1>3
        <3> QED BY <3>1, <1>6
    <2> HIDE DEF seen
    <2> QED BY <2>1, <2>2, <2>3, MaxIs
<1>8. Advance(split, close) = [taken   |-> IF last < Len(context) THEN last + 1 ELSE last,
                               pending |-> IF last < Len(context) THEN last + 1 ELSE 0,
                               fresh   |-> fresh]
    BY <1>7 DEF Advance, Held
<1>9. b \in Nat /\ read \in Seq(Nat) /\ Len(read) = b /\ \A k \in 1 .. b : read[k] = Held + k
    <2>1. b \in Nat
        BY <1>3, <1>5, <1>6
    <2>2. \A k \in 1 .. b : Held + k \in Nat
        BY <1>5, <2>1
    <2>3. read \in Seq(Nat)
        <3> HIDE DEF b
        <3> QED BY <2>1, <2>2 DEF b
    <2> QED BY <2>1, <2>3
<1>10. a \in Nat \ {0} /\ \A k \in 1 .. b : k \in kept <=> a <= k /\ k <= b
    <2>1. a \in Nat \ {0}
        BY <1>3, <1>5
    <2>2. ASSUME NEW k \in 1 .. b PROVE k \in kept <=> a <= k /\ k <= b
        <3>1. Held + k \in 1 .. Len(context) /\ k \in Nat /\ k <= b
            BY <1>3, <1>5, <1>6
        <3>2. CloseTime(context[Held + k], Ctx) > split <=> Held + k > first
            BY <3>1, <1>2, <1>3
        <3>3. k \in kept <=> Held + k > first
            BY <3>2
        <3>4. Held + k > first <=> a <= k
            BY <3>1, <1>3, <1>5
        <3> QED BY <3>1, <3>3, <3>4
    <2> QED BY <2>1, <2>2
<1> HIDE DEF read, kept
<1>11. fresh = SubSeq(read, a, b)
    <2> HIDE DEF a, b
    <2>1. b \in 0 .. Len(read)
        BY <1>9
    <2> QED BY <2>1, <1>9, <1>10, ChosenStretch
<1>12. /\ SubSeq(read, a, b) \in Seq(Nat)
       /\ Len(SubSeq(read, a, b)) = IF b < a THEN 0 ELSE b - a + 1
       /\ \A k \in 1 .. Len(SubSeq(read, a, b)) : SubSeq(read, a, b)[k] = read[a - 1 + k]
    <2> HIDE DEF a, b
    <2>1. b \in 0 .. Len(read)
        BY <1>9
    <2> QED BY <2>1, <1>9, <1>10, StretchIsSeq
<1> HIDE DEF fresh
<1>13. fresh \in Seq(Nat) /\ Len(fresh) = IF b < a THEN 0 ELSE b - a + 1
    BY <1>11, <1>12
<1>14. \A k \in 1 .. Len(fresh) : fresh[k] = last - Len(fresh) + k
    <2>1. ASSUME NEW k \in 1 .. Len(fresh) PROVE fresh[k] = last - Len(fresh) + k
        <3>1. Len(fresh) = b - a + 1
            BY <1>13, <1>9, <1>10
        <3>2. a - 1 + k \in 1 .. b
            <4> HIDE DEF a, b
            <4> QED BY <3>1, <1>9, <1>10
        <3>3. fresh[k] = read[a - 1 + k]
            BY <1>11, <1>12
        <3>4. fresh[k] = Held + (a - 1 + k)
            BY <3>2, <3>3, <1>9
        <3>5. b = last - Held
            OBVIOUS
        <3> HIDE DEF a, b
        <3> QED BY <3>1, <3>4, <3>5, <1>3, <1>5, <1>9, <1>10
    <2> QED BY <2>1
<1>15. Inside(context, last, split) = Inside(context, Held, split) + Len(fresh)
    <2>1. Inside(context, last, split) = (IF last = 0 THEN 0 ELSE IF last <= first THEN 0 ELSE last - first)
        BY DEF Inside, first
    <2>2. Inside(context, Held, split) = (IF Held = 0 THEN 0 ELSE IF Held <= first THEN 0 ELSE Held - first)
        BY DEF Inside, first
    <2> QED BY <2>1, <2>2, <1>3, <1>5, <1>6, <1>13
<1>16. Advance(split, close).fresh = fresh
    BY <1>8
<1>17. LET adv == Advance(split, close) IN
       /\ adv.taken \in 0 .. Len(context) /\ adv.pending \in {0, adv.taken}
       /\ last = IF adv.pending = 0 THEN adv.taken ELSE adv.taken - 1
    BY <1>3, <1>4, <1>8
<1> QED BY <1>2, <1>3, <1>5, <1>6, <1>13, <1>14, <1>15, <1>16, <1>17 DEF split, close, last

LEMMA HistoriesInit == ReplayInit => Histories
<1>1. <<>> \in Seq(Nat) /\ Len(<<>>) = 0 /\ Exec # Ctx
    BY ReplayAssumption
<1>2. ASSUME ReplayInit PROVE Histories
    <2>1. RequiredLookback(contract, Exec, Exec) \in Nat /\ RequiredLookback(contract, Ctx, Exec) \in Nat
        BY <1>2, LookbackIs DEF ReplayInit
    <2>2. history = [tf \in {Exec, Ctx} |-> <<>>] /\ bars = <<>> /\ taken = 0 /\ pending = 0
        BY <1>2 DEF ReplayInit
    <2>3. history \in [{Exec, Ctx} -> Seq(Nat)] /\ history[Exec] = <<>> /\ history[Ctx] = <<>>
        BY <1>1, <2>2
    <2>4. \A last \in Int, most \in Nat \ {0} : Remembers(<<>>, last, 0, most)
        BY <1>1 DEF Remembers
    <2>5. Held = 0 /\ Inside(context, Held, calendar[1]) = 0
        BY <2>2 DEF Held, Inside
    <2>6. taken \in 0 .. Len(context) /\ pending \in {0, taken}
        <3>1. context \in Seq(Candle)
            BY <1>2, ReplayAssumption DEF ReplayInit
        <3> QED BY <3>1, <2>2
    <2>7. Remembers(history[Exec], Len(bars), Len(bars), RequiredLookback(contract, Exec, Exec) + 1)
        BY <1>1, <2>1, <2>2, <2>3, <2>4
    <2>8. Remembers(history[Ctx], Held, 0, RequiredLookback(contract, Ctx, Exec) + 1)
        BY <2>1, <2>3, <2>4, <2>5
    <2> QED BY <2>3, <2>5, <2>6, <2>7, <2>8 DEF Histories
<1> QED BY <1>2

\* A candle that only enters the execution history.
LEMMA HistoriesObserve ==
    ASSUME Fed, Histories, NEW shape \in Shapes, OnCandle(NextCandle(shape)),
           history' = Observed(Len(bars) + 1), taken' = taken, pending' = pending
    PROVE  Histories'
<1> DEFINE n == Len(bars) + 1
<1>1. /\ Observed(n) \in [{Exec, Ctx} -> Seq(Nat)]
      /\ Remembers(Observed(n)[Exec], n, n, RequiredLookback(contract, Exec, Exec) + 1)
      /\ Observed(n)[Ctx] = history[Ctx]
    BY Observation
<1>2. /\ Len(bars') = n /\ bars'[n] = NextCandle(shape)
      /\ contract' = contract /\ calendar' = calendar /\ context' = context
      /\ NextCandle(shape) \in Candle /\ NextCandle(shape).t = calendar[n]
      /\ \A i \in 1 .. Len(bars) : bars'[i] = bars[i]
    BY NextCandleIs
<1>3. Held' = Held
    BY DEF Held
<1>4. Held > 0 => bars' # <<>> /\ CloseTime(context[Held], Ctx) <= DecisionClose(bars'[n])
    <2>1. ASSUME Held > 0 PROVE bars' # <<>> /\ CloseTime(context[Held], Ctx) <= DecisionClose(bars'[n])
        <3>1. bars # <<>> /\ CloseTime(context[Held], Ctx) <= DecisionClose(bars[Len(bars)])
              /\ Held \in 1 .. Len(context)
            BY <2>1 DEF Histories, Held
        <3>2. Len(bars) \in 1 .. Len(bars) /\ Len(bars) \in Nat
            BY <3>1, BarsAre DEF Fed
        <3>3. bars[Len(bars)].t < calendar[n]
            <4>1. calendar \in Calendars /\ Len(bars) < Len(calendar) /\ bars[Len(bars)].t = calendar[Len(bars)]
                BY <3>2 DEF Fed, OnCandle
            <4>2. Rising(calendar) /\ Len(bars) \in DOMAIN calendar /\ n \in DOMAIN calendar /\ Len(bars) < n
                BY <3>2, <4>1, BarsAre, ReplayAssumption
            <4> QED BY <4>1, <4>2 DEF Rising
        <3>4. DecisionClose(bars[Len(bars)]) <= DecisionClose(bars'[n])
            <4>1. DecisionClose(bars[Len(bars)]) = bars[Len(bars)].t + ExecMinutes /\ bars[Len(bars)].t \in Int
                  /\ ExecMinutes \in Int
                BY <3>2, BarsAre
            <4>2. DecisionClose(bars'[n]) = calendar[n] + ExecMinutes /\ calendar[n] \in Int
                BY <1>2 DEF DecisionClose, CloseTime, Minutes, Candle
            <4> QED BY <4>1, <4>2, <3>3
        <3>5. DecisionClose(bars[Len(bars)]) \in Int /\ DecisionClose(bars'[n]) \in Int
              /\ CloseTime(context[Held], Ctx) \in Int
            <4>1. DecisionClose(bars[Len(bars)]) \in Int
                BY <3>2, BarsAre
            <4>2. DecisionClose(bars'[n]) \in Int
                BY <1>2, BarsAre DEF DecisionClose, CloseTime, Minutes, Candle
            <4>3. CloseTime(context[Held], Ctx) \in Int
                BY <3>1, <4>1, DueByIs DEF Fed
            <4> QED BY <4>1, <4>2, <4>3
        <3>6. bars' # <<>>
            BY <1>2, <3>2
        <3> QED BY <3>1, <3>4, <3>5, <3>6
    <2> QED BY <2>1
<1>5. /\ history' \in [{Exec, Ctx} -> Seq(Nat)]
      /\ Remembers(history'[Exec], Len(bars'), Len(bars'), RequiredLookback(contract', Exec, Exec) + 1)
    BY <1>1, <1>2
<1>6. taken' \in 0 .. Len(context') /\ pending' \in {0, taken'}
    BY <1>2 DEF Histories
<1>7. Remembers(history'[Ctx], Held', Inside(context', Held', calendar'[1]), RequiredLookback(contract', Ctx, Exec) + 1)
    BY <1>1, <1>2, <1>3 DEF Histories
<1> QED BY <1>2, <1>3, <1>4, <1>5, <1>6, <1>7 DEF Histories

\* A candle at which the evaluator is asked about the signal before it.
LEMMA HistoriesDecide ==
    ASSUME Fed, Histories, NEW shape \in Shapes, OnCandle(NextCandle(shape)), bars # <<>>,
           Decide(NextCandle(shape), Len(bars) + 1)
    PROVE  /\ Histories'
           /\ Held' = DueBy(context, DecisionClose(bars[signal]))
<1> DEFINE n == Len(bars) + 1
           close == DecisionClose(bars[signal])
           adv == Advance(calendar[1], close)
           last == DueBy(context, close)
           L == RequiredLookback(contract, Ctx, Exec)
           h == history[Ctx]
           fresh == adv.fresh
           x == h \o fresh
<1>1. /\ Observed(n) \in [{Exec, Ctx} -> Seq(Nat)]
      /\ Remembers(Observed(n)[Exec], n, n, RequiredLookback(contract, Exec, Exec) + 1)
      /\ Observed(n)[Ctx] = h
    BY Observation
<1>2. /\ Len(bars') = n /\ bars'[n] = NextCandle(shape)
      /\ contract' = contract /\ calendar' = calendar /\ context' = context
      /\ NextCandle(shape) \in Candle /\ NextCandle(shape).t = calendar[n]
    BY NextCandleIs
<1>3. /\ calendar[1] \in Int /\ close \in Int
      /\ last \in 0 .. Len(context) /\ Held \in 0 .. last
      /\ adv.taken \in 0 .. Len(context) /\ adv.pending \in {0, adv.taken}
      /\ last = IF adv.pending = 0 THEN adv.taken ELSE adv.taken - 1
      /\ adv.fresh \in Seq(Nat)
      /\ Inside(context, last, calendar[1]) = Inside(context, Held, calendar[1]) + Len(adv.fresh)
      /\ \A k \in 1 .. Len(adv.fresh) : adv.fresh[k] = last - Len(adv.fresh) + k
    BY AdvanceIs
<1>4. /\ taken' = adv.taken /\ pending' = adv.pending
      /\ history' = [Observed(n) EXCEPT ![Ctx] = Keep(@ \o adv.fresh, L + 1)]
    BY DEF Decide
<1>5. /\ fresh \in Seq(Nat) /\ last \in Nat /\ Held \in Nat
       /\ Inside(context, last, calendar[1]) = Inside(context, Held, calendar[1]) + Len(fresh)
       /\ \A k \in 1 .. Len(fresh) : fresh[k] = last - Len(fresh) + k
    <2>1. Len(context) \in Nat
        BY <1>3, DueByIs DEF Fed
    <2> HIDE DEF last, adv
    <2> QED BY <2>1, <1>3
<1>6. \A k \in 1 .. Len(context) : /\ CloseTime(context[k], Ctx) \in Int
                                    /\ CloseTime(context[k], Ctx) <= close <=> k <= last
    <2>1. context \in Contexts
        BY DEF Fed
    <2> HIDE DEF close
    <2> QED BY <2>1, <1>3, DueByIs
<1>7. Exec # Ctx /\ L \in Nat /\ Len(context) \in Nat
    BY LookbackIs, BarsAre, ReplayAssumption DEF Fed
<1> HIDE DEF fresh, adv, last, close
<1>8. Held' = last
    BY <1>3, <1>4 DEF Held
<1>9. /\ h \in Seq(Nat) /\ Len(h) \in Nat /\ Inside(context, Held, calendar[1]) \in Nat
      /\ Len(h) = (IF Inside(context, Held, calendar[1]) <= L + 1 THEN Inside(context, Held, calendar[1]) ELSE L + 1)
      /\ \A k \in 1 .. Len(h) : h[k] = Held - Len(h) + k
    <2>1. Inside(context, Held, calendar[1]) \in Nat
        <3>1. DueBy(context, calendar[1]) \in 0 .. Len(context)
            BY <1>3, DueByIs DEF Fed
        <3> QED BY <3>1, <1>3, <1>7 DEF Inside
    <2> QED BY <2>1 DEF Histories, Remembers
<1> DEFINE c == Inside(context, Held, calendar[1])
           f == Len(fresh)
<1> HIDE DEF h, L
<1>10. x \in Seq(Nat) /\ Len(x) = Len(h) + f /\ f \in Nat
      /\ \A k \in 1 .. Len(h) + f : x[k] = IF k <= Len(h) THEN h[k] ELSE fresh[k - Len(h)]
    <2>1. h \in Seq(Nat) /\ fresh \in Seq(Nat)
        BY <1>5, <1>9
    <2>2. Len(fresh) \in Nat
        BY <2>1
    <2> QED BY <2>1, <2>2, ConcatProperties
<1>11. Len(h) > 0 => Held = last - f
    <2>1. ASSUME Len(h) > 0 PROVE Held = last - f
        <3>1. c > 0
            BY <2>1, <1>7, <1>9
        <3>2. DueBy(context, calendar[1]) \in 0 .. Len(context)
            BY <1>3, DueByIs DEF Fed
        <3>3. c = Held - DueBy(context, calendar[1]) /\ Held > DueBy(context, calendar[1])
            BY <3>1, <3>2, <1>3 DEF Inside
        <3>4. Inside(context, last, calendar[1]) = last - DueBy(context, calendar[1])
            BY <3>2, <3>3, <1>3 DEF Inside
        <3>5. f \in Nat
            BY <1>10
        <3>6. Inside(context, last, calendar[1]) = c + f
            BY <1>5
        <3>7. DueBy(context, calendar[1]) \in Int /\ last \in Int /\ Held \in Int
            BY <3>2, <1>7, <1>5
        <3> HIDE DEF f, c
        <3> QED BY <3>3, <3>4, <3>5, <3>6, <3>7
    <2> QED BY <2>1
<1> HIDE DEF x, c, f
<1>12. \A k \in 1 .. Len(x) : x[k] = last - Len(x) + k
    <2>1. ASSUME NEW k \in 1 .. Len(x) PROVE x[k] = last - Len(x) + k
        <3>1. CASE k <= Len(h)
            <4>1. k \in 1 .. Len(h) /\ k \in 1 .. Len(h) + f
                BY <3>1, <1>9, <1>10
            <4>2. x[k] = Held - Len(h) + k
                BY <4>1, <3>1, <1>9, <1>10
            <4>3. Held = last - f
                BY <4>1, <1>9, <1>11
            <4>4. Len(h) \in Nat /\ f \in Nat /\ last \in Nat /\ Len(x) = Len(h) + f
                BY <1>5, <1>9, <1>10
            <4> QED BY <4>2, <4>3, <4>4
        <3>2. CASE ~(k <= Len(h))
            <4>1. k - Len(h) \in 1 .. f /\ k \in 1 .. Len(h) + f
                BY <3>2, <1>9, <1>10
            <4>2. x[k] = fresh[k - Len(h)]
                BY <4>1, <3>2, <1>10
            <4>3. fresh[k - Len(h)] = last - f + (k - Len(h))
                BY <4>1, <1>5 DEF f
            <4>4. Len(h) \in Nat /\ f \in Nat /\ last \in Nat /\ Len(x) = Len(h) + f
                BY <1>5, <1>9, <1>10
            <4> QED BY <4>2, <4>3, <4>4
        <3> QED BY <3>1, <3>2
    <2> QED BY <2>1
<1>13. Inside(context, last, calendar[1]) = c + f /\ c \in Nat
    BY <1>5, <1>9 DEF c, f
<1>14. Len(x) <= c + f /\ (Len(x) = c + f \/ Len(x) >= L + 1)
    <2>1. Len(h) = IF c <= L + 1 THEN c ELSE L + 1
        BY <1>9 DEF c
    <2>2. Len(h) \in Nat /\ f \in Nat /\ c \in Nat /\ L \in Nat /\ Len(x) = Len(h) + f
        BY <1>7, <1>9, <1>10, <1>13
    <2> QED BY <2>1, <2>2
<1>15. Remembers(Keep(x, L + 1), last, c + f, L + 1)
    <2>1. last \in Int /\ c + f \in Nat /\ L + 1 \in Nat \ {0}
        BY <1>5, <1>7, <1>10, <1>13
    <2> QED BY <2>1, <1>10, <1>12, <1>14, KeepRemembers
<1>16. Keep(x, L + 1) \in Seq(Nat)
    BY <1>15 DEF Remembers
<1>17. history' \in [{Exec, Ctx} -> Seq(Nat)] /\ history'[Ctx] = Keep(x, L + 1) /\ history'[Exec] = Observed(n)[Exec]
    <2> HIDE DEF n
    <2> QED BY <1>1, <1>4, <1>7, <1>16 DEF x, L, fresh
<1>18. last > 0 => bars' # <<>> /\ CloseTime(context[last], Ctx) <= DecisionClose(bars'[n])
    <2>1. ASSUME last > 0 PROVE bars' # <<>> /\ CloseTime(context[last], Ctx) <= DecisionClose(bars'[n])
        <3>1. last \in 1 .. Len(context)
            BY <2>1, <1>3
        <3>2. CloseTime(context[last], Ctx) <= close /\ CloseTime(context[last], Ctx) \in Int
            BY <3>1, <1>5, <1>6
        <3>3. Len(bars) \in 1 .. Len(bars) /\ Len(bars) \in Nat /\ signal = Len(bars)
            BY BarsAre DEF Fed
        <3>4. bars[Len(bars)].t < calendar[n]
            <4>1. calendar \in Calendars /\ Len(bars) < Len(calendar) /\ bars[Len(bars)].t = calendar[Len(bars)]
                BY <3>3 DEF Fed, OnCandle
            <4>2. Rising(calendar) /\ Len(bars) \in DOMAIN calendar /\ n \in DOMAIN calendar /\ Len(bars) < n
                BY <3>3, <4>1, BarsAre, ReplayAssumption
            <4> QED BY <4>1, <4>2 DEF Rising
        <3>5. close = bars[Len(bars)].t + ExecMinutes /\ bars[Len(bars)].t \in Int /\ ExecMinutes \in Int
            BY <3>3, BarsAre DEF close
        <3>6. DecisionClose(bars'[n]) = calendar[n] + ExecMinutes /\ calendar[n] \in Int
            BY <1>2 DEF DecisionClose, CloseTime, Minutes, Candle
        <3>7. bars' # <<>>
            BY <1>2, <3>3
        <3> HIDE DEF n
        <3> QED BY <3>2, <3>4, <3>5, <3>6, <3>7
    <2> QED BY <2>1
<1>19. taken' \in 0 .. Len(context') /\ pending' \in {0, taken'}
    BY <1>2, <1>3, <1>4
<1>20. Remembers(history'[Exec], Len(bars'), Len(bars'), RequiredLookback(contract', Exec, Exec) + 1)
    BY <1>1, <1>2, <1>17
<1>21. Remembers(history'[Ctx], Held', Inside(context', Held', calendar'[1]), RequiredLookback(contract', Ctx, Exec) + 1)
    BY <1>2, <1>8, <1>13, <1>15, <1>17 DEF L
<1>22. Held' > 0 => bars' # <<>> /\ CloseTime(context'[Held'], Ctx) <= DecisionClose(bars'[Len(bars')])
    BY <1>2, <1>8, <1>18
<1>23. Histories'
    BY <1>17, <1>19, <1>20, <1>21, <1>22 DEF Histories
<1> QED BY <1>8, <1>23 DEF last, close

-----------------------------------------------------------------------------
(* Prices, labels and positions *)

LEMMA SignIs == Fed => sign \in {1, -1}
BY DEF sign

LEMMA TrueRangeIsInt ==
    ASSUME NEW x \in Candle, NEW y \in Candle
    PROVE  TrueRange(x, y) \in Int
<1> DEFINE Abs(v) == IF v < 0 THEN -v ELSE v
           a == x.h - x.l
           b == Abs(x.h - y.c)
           c == Abs(x.l - y.c)
<1>1. a \in Int /\ b \in Int /\ c \in Int
    BY DEF Candle
<1>2. TrueRange(x, y) = Max({a, b, c})
    BY DEF TrueRange
<1> HIDE DEF a, b, c
<1>3. IsFiniteSet({a, b, c})
    <2>1. IsFiniteSet({a}) /\ IsFiniteSet({b}) /\ IsFiniteSet({c})
        BY FS_Singleton
    <2>2. IsFiniteSet({a} \cup {b})
        BY <2>1, FS_Union
    <2>3. IsFiniteSet(({a} \cup {b}) \cup {c})
        BY <2>1, <2>2, FS_Union
    <2>4. ({a} \cup {b}) \cup {c} = {a, b, c}
        OBVIOUS
    <2> QED BY <2>3, <2>4
<1>4. {a, b, c} \in SUBSET Int /\ {a, b, c} # {}
    BY <1>1
<1>5. Max({a, b, c}) \in Int
    <2> DEFINE S == {a, b, c}
    <2>1. S \in SUBSET Int /\ S # {} /\ IsFiniteSet(S)
        BY <1>3, <1>4
    <2> HIDE DEF S
    <2>2. Max(S) \in Int
        BY <2>1, MaxOfFinite
    <2> QED BY <2>2 DEF S
<1> QED BY <1>2, <1>5

LEMMA AtrIsInt ==
    ASSUME NEW s \in Seq(Candle), NEW period \in Nat \ {0}
    PROVE  Atr(s, period) \in Int
<1>1. CASE Len(s) < period + 1
    BY <1>1 DEF Atr, NoAtr
<1>2. CASE ~(Len(s) < period + 1)
    <2> DEFINE n == Len(s)
               ranges == [k \in 1 .. period |-> TrueRange(s[n - k + 1], s[n - k])]
    <2>1. \A k \in 1 .. period : n - k + 1 \in 1 .. Len(s) /\ n - k \in 1 .. Len(s)
        BY <1>2
    <2>2. \A k \in 1 .. period : s[n - k + 1] \in Candle /\ s[n - k] \in Candle
        BY <2>1, ElementOfSeq
    <2>3. \A k \in 1 .. period : TrueRange(s[n - k + 1], s[n - k]) \in Int
        BY <2>2, TrueRangeIsInt
    <2>4. ranges \in Seq(Int)
        <3> HIDE DEF n
        <3> QED BY <2>3
    <2>5. Atr(s, period) = Total(ranges) \div period
        BY <1>2 DEF Atr
    <2> HIDE DEF ranges
    <2>6. Total(ranges) \in Int
        BY <2>4, TotalIsInt
    <2> QED BY <2>5, <2>6
<1> QED BY <1>1, <1>2

LEMMA StopDistanceIsInt ==
    ASSUME Fed, NEW avail, avail[Exec] \in Seq(Candle)
    PROVE  StopDistance(avail) \in Int
<1>1. contract.atr \in Nat /\ Stop \in Int
    BY ReplayAssumption DEF Fed, Accepted
<1>2. CASE contract.atr > 0
    BY <1>1, <1>2, AtrIsInt DEF StopDistance
<1>3. CASE ~(contract.atr > 0)
    BY <1>1, <1>3 DEF StopDistance
<1> QED BY <1>2, <1>3

LEMMA RegimeIsName == ASSUME NEW feed PROVE RegimeAfter(feed) \in RegimeNames
BY DEF RegimeAfter, RegimeNames, Labels

\* The label of the candles before a place leaves out what is fed behind it.
LEMMA PrefixOfAppend ==
    ASSUME NEW S, NEW s \in Seq(S), NEW x \in S, NEW b \in 0 .. Len(s)
    PROVE  SubSeq(Append(s, x), 1, b) = SubSeq(s, 1, b)
<1> DEFINE r == Append(s, x)
           y == SubSeq(s, 1, b)
           z == SubSeq(r, 1, b)
<1>1. r \in Seq(S) /\ Len(r) = Len(s) + 1 /\ Len(s) \in Nat /\ \A k \in 1 .. Len(s) : r[k] = s[k]
    BY AppendProperties
<1> HIDE DEF r
<1>2. 1 \in Nat \ {0} /\ b \in 0 .. Len(r) /\ b \in Nat
    BY <1>1
<1>3. y \in Seq(S) /\ (Len(y) = IF b < 1 THEN 0 ELSE b - 1 + 1) /\ \A k \in 1 .. Len(y) : y[k] = s[1 - 1 + k]
    BY <1>2, StretchIsSeq
<1>4. z \in Seq(S) /\ (Len(z) = IF b < 1 THEN 0 ELSE b - 1 + 1) /\ \A k \in 1 .. Len(z) : z[k] = r[1 - 1 + k]
    BY <1>1, <1>2, StretchIsSeq
<1> HIDE DEF y, z
<1>5. Len(y) = b /\ Len(z) = b
    BY <1>2, <1>3, <1>4
<1>6. \A k \in 1 .. b : y[k] = z[k]
    <2>1. \A k \in 1 .. b : 1 - 1 + k = k /\ k \in 1 .. Len(s)
        OBVIOUS
    <2> QED BY <2>1, <1>1, <1>3, <1>4, <1>5
<1>7. y = z
    BY <1>3, <1>4, <1>5, <1>6, SeqEqual
<1> QED BY <1>7 DEF y, z, r

LEMMA WholeIsSelf ==
    ASSUME NEW S, NEW s \in Seq(S)
    PROVE  SubSeq(s, 1, Len(s)) = s
BY SubSeqFull

-----------------------------------------------------------------------------
(* What is accumulated trade by trade *)

LEMMA ProfitIsInt ==
    ASSUME NEW ts \in Seq(TradeRecord), NEW k \in 1 .. Len(ts)
    PROVE  ts[k] \in TradeRecord /\ ts[k].pnl \in Int
<1>1. ts[k] \in TradeRecord
    BY ElementOfSeq
<1> QED BY <1>1 DEF TradeRecord

LEMMA SumIs ==
    ASSUME NEW ts \in Seq(TradeRecord), NEW i \in Nat \ {0}, NEW j \in i - 1 .. Len(ts)
    PROVE  /\ [k \in 1 .. j - i + 1 |-> ts[i + k - 1].pnl] \in Seq(Int)
           /\ Sum(ts, i, j) \in Int
<1> DEFINE m == j - i + 1
           ns == [k \in 1 .. m |-> ts[i + k - 1].pnl]
<1>1. m \in Nat /\ \A k \in 1 .. m : i + k - 1 \in 1 .. Len(ts)
    OBVIOUS
<1>2. \A k \in 1 .. m : ts[i + k - 1].pnl \in Int
    BY <1>1, ProfitIsInt
<1>3. ns \in Seq(Int)
    <2> HIDE DEF m
    <2> QED BY <1>1, <1>2
<1>4. Sum(ts, i, j) = Total(ns)
    BY DEF Sum
<1> HIDE DEF ns
<1>5. Total(ns) \in Int
    BY <1>3, TotalIsInt
<1> QED BY <1>3, <1>4, <1>5 DEF ns

\* The runs before one more trade, and those that end with it.
LEMMA SumAppend ==
    ASSUME NEW ts \in Seq(TradeRecord), NEW t \in TradeRecord
    PROVE  LET n == Len(ts) IN
           /\ Append(ts, t) \in Seq(TradeRecord) /\ Len(Append(ts, t)) = n + 1
           /\ Append(ts, t)[n + 1] = t /\ \A k \in 1 .. n : Append(ts, t)[k] = ts[k]
           /\ t.pnl \in Int /\ n \in Nat
           /\ \A i \in 1 .. n + 1 : /\ Sum(ts, i, n) \in Int
                                    /\ Sum(Append(ts, t), i, n + 1) = Sum(ts, i, n) + t.pnl
           /\ \A i, j \in 1 .. n : i <= j => /\ Sum(ts, i, j) \in Int
                                             /\ Sum(Append(ts, t), i, j) = Sum(ts, i, j)
           /\ Sum(ts, n + 1, n) = 0
<1> DEFINE n == Len(ts)
           r == Append(ts, t)
<1>1. r \in Seq(TradeRecord) /\ Len(r) = n + 1 /\ n \in Nat /\ r[n + 1] = t /\ \A k \in 1 .. n : r[k] = ts[k]
    BY AppendProperties
<1>2. t.pnl \in Int
    BY DEF TradeRecord
<1> HIDE DEF r
<1>3. ASSUME NEW i \in 1 .. n + 1
      PROVE  Sum(ts, i, n) \in Int /\ Sum(r, i, n + 1) = Sum(ts, i, n) + t.pnl
    <2> DEFINE m  == n - i + 1
               ns == [k \in 1 .. m |-> ts[i + k - 1].pnl]
               ms == [k \in 1 .. n + 1 - i + 1 |-> r[i + k - 1].pnl]
               ps == Append(ns, t.pnl)
    <2>1. i \in Nat \ {0} /\ n \in i - 1 .. Len(ts) /\ n + 1 \in i - 1 .. Len(r) /\ m \in Nat
        BY <1>1
    <2>2. ns \in Seq(Int) /\ Sum(ts, i, n) \in Int
        BY <2>1, SumIs
    <2>3. ms \in Seq(Int)
        <3> DEFINE e == n + 1
        <3>1. e \in i - 1 .. Len(r) /\ i \in Nat \ {0}
            BY <2>1
        <3> HIDE DEF e
        <3>2. [k \in 1 .. e - i + 1 |-> r[i + k - 1].pnl] \in Seq(Int)
            BY <3>1, <1>1, SumIs
        <3> QED BY <3>2 DEF e
    <2>4. Len(ns) = m /\ \A k \in 1 .. m : ns[k] = ts[i + k - 1].pnl
        <3> HIDE DEF m, n
        <3> QED BY <2>1
    <2>5. Len(ms) = m + 1 /\ \A k \in 1 .. m + 1 : ms[k] = r[i + k - 1].pnl
        <3> DEFINE m1 == n + 1 - i + 1
        <3>1. m1 \in Nat /\ m1 = m + 1
            BY <2>1, <1>1
        <3>2. Len(ms) = m1 /\ \A k \in 1 .. m1 : ms[k] = r[i + k - 1].pnl
            <4> HIDE DEF m1, n
            <4> QED BY <3>1 DEF m1
        <3> HIDE DEF m1, m, ms
        <3> QED BY <3>1, <3>2
    <2>6. Total(ns) = Sum(ts, i, n) /\ Total(ms) = Sum(r, i, n + 1)
        BY DEF Sum
    <2> HIDE DEF ns, ms
    <2>7. ps \in Seq(Int) /\ Len(ps) = m + 1 /\ ps[m + 1] = t.pnl /\ \A k \in 1 .. m : ps[k] = ns[k]
        <3> HIDE DEF m
        <3> QED BY <2>2, <2>4, <1>2, AppendProperties
    <2> HIDE DEF ps
    <2>8. \A k \in 1 .. m + 1 : ms[k] = ps[k]
        <3>1. ASSUME NEW k \in 1 .. m + 1 PROVE ms[k] = ps[k]
            <4>1. CASE k = m + 1
                <5>1. i + k - 1 = n + 1
                    BY <4>1, <1>1
                <5>2. ms[k] = t.pnl
                    <6> HIDE DEF m
                    <6> QED BY <5>1, <2>5, <1>1
                <5> HIDE DEF m
                <5> QED BY <5>2, <4>1, <2>7
            <4>2. CASE k # m + 1
                <5>1. k \in 1 .. m /\ i + k - 1 \in 1 .. n
                    BY <4>2, <2>1, <1>1
                <5>2. ms[k] = ts[i + k - 1].pnl
                    <6> HIDE DEF m
                    <6> QED BY <5>1, <2>5, <1>1
                <5> HIDE DEF m
                <5> QED BY <5>1, <5>2, <2>4, <2>7
            <4> QED BY <4>1, <4>2
        <3> QED BY <3>1
    <2>9. ms = ps
        <3> HIDE DEF m
        <3> QED BY <2>3, <2>5, <2>7, <2>8, SeqEqual
    <2>10. Total(ps) = Total(ns) + t.pnl
        BY <2>2, <1>2, TotalAppend DEF ps
    <2> QED BY <2>2, <2>6, <2>9, <2>10
<1>4. ASSUME NEW i \in 1 .. n, NEW j \in 1 .. n, i <= j
      PROVE  Sum(ts, i, j) \in Int /\ Sum(r, i, j) = Sum(ts, i, j)
    <2>1. i \in Nat \ {0} /\ j \in i - 1 .. Len(ts)
        BY <1>1, <1>4
    <2>2. Sum(ts, i, j) \in Int
        BY <2>1, SumIs
    <2>3. \A k \in 1 .. j - i + 1 : i + k - 1 \in 1 .. n
        BY <1>1, <1>4
    <2>4. \A k \in 1 .. j - i + 1 : r[i + k - 1].pnl = ts[i + k - 1].pnl
        BY <2>3, <1>1
    <2>5. [k \in 1 .. j - i + 1 |-> r[i + k - 1].pnl] = [k \in 1 .. j - i + 1 |-> ts[i + k - 1].pnl]
        BY <2>4
    <2> QED BY <2>2, <2>5 DEF Sum
<1>5. Sum(ts, n + 1, n) = 0
    <2>1. n - (n + 1) + 1 = 0
        BY <1>1
    <2>2. [k \in 1 .. n - (n + 1) + 1 |-> ts[n + 1 + k - 1].pnl] = <<>>
        BY <2>1
    <2> QED BY <2>2, TotalOfNone DEF Sum
<1> QED BY <1>1, <1>2, <1>3, <1>4, <1>5 DEF r

LEMMA AccumulatedNone ==
    ASSUME NEW kept, kept.equity = 0, kept.peak = 0, kept.drawdown = 0, kept.losing = 0, kept.maxLosing = 0
    PROVE  Accumulated(<<>>, kept)
<1>1. Len(<<>>) = 0 /\ <<>> \in Seq(TradeRecord)
    OBVIOUS
<1>2. Sum(<<>>, 1, 0) = 0
    <2>1. [k \in 1 .. 0 - 1 + 1 |-> (<<>>)[1 + k - 1].pnl] = <<>>
        OBVIOUS
    <2> QED BY <2>1, TotalOfNone DEF Sum
<1>3. NoWinner(<<>>, 0 - 0 + 1, 0)
    BY DEF NoWinner
<1> QED BY <1>1, <1>2, <1>3 DEF Accumulated

\* A trade is counted: the drawdown and the streak stay what they stand for.
LEMMA AccumulatedStep ==
    ASSUME NEW ts \in Seq(TradeRecord), NEW t \in TradeRecord, NEW regime, Accumulated(ts, totals)
    PROVE  Accumulated(Append(ts, t), Counted(t, regime))
<1> DEFINE n == Len(ts)
           r == Append(ts, t)
           p == t.pnl
           old == totals
           new == Counted(t, regime)
           fall == old.equity - old.peak
           low == new.equity - new.peak
<1>1. /\ r \in Seq(TradeRecord) /\ Len(r) = n + 1 /\ r[n + 1] = t /\ \A k \in 1 .. n : r[k] = ts[k]
      /\ p \in Int /\ n \in Nat
      /\ \A i \in 1 .. n + 1 : Sum(ts, i, n) \in Int /\ Sum(r, i, n + 1) = Sum(ts, i, n) + p
      /\ \A i, j \in 1 .. n : i <= j => Sum(ts, i, j) \in Int /\ Sum(r, i, j) = Sum(ts, i, j)
      /\ Sum(ts, n + 1, n) = 0
    BY SumAppend
<1>2. /\ old.equity \in Int /\ old.peak \in Int /\ old.drawdown \in Int
      /\ old.losing \in 0 .. n /\ old.maxLosing \in Nat
      /\ old.equity = Sum(ts, 1, n) /\ fall <= 0
      /\ \A i \in 1 .. n : fall <= Sum(ts, i, n)
      /\ fall = 0 \/ \E i \in 1 .. n : fall = Sum(ts, i, n)
      /\ old.drawdown <= 0
      /\ \A i, j \in 1 .. n : i <= j => old.drawdown <= Sum(ts, i, j)
      /\ old.drawdown = 0 \/ \E i, j \in 1 .. n : i <= j /\ old.drawdown = Sum(ts, i, j)
    BY DEF Accumulated
<1>3. /\ NoWinner(ts, n - old.losing + 1, n)
      /\ old.losing < n => ts[n - old.losing].pnl > 0
      /\ \A i, j \in 1 .. n : i <= j /\ NoWinner(ts, i, j) => j - i + 1 <= old.maxLosing
      /\ old.maxLosing = 0 \/ \E i, j \in 1 .. n : /\ i <= j /\ NoWinner(ts, i, j)
                                                   /\ old.maxLosing = j - i + 1
    BY DEF Accumulated
<1>4. /\ new.equity = old.equity + p
      /\ new.losing = IF p > 0 THEN 0 ELSE old.losing + 1
      /\ new.peak = Max({old.peak, old.equity + p})
      /\ new.drawdown = Min({old.drawdown, new.equity - new.peak})
      /\ new.maxLosing = Max({old.maxLosing, new.losing})
    BY DEF Counted
<1> HIDE DEF r, p, old, new
<1>5. /\ n \in Nat /\ p \in Int /\ old.equity \in Int /\ old.peak \in Int /\ fall <= 0
       /\ old.losing \in Nat /\ old.losing <= n /\ old.maxLosing \in Nat
    BY <1>1, <1>2
<1>6. new.equity \in Int /\ new.peak \in Int /\ new.losing \in 0 .. n + 1
      /\ new.peak = IF old.peak >= old.equity + p THEN old.peak ELSE old.equity + p
    <2>1. old.equity + p \in Int
        BY <1>1, <1>2
    <2>2. new.peak = IF old.peak >= old.equity + p THEN old.peak ELSE old.equity + p
        BY <2>1, <1>2, <1>4, MaxOfTwo
    <2>3. new.losing \in 0 .. n + 1
        BY <1>1, <1>2, <1>4
    <2> QED BY <2>1, <2>2, <2>3, <1>2, <1>4
<1>7. low = (IF fall + p < 0 THEN fall + p ELSE 0) /\ low \in Int /\ fall \in Int
    <2>1. new.equity = old.equity + p
        BY <1>4
    <2>2. new.peak = IF fall + p < 0 THEN old.peak ELSE old.equity + p
        BY <1>5, <1>6
    <2>3. low = new.equity - new.peak /\ new.equity \in Int /\ new.peak \in Int
        BY <1>6
    <2> HIDE DEF low
    <2> QED BY <2>1, <2>2, <2>3, <1>5
<1>8. (new.drawdown = IF old.drawdown <= low THEN old.drawdown ELSE low) /\ new.drawdown \in Int
    <2> HIDE DEF low
    <2>1. new.drawdown = Min({old.drawdown, low})
        BY <1>4 DEF low
    <2>2. new.drawdown = IF old.drawdown <= low THEN old.drawdown ELSE low
        BY <2>1, <1>2, <1>7, MinOfTwo
    <2> QED BY <2>2, <1>2, <1>7
<1>9. new.maxLosing = (IF old.maxLosing >= new.losing THEN old.maxLosing ELSE new.losing) /\ new.maxLosing \in Nat
    <2>1. new.losing \in Int /\ new.losing \in Nat
        BY <1>1, <1>6
    <2>2. new.maxLosing = IF old.maxLosing >= new.losing THEN old.maxLosing ELSE new.losing
        BY <2>1, <1>2, <1>4, MaxOfTwo
    <2> QED BY <2>1, <2>2, <1>2
<1> HIDE DEF low, fall
<1>10. new.equity = Sum(r, 1, n + 1)
    <2>1. 1 \in 1 .. n + 1
        BY <1>1
    <2> QED BY <2>1, <1>1, <1>2, <1>4
<1>11. \A i \in 1 .. n + 1 : low <= Sum(r, i, n + 1)
    <2>1. ASSUME NEW i \in 1 .. n + 1 PROVE low <= Sum(r, i, n + 1)
        <3>1. Sum(ts, i, n) \in Int /\ Sum(r, i, n + 1) = Sum(ts, i, n) + p
            BY <1>1
        <3>2. fall <= Sum(ts, i, n)
            <4>1. CASE i = n + 1
                BY <4>1, <1>1, <1>2
            <4>2. CASE i # n + 1
                <5>1. i \in 1 .. n
                    BY <4>2, <1>1
                <5> QED BY <5>1, <1>2
            <4> QED BY <4>1, <4>2
        <3> QED BY <3>1, <3>2, <1>1, <1>7
    <2> QED BY <2>1
<1>12. low = 0 \/ \E i \in 1 .. n + 1 : low = Sum(r, i, n + 1)
    <2>1. CASE fall + p < 0
        <3>1. low = fall + p
            BY <2>1, <1>7
        <3>2. CASE fall = 0
            <4>1. n + 1 \in 1 .. n + 1
                BY <1>1
            <4>2. low = Sum(r, n + 1, n + 1)
                BY <4>1, <3>1, <3>2, <1>1
            <4> QED BY <4>1, <4>2
        <3>3. ASSUME NEW i \in 1 .. n, fall = Sum(ts, i, n) PROVE \E k \in 1 .. n + 1 : low = Sum(r, k, n + 1)
            <4>1. i \in 1 .. n + 1
                BY <1>1
            <4>2. low = Sum(r, i, n + 1)
                BY <4>1, <3>1, <3>3, <1>1
            <4> QED BY <4>1, <4>2
        <3> QED BY <3>2, <3>3, <1>2
    <2>2. CASE ~(fall + p < 0)
        BY <2>2, <1>7
    <2> QED BY <2>1, <2>2
<1>13. low <= 0 /\ new.drawdown <= 0
    BY <1>1, <1>2, <1>7, <1>8
<1>14. \A i, j \in 1 .. n + 1 : i <= j => new.drawdown <= Sum(r, i, j)
    <2>1. ASSUME NEW i \in 1 .. n + 1, NEW j \in 1 .. n + 1, i <= j PROVE new.drawdown <= Sum(r, i, j)
        <3>1. CASE j = n + 1
            <4>1. low <= Sum(r, i, j) /\ Sum(r, i, j) \in Int
                <5>1. Sum(r, i, n + 1) \in Int
                    BY <1>1
                <5> QED BY <5>1, <3>1, <1>11
            <4> QED BY <4>1, <1>2, <1>7, <1>8
        <3>2. CASE j # n + 1
            <4>1. i \in 1 .. n /\ j \in 1 .. n
                BY <3>2, <2>1, <1>1
            <4>2. Sum(r, i, j) = Sum(ts, i, j) /\ Sum(ts, i, j) \in Int /\ old.drawdown <= Sum(ts, i, j)
                BY <4>1, <2>1, <1>1, <1>2
            <4> QED BY <4>2, <1>2, <1>7, <1>8
        <3> QED BY <3>1, <3>2
    <2> QED BY <2>1
<1>15. new.drawdown = 0 \/ \E i, j \in 1 .. n + 1 : i <= j /\ new.drawdown = Sum(r, i, j)
    <2>1. CASE old.drawdown <= low
        <3>1. new.drawdown = old.drawdown
            BY <2>1, <1>8
        <3>2. ASSUME NEW i \in 1 .. n, NEW j \in 1 .. n, i <= j, old.drawdown = Sum(ts, i, j)
              PROVE  \E i1, j1 \in 1 .. n + 1 : i1 <= j1 /\ new.drawdown = Sum(r, i1, j1)
            <4>1. i \in 1 .. n + 1 /\ j \in 1 .. n + 1 /\ Sum(r, i, j) = Sum(ts, i, j)
                BY <3>2, <1>1
            <4> QED BY <4>1, <3>1, <3>2
        <3> QED BY <3>1, <3>2, <1>2
    <2>2. CASE ~(old.drawdown <= low)
        <3>1. new.drawdown = low
            BY <2>2, <1>8
        <3>2. ASSUME NEW i \in 1 .. n + 1, low = Sum(r, i, n + 1)
              PROVE  \E i1, j1 \in 1 .. n + 1 : i1 <= j1 /\ new.drawdown = Sum(r, i1, j1)
            <4>1. n + 1 \in 1 .. n + 1 /\ i <= n + 1
                BY <1>1
            <4> QED BY <4>1, <3>1, <3>2
        <3> QED BY <3>1, <3>2, <1>12
    <2> QED BY <2>1, <2>2
<1>16. NoWinner(r, n + 1 - new.losing + 1, n + 1)
    <2>1. ASSUME NEW k \in n + 1 - new.losing + 1 .. n + 1 PROVE r[k].pnl <= 0
        <3>1. ~(p > 0) /\ new.losing = old.losing + 1
            BY <2>1, <1>1, <1>4
        <3>2. CASE k = n + 1
            BY <3>1, <3>2, <1>1 DEF p
        <3>3. CASE k # n + 1
            <4>1. k \in n - old.losing + 1 .. n /\ k \in 1 .. n
                BY <3>1, <3>3, <2>1, <1>1, <1>2
            <4>2. ts[k].pnl <= 0
                BY <4>1, <1>3 DEF NoWinner
            <4> QED BY <4>1, <4>2, <1>1
        <3> QED BY <3>2, <3>3
    <2> QED BY <2>1 DEF NoWinner
<1>17. new.losing < n + 1 => r[n + 1 - new.losing].pnl > 0
    <2>1. CASE p > 0
        <3>1. n + 1 - new.losing = n + 1
            BY <2>1, <1>1, <1>4
        <3> QED BY <3>1, <2>1, <1>1 DEF p
    <2>2. CASE ~(p > 0)
        <3>1. n + 1 - new.losing = n - old.losing /\ new.losing = old.losing + 1
            BY <2>2, <1>1, <1>2, <1>4
        <3>2. ASSUME new.losing < n + 1 PROVE r[n - old.losing].pnl > 0
            <4>1. old.losing < n /\ n - old.losing \in 1 .. n
                BY <3>1, <3>2, <1>1, <1>2
            <4> QED BY <4>1, <1>1, <1>3
        <3> QED BY <3>1, <3>2
    <2> QED BY <2>1, <2>2
<1>18. \A i, j \in 1 .. n : NoWinner(r, i, j) <=> NoWinner(ts, i, j)
    <2>1. ASSUME NEW i \in 1 .. n, NEW j \in 1 .. n PROVE NoWinner(r, i, j) <=> NoWinner(ts, i, j)
        <3>1. \A k \in i .. j : k \in 1 .. n
            BY <1>1
        <3>2. \A k \in i .. j : r[k] = ts[k]
            BY <3>1, <1>1
        <3> QED BY <3>2 DEF NoWinner
    <2> QED BY <2>1
<1>19. \A i, j \in 1 .. n + 1 : i <= j /\ NoWinner(r, i, j) => j - i + 1 <= new.maxLosing
    <2>1. ASSUME NEW i \in 1 .. n + 1, NEW j \in 1 .. n + 1, i <= j, NoWinner(r, i, j)
          PROVE  j - i + 1 <= new.maxLosing
        <3>1. CASE j = n + 1
            <4>1. r[n + 1].pnl <= 0
                BY <3>1, <2>1, <1>1 DEF NoWinner
            <4>2. ~(p > 0) /\ new.losing = old.losing + 1
                BY <4>1, <1>1, <1>4 DEF p
            <4>3. i > n - old.losing
                <5>1. SUFFICES ASSUME i <= n - old.losing PROVE FALSE
                    BY <1>1, <1>2
                <5>2. n - old.losing \in 1 .. n /\ old.losing < n /\ n - old.losing \in i .. j
                    BY <5>1, <3>1, <1>5
                <5>3. ts[n - old.losing].pnl > 0 /\ r[n - old.losing] = ts[n - old.losing]
                    BY <5>2, <1>1, <1>3
                <5>4. r[n - old.losing].pnl <= 0
                    BY <5>2, <2>1 DEF NoWinner
                <5>5. ts[n - old.losing].pnl \in Int
                    BY <5>2, ProfitIsInt
                <5> QED BY <5>3, <5>4, <5>5
            <4> QED BY <4>2, <4>3, <3>1, <1>1, <1>2, <1>9
        <3>2. CASE j # n + 1
            <4>1. i \in 1 .. n /\ j \in 1 .. n
                BY <3>2, <2>1, <1>1
            <4>2. j - i + 1 <= old.maxLosing
                BY <4>1, <2>1, <1>3, <1>18
            <4> QED BY <4>1, <4>2, <1>5, <1>6, <1>9
        <3> QED BY <3>1, <3>2
    <2> QED BY <2>1
<1>20. new.maxLosing = 0 \/ \E i, j \in 1 .. n + 1 : /\ i <= j /\ NoWinner(r, i, j)
                                                      /\ new.maxLosing = j - i + 1
    <2>1. CASE old.maxLosing >= new.losing
        <3>1. new.maxLosing = old.maxLosing
            BY <2>1, <1>9
        <3>2. ASSUME NEW i \in 1 .. n, NEW j \in 1 .. n, i <= j, NoWinner(ts, i, j), old.maxLosing = j - i + 1
              PROVE  \E i1, j1 \in 1 .. n + 1 : /\ i1 <= j1 /\ NoWinner(r, i1, j1)
                                                /\ new.maxLosing = j1 - i1 + 1
            <4>1. i \in 1 .. n + 1 /\ j \in 1 .. n + 1 /\ NoWinner(r, i, j)
                BY <3>2, <1>1, <1>18
            <4> QED BY <4>1, <3>1, <3>2
        <3> QED BY <3>1, <3>2, <1>3
    <2>2. CASE ~(old.maxLosing >= new.losing)
        <3>1. new.maxLosing = new.losing /\ new.losing > 0
            BY <2>2, <1>1, <1>2, <1>6, <1>9
        <3>2. new.losing = old.losing + 1
            BY <3>1, <1>4
        <3> DEFINE i == n + 1 - new.losing + 1
        <3>3. i \in 1 .. n + 1 /\ n + 1 \in 1 .. n + 1 /\ i <= n + 1 /\ new.losing = n + 1 - i + 1
            BY <3>1, <3>2, <1>5
        <3>4. NoWinner(r, i, n + 1)
            BY <1>16
        <3> HIDE DEF i
        <3> QED BY <3>1, <3>3, <3>4
    <2> QED BY <2>1, <2>2
<1>21. Accumulated(r, new)
    <2>1. /\ new.equity \in Int /\ new.peak \in Int /\ new.drawdown \in Int
          /\ new.losing \in 0 .. Len(r) /\ new.maxLosing \in Nat
        BY <1>1, <1>6, <1>8, <1>9
    <2>2. n \in Nat /\ Len(r) = n + 1 /\ low = new.equity - new.peak
        BY <1>1 DEF low
    <2> HIDE DEF n, low
    <2>3. /\ new.equity = Sum(r, 1, Len(r)) /\ low <= 0
          /\ \A i \in 1 .. Len(r) : low <= Sum(r, i, Len(r))
          /\ low = 0 \/ \E i \in 1 .. Len(r) : low = Sum(r, i, Len(r))
        BY <2>2, <1>10, <1>11, <1>12, <1>13
    <2>4. /\ new.drawdown <= 0
          /\ \A i, j \in 1 .. Len(r) : i <= j => new.drawdown <= Sum(r, i, j)
          /\ new.drawdown = 0 \/ \E i, j \in 1 .. Len(r) : i <= j /\ new.drawdown = Sum(r, i, j)
        BY <2>2, <1>13, <1>14, <1>15
    <2>5. /\ NoWinner(r, Len(r) - new.losing + 1, Len(r))
          /\ new.losing < Len(r) => r[Len(r) - new.losing].pnl > 0
          /\ \A i, j \in 1 .. Len(r) : i <= j /\ NoWinner(r, i, j) => j - i + 1 <= new.maxLosing
          /\ new.maxLosing = 0 \/ \E i, j \in 1 .. Len(r) : /\ i <= j /\ NoWinner(r, i, j)
                                                            /\ new.maxLosing = j - i + 1
        <3>1. NoWinner(r, Len(r) - new.losing + 1, Len(r))
            BY <2>1, <2>2, <1>16
        <3>2. new.losing < Len(r) => r[Len(r) - new.losing].pnl > 0
            BY <2>1, <2>2, <1>17
        <3>3. \A i, j \in 1 .. Len(r) : i <= j /\ NoWinner(r, i, j) => j - i + 1 <= new.maxLosing
            BY <2>2, <1>19
        <3>4. new.maxLosing = 0 \/ \E i, j \in 1 .. Len(r) : /\ i <= j /\ NoWinner(r, i, j)
                                                            /\ new.maxLosing = j - i + 1
            BY <2>2, <1>20
        <3> QED BY <3>1, <3>2, <3>3, <3>4
    <2> QED BY <2>1, <2>2, <2>3, <2>4, <2>5 DEF Accumulated
<1> QED BY <1>21 DEF r, new

LEMMA UnderRegimeIs ==
    ASSUME NEW feed, NEW ts \in Seq(TradeRecord), NEW l
    PROVE  /\ UnderRegime(feed, ts, l) \in Seq(Int)
           /\ Len(UnderRegime(feed, ts, l)) = Len(ts)
           /\ \A k \in 1 .. Len(ts) :
                UnderRegime(feed, ts, l)[k] =
                  IF RegimeAfter(SubSeq(feed, 1, ts[k].entryBar - 1)) = l THEN ts[k].pnl ELSE 0
<1> DEFINE n == Len(ts)
           e(k) == IF RegimeAfter(SubSeq(feed, 1, ts[k].entryBar - 1)) = l THEN ts[k].pnl ELSE 0
<1>1. n \in Nat /\ \A k \in 1 .. n : ts[k].pnl \in Int
    BY ProfitIsInt
<1>2. \A k \in 1 .. n : e(k) \in Int
    BY <1>1
<1>3. UnderRegime(feed, ts, l) = [k \in 1 .. n |-> e(k)]
    BY DEF UnderRegime
<1> HIDE DEF e, n
<1>4. [k \in 1 .. n |-> e(k)] \in Seq(Int)
    BY <1>1, <1>2
<1>5. Len([k \in 1 .. n |-> e(k)]) = n
    BY <1>1
<1> QED BY <1>3, <1>4, <1>5 DEF e, n

\* A candle fed later changes nothing of what the trades before were counted under.
LEMMA UnderRegimeFeed ==
    ASSUME NEW feed \in Seq(Candle), NEW bar \in Candle, NEW ts \in Seq(TradeRecord), NEW l,
           \A k \in 1 .. Len(ts) : ts[k].entryBar \in 1 .. Len(feed) + 1
    PROVE  UnderRegime(Append(feed, bar), ts, l) = UnderRegime(feed, ts, l)
<1>1. \A k \in 1 .. Len(ts) : SubSeq(Append(feed, bar), 1, ts[k].entryBar - 1) = SubSeq(feed, 1, ts[k].entryBar - 1)
    <2>1. ASSUME NEW k \in 1 .. Len(ts)
          PROVE  SubSeq(Append(feed, bar), 1, ts[k].entryBar - 1) = SubSeq(feed, 1, ts[k].entryBar - 1)
        <3>1. ts[k].entryBar - 1 \in 0 .. Len(feed)
            OBVIOUS
        <3> QED BY <3>1, PrefixOfAppend
    <2> QED BY <2>1
<1> QED BY <1>1 DEF UnderRegime

\* One more trade adds to the regime before its entry, and to no other.
LEMMA UnderRegimeTrade ==
    ASSUME NEW feed, NEW ts \in Seq(TradeRecord), NEW t \in TradeRecord, NEW l
    PROVE  Total(UnderRegime(feed, Append(ts, t), l)) =
             Total(UnderRegime(feed, ts, l))
               + IF RegimeAfter(SubSeq(feed, 1, t.entryBar - 1)) = l THEN t.pnl ELSE 0
<1> DEFINE n == Len(ts)
           r == Append(ts, t)
           p == IF RegimeAfter(SubSeq(feed, 1, t.entryBar - 1)) = l THEN t.pnl ELSE 0
           x == UnderRegime(feed, r, l)
           y == UnderRegime(feed, ts, l)
           z == Append(y, p)
           e(k) == IF RegimeAfter(SubSeq(feed, 1, r[k].entryBar - 1)) = l THEN r[k].pnl ELSE 0
<1>1. r \in Seq(TradeRecord) /\ Len(r) = n + 1 /\ n \in Nat /\ r[n + 1] = t /\ \A k \in 1 .. n : r[k] = ts[k]
    BY AppendProperties
<1> HIDE DEF r
<1>2. p \in Int
    BY DEF TradeRecord
<1>3. x \in Seq(Int) /\ Len(x) = n + 1 /\ \A k \in 1 .. n + 1 : x[k] = e(k)
    <2> HIDE DEF n
    <2> QED BY <1>1, UnderRegimeIs
<1>4. y \in Seq(Int) /\ Len(y) = n /\ \A k \in 1 .. n : y[k] = e(k)
    <2>1. y \in Seq(Int) /\ Len(y) = n
          /\ \A k \in 1 .. n : y[k] = IF RegimeAfter(SubSeq(feed, 1, ts[k].entryBar - 1)) = l THEN ts[k].pnl ELSE 0
        BY UnderRegimeIs
    <2> HIDE DEF y, n
    <2> QED BY <2>1, <1>1
<1>5. e(n + 1) = p
    BY <1>1
<1> HIDE DEF x, y, p, e
<1>6. z \in Seq(Int) /\ Len(z) = n + 1 /\ z[n + 1] = p /\ \A k \in 1 .. n : z[k] = y[k]
    <2> HIDE DEF n
    <2> QED BY <1>2, <1>4, AppendProperties
<1> HIDE DEF z
<1>7. \A k \in 1 .. n + 1 : x[k] = z[k]
    <2>1. \A k \in 1 .. n + 1 : k = n + 1 \/ k \in 1 .. n
        BY <1>1
    <2> HIDE DEF n
    <2> QED BY <2>1, <1>3, <1>4, <1>5, <1>6
<1>8. x = z
    <2> HIDE DEF n
    <2> QED BY <1>3, <1>6, <1>7, SeqEqual
<1>9. Total(z) = Total(y) + p
    BY <1>2, <1>4, TotalAppend DEF z
<1> QED BY <1>8, <1>9 DEF x, y, p, r

-----------------------------------------------------------------------------
(* Positions and records *)

\* A candle widens the excursions of a position and nothing else.
LEMMA WidenedIs ==
    ASSUME NEW pos \in Position, NEW bar \in Candle
    PROVE  LET w == Widened(pos, bar) IN
           /\ w \in Position /\ w.signal = pos.signal /\ w.bar = pos.bar /\ w.entry = pos.entry
           /\ w.stop = pos.stop /\ w.target = pos.target
           /\ w.high = (IF pos.high >= bar.h THEN pos.high ELSE bar.h)
           /\ w.low = (IF pos.low <= bar.l THEN pos.low ELSE bar.l)
<1>1. pos.high \in Int /\ pos.low \in Int /\ bar.h \in Int /\ bar.l \in Int
    BY DEF Position, Candle
<1>2. /\ Max({pos.high, bar.h}) = (IF pos.high >= bar.h THEN pos.high ELSE bar.h)
      /\ Min({pos.low, bar.l}) = (IF pos.low <= bar.l THEN pos.low ELSE bar.l)
    BY <1>1, MaxOfTwo, MinOfTwo
<1> QED BY <1>1, <1>2 DEF Widened, Position

\* A record keeps the signal and the entry of its position.
LEMMA RecordIs ==
    ASSUME Fed, NEW pos \in Position, NEW i \in Nat, NEW price \in Int,
           NEW reason \in {"STOP_LOSS", "AMBIGUOUS_STOP_FIRST", "TAKE_PROFIT", "DATA_END"}
    PROVE  LET t == Record(pos, i, price, reason) IN
           t \in TradeRecord /\ t.signal = pos.signal /\ t.entryBar = pos.bar /\ t.exitBar = i
<1>1. sign \in Int /\ Commission \in Int
    BY SignIs, ReplayAssumption
<1>2. /\ pos.signal \in Nat /\ pos.bar \in Nat /\ pos.entry \in Int /\ pos.high \in Int /\ pos.low \in Int
    BY DEF Position
<1> DEFINE adverse == IF sign = 1 THEN pos.low ELSE pos.high
           favourable == IF sign = 1 THEN pos.high ELSE pos.low
<1>3. adverse \in Int /\ favourable \in Int
    BY <1>2
<1> HIDE DEF adverse, favourable
<1>4. /\ sign * (price - pos.entry) - Commission \in Int
      /\ sign * (adverse - pos.entry) \in Int
      /\ sign * (favourable - pos.entry) \in Int
    <2> HIDE DEF sign
    <2> QED BY <1>1, <1>2, <1>3
<1>5. Record(pos, i, price, reason) =
        [signal |-> pos.signal, entryBar |-> pos.bar, exitBar |-> i, entry |-> pos.entry,
         exit |-> price, reason |-> reason, pnl |-> sign * (price - pos.entry) - Commission,
         mae |-> sign * (adverse - pos.entry), mfe |-> sign * (favourable - pos.entry)]
    BY DEF Record, adverse, favourable
<1> QED BY <1>2, <1>4, <1>5 DEF TradeRecord

LEMMA ExitedIs ==
    ASSUME Fed, NEW pos \in Position, NEW i \in Nat, NEW bar
    PROVE  LET t == Exited(pos, i, bar) IN
           t \in TradeRecord /\ t.signal = pos.signal /\ t.entryBar = pos.bar /\ t.exitBar = i
<1>1. pos.stop \in Int /\ pos.target \in Int
    BY DEF Position
<1> DEFINE reason == IF TargetHit(pos, bar) THEN "AMBIGUOUS_STOP_FIRST" ELSE "STOP_LOSS"
<1>2. reason \in {"STOP_LOSS", "AMBIGUOUS_STOP_FIRST", "TAKE_PROFIT", "DATA_END"}
    OBVIOUS
<1>3. CASE StopHit(pos, bar)
    <2>1. Exited(pos, i, bar) = Record(pos, i, pos.stop, reason)
        BY <1>3 DEF Exited
    <2> HIDE DEF reason
    <2> QED BY <2>1, <1>1, <1>2, RecordIs
<1>4. CASE ~StopHit(pos, bar)
    <2>1. Exited(pos, i, bar) = Record(pos, i, pos.target, "TAKE_PROFIT")
        BY <1>4 DEF Exited
    <2> QED BY <2>1, <1>1, RecordIs
<1> QED BY <1>3, <1>4

\* The position of an entry, with its distances from the decision.
LEMMA OpenedIs ==
    ASSUME Fed, NEW i \in Nat, NEW bar \in Candle, NEW avail, avail[Exec] \in Seq(Candle)
    PROVE  LET pos == Opened(i, bar, avail) IN
           /\ pos \in Position /\ pos.signal = signal /\ pos.bar = i
           /\ pos.entry = bar.o + sign * Spread
           /\ pos.stop = pos.entry - sign * StopDistance(avail) /\ pos.target = pos.entry + sign * Target
           /\ pos.high = bar.h /\ pos.low = bar.l
<1>1. sign \in Int /\ Spread \in Int /\ Target \in Int /\ StopDistance(avail) \in Int
    BY SignIs, StopDistanceIsInt, ReplayAssumption
<1>2. bar.o \in Int /\ bar.h \in Int /\ bar.l \in Int /\ signal \in Nat
    BY BarsAre DEF Candle, Fed
<1> DEFINE entry == bar.o + sign * Spread
<1>3. entry \in Int /\ entry - sign * StopDistance(avail) \in Int /\ entry + sign * Target \in Int
    <2>1. entry \in Int
        BY <1>1, <1>2
    <2> HIDE DEF entry
    <2> QED BY <2>1, <1>1
<1> HIDE DEF entry
<1>4. Opened(i, bar, avail) = [signal |-> signal, bar |-> i, entry |-> entry,
                               stop |-> entry - sign * StopDistance(avail), target |-> entry + sign * Target,
                               high |-> bar.h, low |-> bar.l]
    BY DEF Opened, entry
<1> QED BY <1>2, <1>3, <1>4 DEF Position, entry

LEMMA MeasuredNone ==
    ASSUME ReplayInit
    PROVE  Measured(bars, trades, totals)
<1>1. /\ bars = <<>> /\ trades = <<>>
      /\ totals = [count |-> 0, equity |-> 0, peak |-> 0, drawdown |-> 0, losing |-> 0,
                   maxLosing |-> 0, byRegime |-> [l \in RegimeNames |-> 0]]
    BY DEF ReplayInit, RegimeNames
<1>2. Accumulated(<<>>, totals)
    BY <1>1, AccumulatedNone
<1>3. \A l : UnderRegime(<<>>, <<>>, l) = <<>>
    BY DEF UnderRegime
<1>4. ByRegime(bars, trades, totals)
    BY <1>1, <1>3, TotalOfNone DEF ByRegime
<1>5. totals \in [count : Nat, equity : Int, peak : Int, drawdown : Int, losing : Nat,
                  maxLosing : Nat, byRegime : [RegimeNames -> Int]]
    BY <1>1
<1> QED BY <1>1, <1>2, <1>4, <1>5 DEF Measured

\* A further candle changes no trade's regime: entries lie behind it.
LEMMA MeasuredFeed ==
    ASSUME NEW feed \in Seq(Candle), NEW bar \in Candle, NEW ts \in Seq(TradeRecord), NEW kept,
           \A k \in 1 .. Len(ts) : ts[k].entryBar \in 1 .. Len(feed) + 1,
           Measured(feed, ts, kept)
    PROVE  Measured(Append(feed, bar), ts, kept)
<1>1. \A l : UnderRegime(Append(feed, bar), ts, l) = UnderRegime(feed, ts, l)
    BY UnderRegimeFeed
<1> QED BY <1>1 DEF Measured, ByRegime

\* A trade counted under the regime of the candles before its entry candle.
LEMMA MeasuredTrade ==
    ASSUME NEW feed, NEW ts \in Seq(TradeRecord), NEW t \in TradeRecord,
           Measured(feed, ts, totals),
           NEW regime, regime = RegimeAfter(SubSeq(feed, 1, t.entryBar - 1))
    PROVE  Measured(feed, Append(ts, t), Counted(t, regime))
<1> DEFINE new == Counted(t, regime)
<1>1. Accumulated(Append(ts, t), new)
    BY AccumulatedStep DEF Measured
<1>2. regime \in RegimeNames /\ regime # NoTrade /\ t.pnl \in Int
    BY RegimeIsName, ReplayAssumption DEF RegimeNames, TradeRecord
<1>3. totals.count \in Nat /\ totals.byRegime \in [RegimeNames -> Int]
    BY DEF Measured
<1>4. new.byRegime = [totals.byRegime EXCEPT ![regime] = @ + t.pnl]
    BY <1>2 DEF Counted
<1>5. new.byRegime \in [RegimeNames -> Int]
    BY <1>2, <1>3, <1>4
<1>6. \A l \in RegimeNames : new.byRegime[l] = Total(UnderRegime(feed, Append(ts, t), l))
    <2>1. ASSUME NEW l \in RegimeNames PROVE new.byRegime[l] = Total(UnderRegime(feed, Append(ts, t), l))
        <3>1. Total(UnderRegime(feed, Append(ts, t), l)) =
                Total(UnderRegime(feed, ts, l)) + IF regime = l THEN t.pnl ELSE 0
            BY UnderRegimeTrade
        <3>2. totals.byRegime[l] = Total(UnderRegime(feed, ts, l)) /\ totals.byRegime[l] \in Int
            BY DEF Measured, ByRegime
        <3>3. new.byRegime[l] = IF regime = l THEN totals.byRegime[l] + t.pnl ELSE totals.byRegime[l]
            BY <1>2, <1>3, <1>4
        <3> QED BY <3>1, <3>2, <3>3, <1>2
    <2> QED BY <2>1
<1>7. new \in [count : Nat, equity : Int, peak : Int, drawdown : Int, losing : Nat,
               maxLosing : Nat, byRegime : [RegimeNames -> Int]]
    <2>1. /\ new.equity \in Int /\ new.peak \in Int /\ new.drawdown \in Int
          /\ new.losing \in Nat /\ new.maxLosing \in Nat /\ new.count \in Nat
        <3>1. new.count = totals.count + 1
            BY DEF Counted
        <3>2. Append(ts, t) \in Seq(TradeRecord)
            BY AppendProperties
        <3>3. Len(Append(ts, t)) \in Nat
            BY <3>2
        <3> HIDE DEF new
        <3> QED BY <3>1, <3>3, <1>1, <1>3 DEF Accumulated
    <2>2. new = [count |-> new.count, equity |-> new.equity, peak |-> new.peak, drawdown |-> new.drawdown,
                 losing |-> new.losing, maxLosing |-> new.maxLosing, byRegime |-> new.byRegime]
        BY DEF Counted
    <2> HIDE DEF new
    <2> QED BY <2>1, <2>2, <1>5
<1> HIDE DEF new
<1>8. ByRegime(feed, Append(ts, t), new)
    BY <1>5, <1>6 DEF ByRegime
<1>9. Measured(feed, Append(ts, t), new)
    BY <1>1, <1>7, <1>8 DEF Measured
<1> QED BY <1>9 DEF new

-----------------------------------------------------------------------------
(* The books step by step *)

LEMMA BooksInit == ReplayInit => Books /\ Labelled
<1>1. <<>> \in Seq(TradeRecord) /\ Len(<<>>) = 0 /\ <<>> \in Seq(Candle)
    OBVIOUS
<1>2. RegimeAfter(<<>>) = Warmup
    <2>1. RegimeLookback \in Nat /\ 0 < RegimeLookback + 1
        BY ReplayAssumption
    <2> QED BY <1>1, <2>1 DEF RegimeAfter
<1>3. ASSUME ReplayInit PROVE Books /\ Labelled
    <2>1. trades = <<>> /\ active = NoTrade /\ ended = FALSE /\ bars = <<>>
          /\ regimes = [current |-> Warmup, pre |-> Warmup, entry |-> NoTrade]
        BY <1>3 DEF ReplayInit
    <2>2. Books
        BY <1>1, <2>1 DEF Books, OnePositionAtATime
    <2>3. Labelled
        BY <1>2, <2>1 DEF Labelled, RegimeNames
    <2> QED BY <2>2, <2>3
<1> QED BY <1>3

\* What the books say of the trade before a new one, and of the open position.
LEMMA BooksAre ==
    ASSUME Fed, Books
    PROVE  /\ trades \in Seq(TradeRecord) /\ Len(trades) \in Nat
           /\ \A k \in 1 .. Len(trades) : /\ trades[k] \in TradeRecord
                                          /\ trades[k].signal \in Nat /\ trades[k].entryBar \in Nat
                                          /\ trades[k].exitBar \in Nat /\ trades[k].signal > 0
                                          /\ trades[k].entryBar = trades[k].signal + 1
                                          /\ trades[k].entryBar <= trades[k].exitBar
                                          /\ trades[k].exitBar <= Len(bars)
           /\ trades # <<>> => Len(trades) \in 1 .. Len(trades)
<1>1. trades \in Seq(TradeRecord)
    BY DEF Books
<1>2. \A k \in 1 .. Len(trades) : trades[k] \in TradeRecord
    BY <1>1, ElementOfSeq
<1>3. \A k \in 1 .. Len(trades) : trades[k].signal \in Nat /\ trades[k].entryBar \in Nat /\ trades[k].exitBar \in Nat
    BY <1>2 DEF TradeRecord
<1>4. \A k \in 1 .. Len(trades) : Traded(trades[k]) /\ trades[k].exitBar <= Len(bars)
    BY DEF Books
<1> QED BY <1>1, <1>2, <1>3, <1>4 DEF Traded

\* Nothing is traded at a candle: flat, or the position is held.
LEMMA BooksCarry ==
    ASSUME Fed, Books, Len(bars') = Len(bars) + 1, trades' = trades, ended' = FALSE,
           before' = signal, signal' = Len(bars) + 1,
           \/ active' = NoTrade
           \/ /\ active' \in Position /\ active'.signal > 0 /\ active'.bar = active'.signal + 1
              /\ active'.bar <= Len(bars) + 1
              /\ trades # <<>> => active'.signal > trades[Len(trades)].exitBar
    PROVE  Books'
<1>1. Len(bars) \in Nat
    BY BarsAre
<1>2. trades' \in Seq(TradeRecord) /\ \A k \in 1 .. Len(trades') : Traded(trades'[k])
    BY DEF Books
<1>3. \A k \in 1 .. Len(trades') : trades'[k].exitBar <= Len(bars')
    BY <1>1, BooksAre
<1>4. active' # NoTrade => /\ active' \in Position /\ active'.signal > 0
                           /\ active'.bar = active'.signal + 1 /\ active'.bar <= Len(bars')
    OBVIOUS
<1>5. OnePositionAtATime'
    BY DEF OnePositionAtATime, Books
<1>6. trades' # <<>> => trades'[Len(trades')].exitBar < signal'
    BY <1>1, BooksAre
<1> QED BY <1>2, <1>3, <1>4, <1>5, <1>6 DEF Books, Traded

\* A position is closed, by a candle or by the end of the data.
LEMMA BooksClose ==
    ASSUME Fed, Books, Len(bars') \in Nat, Len(bars) <= Len(bars'),
           NEW t \in TradeRecord, trades' = Append(trades, t), active' = NoTrade,
           Traded(t), t.exitBar <= Len(bars'),
           trades # <<>> => t.signal > trades[Len(trades)].exitBar,
           before' = 0 \/ ended'
    PROVE  Books'
<1> DEFINE n == Len(trades)
<1>1. Len(bars) \in Nat /\ n \in Nat /\ trades \in Seq(TradeRecord)
    BY BarsAre, BooksAre
<1>2. trades' \in Seq(TradeRecord) /\ Len(trades') = n + 1 /\ trades'[n + 1] = t
      /\ \A k \in 1 .. n : trades'[k] = trades[k]
    BY <1>1, AppendProperties
<1>3. \A k \in 1 .. n + 1 : k = n + 1 \/ k \in 1 .. n
    BY <1>1
<1>4. \A k \in 1 .. n : Traded(trades[k])
    BY DEF Books
<1>5. \A k \in 1 .. n : trades[k].exitBar <= Len(bars')
    BY <1>1, BooksAre
<1>6. \A k \in 1 .. Len(trades') : Traded(trades'[k]) /\ trades'[k].exitBar <= Len(bars')
    <2> HIDE DEF n
    <2> QED BY <1>2, <1>3, <1>4, <1>5
<1>7. \A k \in 2 .. n + 1 : trades'[k].signal > trades'[k - 1].exitBar
    <2>1. ASSUME NEW k \in 2 .. n + 1 PROVE trades'[k].signal > trades'[k - 1].exitBar
        <3>1. CASE k = n + 1
            <4>1. n \in 1 .. n /\ trades # <<>> /\ k - 1 = n
                BY <3>1, <1>1
            <4> QED BY <4>1, <3>1, <1>2
        <3>2. CASE k # n + 1
            <4>1. k \in 2 .. n /\ k \in 1 .. n /\ k - 1 \in 1 .. n
                BY <3>2, <1>1
            <4>2. trades[k].signal > trades[k - 1].exitBar
                BY <4>1 DEF Books, OnePositionAtATime
            <4> QED BY <4>1, <4>2, <1>2
        <3> QED BY <3>1, <3>2
    <2> QED BY <2>1
<1>8. OnePositionAtATime'
    BY <1>2, <1>7 DEF OnePositionAtATime
<1> QED BY <1>2, <1>6, <1>8 DEF Books, Traded

-----------------------------------------------------------------------------
(* What the two evaluators see at a decision *)

\* The candles that are complete at the decision about candle at of the split.
CompleteAt(feed, ctx, split, at) ==
  [tf \in {Exec, Ctx} |->
     IF tf = Exec THEN SubSeq(feed, 1, at)
     ELSE SubSeq(ctx, DueBy(ctx, split) + 1, DueBy(ctx, DecisionClose(feed[at])))]

\* y is the end of x.
EndOf(y, x) ==
  /\ x \in Seq(Candle) /\ y \in Seq(Candle) /\ Len(y) <= Len(x)
  /\ \A k \in 1 .. Len(y) : y[k] = x[Len(x) - Len(y) + k]

\* BatchAvailable, of any feed.
BatchOf(feed, ctx, split, at) ==
  [tf \in {Exec, Ctx} |->
     LET src == IF tf = Exec THEN feed ELSE ctx
     IN Chosen(src, {k \in DOMAIN src : /\ CloseTime(src[k], tf) <= DecisionClose(feed[at])
                                        /\ CloseTime(src[k], tf) > split})]

\* The batch evaluator sees the candles of the split up to the decision.
LEMMA BatchIs ==
    ASSUME NEW feed, NEW cal, Follows(feed, cal), NEW ctx \in Contexts, NEW at \in 1 .. Len(feed)
    PROVE  BatchOf(feed, ctx, cal[1], at) = CompleteAt(feed, ctx, cal[1], at)
<1> DEFINE close == DecisionClose(feed[at])
           split == cal[1]
           keptE == {k \in DOMAIN feed : CloseTime(feed[k], Exec) <= close /\ CloseTime(feed[k], Exec) > split}
           keptC == {k \in DOMAIN ctx : CloseTime(ctx[k], Ctx) <= close /\ CloseTime(ctx[k], Ctx) > split}
           first == DueBy(ctx, split)
           last == DueBy(ctx, close)
<1>1. /\ Len(feed) \in Nat /\ DOMAIN feed = 1 .. Len(feed) /\ Exec # Ctx /\ ExecMinutes \in Nat \ {0}
      /\ \A i \in 1 .. Len(feed) : feed[i].t \in Int /\ CloseTime(feed[i], Exec) = feed[i].t + ExecMinutes
                                   /\ DecisionClose(feed[i]) = feed[i].t + ExecMinutes
      /\ \A i, j \in 1 .. Len(feed) : i < j => feed[i].t < feed[j].t
    BY FeedIs
<1>2. feed \in Seq(Candle) /\ split = feed[1].t /\ split \in Int /\ close \in Int
    <2>1. 1 \in 1 .. Len(feed) /\ feed \in Seq(Candle) /\ split = feed[1].t
        BY <1>1 DEF Follows
    <2> QED BY <2>1, <1>1
<1>3. /\ ctx \in Seq(Candle) /\ first \in 0 .. Len(ctx) /\ last \in 0 .. Len(ctx)
      /\ \A k \in 1 .. Len(ctx) : /\ CloseTime(ctx[k], Ctx) \in Int
                                  /\ CloseTime(ctx[k], Ctx) <= split <=> k <= first
                                  /\ CloseTime(ctx[k], Ctx) <= close <=> k <= last
    <2> HIDE DEF split, close
    <2> QED BY <1>2, DueByIs
<1>4. Chosen(feed, keptE) = SubSeq(feed, 1, at)
    <2>1. ASSUME NEW k \in 1 .. Len(feed) PROVE k \in keptE <=> 1 <= k /\ k <= at
        <3>1. CloseTime(feed[k], Exec) > split
            <4>1. feed[1].t <= feed[k].t
                BY <1>1
            <4> QED BY <4>1, <1>1, <1>2
        <3>2. CloseTime(feed[k], Exec) <= close <=> k <= at
            <4>1. CASE k < at
                BY <4>1, <1>1
            <4>2. CASE k = at
                BY <4>2, <1>1
            <4>3. CASE k > at
                <5>1. feed[at].t < feed[k].t
                    BY <4>3, <1>1
                <5> QED BY <5>1, <4>3, <1>1
            <4> QED BY <4>1, <4>2, <4>3
        <3> QED BY <3>1, <3>2, <1>1
    <2> HIDE DEF keptE
    <2>2. 1 \in Nat \ {0} /\ at \in 0 .. Len(feed)
        BY <1>1
    <2> QED BY <2>1, <2>2, <1>2, ChosenStretch
<1>5. Chosen(ctx, keptC) = SubSeq(ctx, first + 1, last)
    <2> HIDE DEF first, last, split, close
    <2>1. first \in Nat /\ last \in Nat /\ Len(ctx) \in Nat /\ DOMAIN ctx = 1 .. Len(ctx)
        BY <1>3
    <2>2. ASSUME NEW k \in 1 .. Len(ctx) PROVE k \in keptC <=> first + 1 <= k /\ k <= last
        <3>1. CloseTime(ctx[k], Ctx) > split <=> ~(k <= first)
            BY <1>2, <1>3
        <3>2. k \in keptC <=> k <= last /\ ~(k <= first)
            BY <3>1, <2>1, <1>3
        <3> QED BY <3>2, <2>1
    <2> HIDE DEF keptC
    <2> DEFINE a == first + 1
    <2>3. a \in Nat \ {0}
        BY <2>1
    <2>4. \A k \in 1 .. Len(ctx) : k \in keptC <=> a <= k /\ k <= last
        BY <2>2
    <2> HIDE DEF a
    <2>5. Chosen(ctx, keptC) = SubSeq(ctx, a, last)
        BY <2>3, <2>4, <1>3, ChosenStretch
    <2> QED BY <2>5 DEF a
<1>6. BatchOf(feed, ctx, split, at) = [tf \in {Exec, Ctx} |-> IF tf = Exec THEN Chosen(feed, keptE) ELSE Chosen(ctx, keptC)]
    BY <1>1 DEF BatchOf
<1>7. CompleteAt(feed, ctx, split, at) = [tf \in {Exec, Ctx} |-> IF tf = Exec THEN SubSeq(feed, 1, at)
                                                                          ELSE SubSeq(ctx, first + 1, last)]
    BY DEF CompleteAt
<1> QED BY <1>4, <1>5, <1>6, <1>7

\* The streaming evaluator, asked about the last candle before the one just
\* observed, sees the end of it: on the execution timeframe what is required,
\* on the context one candle more.
LEMMA AvailableIs ==
    ASSUME Fed, Histories, bars # <<>>, NEW shape \in Shapes, OnCandle(NextCandle(shape)),
           Decide(NextCandle(shape), Len(bars) + 1), Follows(bars', calendar), Histories'
    PROVE  LET seen  == Available(history', signal, bars')
               whole == CompleteAt(bars', context, calendar[1], signal)
           IN /\ seen[Exec] \in Seq(Candle)
              /\ EndOf(seen[Exec], whole[Exec]) /\ EndOf(seen[Ctx], whole[Ctx])
              /\ \/ Len(seen[Exec]) = Len(whole[Exec])
                 \/ Len(seen[Exec]) >= RequiredLookback(contract, Exec, Exec)
              /\ \/ Len(seen[Ctx]) = Len(whole[Ctx])
                 \/ Len(seen[Ctx]) >= RequiredLookback(contract, Ctx, Exec) + 1
<1> DEFINE n == Len(bars)
           seen == Available(history', signal, bars')
           whole == CompleteAt(bars', context, calendar[1], signal)
           close == DecisionClose(bars'[signal])
           L == RequiredLookback(contract, Exec, Exec)
           hist == history'[Exec]
           kept == [k \in DOMAIN hist |-> bars'[hist[k]]]
           now == {k \in DOMAIN kept : CloseTime(kept[k], Exec) <= close}
<1>1. /\ bars' \in Seq(Candle) /\ Len(bars') = n + 1
      /\ \A i \in 1 .. n : bars'[i] = bars[i]
      /\ contract' = contract /\ calendar' = calendar /\ context' = context
    BY NextCandleIs
<1>2. n \in Nat /\ signal = n /\ n \in 1 .. n /\ Exec # Ctx /\ ExecMinutes \in Nat \ {0}
    <2>1. n \in Nat /\ signal = n /\ n # 0
        BY BarsAre DEF Fed
    <2> QED BY <2>1, BarsAre
<1>3. /\ \A i \in 1 .. n + 1 : /\ bars'[i] \in Candle /\ bars'[i].t \in Int
                               /\ CloseTime(bars'[i], Exec) = bars'[i].t + ExecMinutes
                               /\ DecisionClose(bars'[i]) = bars'[i].t + ExecMinutes
      /\ \A i, j \in 1 .. n + 1 : i < j => bars'[i].t < bars'[j].t
    BY <1>1, FeedIs
<1>4. L \in Nat /\ L >= 1 /\ RequiredLookback(contract, Ctx, Exec) \in Nat
    BY LookbackIs DEF Fed
<1>5. /\ hist \in Seq(Nat) /\ (Len(hist) = IF n + 1 <= L + 1 THEN n + 1 ELSE L + 1)
      /\ \A k \in 1 .. Len(hist) : hist[k] = n + 1 - Len(hist) + k
    <2>1. Remembers(hist, Len(bars'), Len(bars'), RequiredLookback(contract', Exec, Exec) + 1)
        BY DEF Histories
    <2>2. Remembers(hist, n + 1, n + 1, L + 1)
        BY <1>1, <2>1
    <2> HIDE DEF hist, L
    <2> QED BY <2>2 DEF Remembers
<1> HIDE DEF hist, L
<1> DEFINE m == Len(hist) - 1
<1>6. m \in Nat /\ m <= n /\ (m = n \/ m >= L) /\ m + 1 = Len(hist)
    BY <1>2, <1>4, <1>5
<1> HIDE DEF m
<1>7. \A k \in 1 .. m + 1 : n - m + k \in 1 .. n + 1 /\ kept[k] = bars'[n - m + k]
    <2>1. ASSUME NEW k \in 1 .. m + 1 PROVE n - m + k \in 1 .. n + 1 /\ kept[k] = bars'[n - m + k]
        <3>1. k \in 1 .. Len(hist) /\ hist[k] = n + 1 - (m + 1) + k
            BY <1>5, <1>6
        <3>2. hist[k] = n - m + k /\ n - m + k \in 1 .. n + 1
            BY <3>1, <1>2, <1>6
        <3>3. k \in DOMAIN hist
            BY <3>1, <1>5
        <3> QED BY <3>2, <3>3
    <2> QED BY <2>1
<1>8. kept \in Seq(Candle) /\ Len(kept) = m + 1 /\ DOMAIN kept = 1 .. m + 1
    <2>1. DOMAIN hist = 1 .. m + 1 /\ m + 1 \in Nat
        BY <1>5, <1>6
    <2>2. kept = [k \in 1 .. m + 1 |-> bars'[hist[k]]]
        BY <2>1
    <2>3. \A k \in 1 .. m + 1 : bars'[hist[k]] \in Candle
        BY <2>2, <1>3, <1>7
    <2> DEFINE e == m + 1
    <2>4. [k \in 1 .. e |-> bars'[hist[k]]] \in Seq(Candle) /\ Len([k \in 1 .. e |-> bars'[hist[k]]]) = e
        <3> HIDE DEF e
        <3> QED BY <2>1, <2>3 DEF e
    <2> QED BY <2>2, <2>4
<1> HIDE DEF kept
<1>9. ASSUME NEW k \in 1 .. Len(kept) PROVE k \in now <=> 1 <= k /\ k <= m
    <2>1. k \in 1 .. m + 1 /\ n - m + k \in 1 .. n + 1 /\ kept[k] = bars'[n - m + k]
        BY <1>7, <1>8
    <2>2. CloseTime(kept[k], Exec) = bars'[n - m + k].t + ExecMinutes /\ close = bars'[n].t + ExecMinutes
          /\ bars'[n - m + k].t \in Int /\ bars'[n].t \in Int
        <3>1. n \in 1 .. n + 1
            BY <1>2
        <3> QED BY <2>1, <3>1, <1>2, <1>3
    <2>3. CASE k <= m
        <3>1. n - m + k <= n
            BY <2>1, <2>3, <1>2, <1>6
        <3>2. bars'[n - m + k].t <= bars'[n].t
            <4>1. n \in 1 .. n + 1
                BY <1>2
            <4>2. CASE n - m + k = n
                BY <4>2, <2>2
            <4>3. CASE n - m + k # n
                <5>1. n - m + k < n
                    BY <4>3, <3>1, <2>1, <1>2
                <5> QED BY <5>1, <4>1, <2>1, <2>2, <1>3
            <4> QED BY <4>2, <4>3
        <3>3. CloseTime(kept[k], Exec) <= close
            BY <3>2, <2>2, <1>2
        <3> QED BY <3>3, <2>1, <2>3, <1>8
    <2>4. CASE ~(k <= m)
        <3>1. n - m + k = n + 1 /\ n \in 1 .. n + 1 /\ n < n + 1
            BY <2>1, <2>4, <1>2, <1>6
        <3>2. bars'[n].t < bars'[n + 1].t
            BY <3>1, <2>1, <1>3
        <3>3. ~(CloseTime(kept[k], Exec) <= close)
            BY <3>1, <3>2, <2>2, <1>2
        <3> QED BY <3>3, <2>4
    <2> QED BY <2>3, <2>4
<1>10. Chosen(kept, now) = SubSeq(kept, 1, m)
    <2> HIDE DEF now
    <2>1. 1 \in Nat \ {0} /\ m \in 0 .. Len(kept)
        BY <1>6, <1>8
    <2> QED BY <2>1, <1>8, <1>9, ChosenStretch
<1>11. seen[Exec] = Chosen(kept, now)
    BY DEF Available, kept, hist
<1> HIDE DEF now
<1>12. whole[Exec] = SubSeq(bars', 1, n)
    BY <1>2 DEF CompleteAt
<1>13. EndOf(seen[Exec], whole[Exec]) /\ Len(seen[Exec]) = m /\ Len(whole[Exec]) = n
    <2> DEFINE x == SubSeq(kept, 1, m)
               y == SubSeq(bars', 1, n)
    <2>1. x \in Seq(Candle) /\ (Len(x) = IF m < 1 THEN 0 ELSE m - 1 + 1)
          /\ \A k \in 1 .. Len(x) : x[k] = kept[1 - 1 + k]
        <3>1. 1 \in Nat \ {0} /\ m \in 0 .. Len(kept)
            BY <1>6, <1>8
        <3> QED BY <3>1, <1>8, StretchIsSeq
    <2>2. y \in Seq(Candle) /\ (Len(y) = IF n < 1 THEN 0 ELSE n - 1 + 1)
          /\ \A k \in 1 .. Len(y) : y[k] = bars'[1 - 1 + k]
        <3>1. 1 \in Nat \ {0} /\ n \in 0 .. Len(bars')
            BY <1>1, <1>2
        <3> HIDE DEF n
        <3> QED BY <3>1, <1>1, StretchIsSeq
    <2> HIDE DEF x, y
    <2>3. Len(x) = m /\ Len(y) = n
        BY <2>1, <2>2, <1>2, <1>6
    <2>4. ASSUME NEW k \in 1 .. m PROVE x[k] = y[n - m + k]
        <3>1. 1 - 1 + k = k /\ n - m + k \in 1 .. n /\ 1 - 1 + (n - m + k) = n - m + k /\ k \in 1 .. m + 1
            BY <1>2, <1>6
        <3>2. x[k] = bars'[n - m + k]
            BY <3>1, <2>1, <2>3, <1>7
        <3>3. y[n - m + k] = bars'[n - m + k]
            <4> DEFINE j == n - m + k
            <4>1. j \in 1 .. Len(y) /\ 1 - 1 + j = j
                BY <3>1, <2>3
            <4> HIDE DEF j
            <4>2. y[j] = bars'[j]
                BY <4>1, <2>2
            <4> QED BY <4>2 DEF j
        <3> QED BY <3>2, <3>3
    <2>5. EndOf(x, y)
        BY <2>1, <2>2, <2>3, <2>4, <1>6 DEF EndOf
    <2> QED BY <2>3, <2>5, <1>10, <1>11, <1>12 DEF x, y
<1>14. /\ EndOf(seen[Ctx], whole[Ctx])
       /\ \/ Len(seen[Ctx]) = Len(whole[Ctx])
          \/ Len(seen[Ctx]) >= RequiredLookback(contract, Ctx, Exec) + 1
    <2> DEFINE K == RequiredLookback(contract, Ctx, Exec)
               split == calendar[1]
               first == DueBy(context, split)
               last == DueBy(context, close)
               c == Inside(context, last, split)
               h == history'[Ctx]
               w == Len(h)
               kc == [k \in DOMAIN h |-> context[h[k]]]
               due == {k \in DOMAIN kc : CloseTime(kc[k], Ctx) <= close}
               z == SubSeq(context, first + 1, last)
    <2>1. close = DecisionClose(bars[signal]) /\ Held' = last
        BY <1>1, <1>2, HistoriesDecide
    <2>2. split \in Int /\ close \in Int
        BY <2>1, AdvanceIs
    <2> HIDE DEF split, close
    <2>3. /\ context \in Seq(Candle) /\ first \in 0 .. Len(context) /\ last \in 0 .. Len(context)
          /\ \A k \in 1 .. Len(context) : CloseTime(context[k], Ctx) <= close <=> k <= last
        BY <2>2, DueByIs DEF Fed
    <2>4. Len(context) \in Nat /\ first \in Nat /\ last \in Nat /\ K \in Nat
        BY <2>3, <1>4
    <2>5. c = (IF last <= first THEN 0 ELSE last - first) /\ c \in Nat
        BY <2>4 DEF Inside
    <2>6. h \in Seq(Nat) /\ (w = IF c <= K + 1 THEN c ELSE K + 1) /\ \A k \in 1 .. w : h[k] = last - w + k
        BY <2>1, <1>1 DEF Histories, Remembers, split
    <2>7. Chosen(kc, due) = seen[Ctx]
        BY <1>2 DEF Available, close
    <2> HIDE DEF first, last, c, h, K
    <2>8. w \in Nat /\ w <= c /\ (w = c \/ w >= K + 1) /\ (w > 0 => last = first + c /\ w <= last)
        BY <2>4, <2>5, <2>6
    <2> HIDE DEF w
    <2>9. \A k \in 1 .. w : last - w + k \in 1 .. Len(context) /\ kc[k] = context[last - w + k] /\ k \in DOMAIN kc
        <3>1. ASSUME NEW k \in 1 .. w
              PROVE  last - w + k \in 1 .. Len(context) /\ kc[k] = context[last - w + k] /\ k \in DOMAIN kc
            <4>1. last - w + k \in 1 .. Len(context)
                BY <2>3, <2>4, <2>8
            <4>2. k \in DOMAIN h
                BY <2>6 DEF w
            <4> QED BY <4>1, <4>2, <2>6
        <3> QED BY <3>1
    <2>10. kc \in Seq(Candle) /\ Len(kc) = w /\ DOMAIN kc = 1 .. w
        <3>1. DOMAIN h = 1 .. w
            BY <2>6 DEF w
        <3>2. kc = [k \in 1 .. w |-> context[h[k]]]
            BY <3>1
        <3>3. \A k \in 1 .. w : context[h[k]] \in Candle
            <4>1. \A k \in 1 .. w : h[k] \in 1 .. Len(context)
                BY <2>6, <2>9
            <4> QED BY <4>1, <2>3, ElementOfSeq
        <3>4. [k \in 1 .. w |-> context[h[k]]] \in Seq(Candle) /\ Len([k \in 1 .. w |-> context[h[k]]]) = w
            BY <3>3, <2>8
        <3> QED BY <3>2, <3>4
    <2>11. \A k \in 1 .. Len(kc) : k \in due <=> 1 <= k /\ k <= w
        <3>1. ASSUME NEW k \in 1 .. w PROVE k \in due
            <4>1. last - w + k \in 1 .. Len(context) /\ kc[k] = context[last - w + k] /\ last - w + k <= last
                <5>1. last - w + k <= last
                    BY <2>4, <2>8
                <5> HIDE DEF kc
                <5> QED BY <5>1, <2>9
            <4>2. CloseTime(kc[k], Ctx) <= close
                BY <4>1, <2>3
            <4> QED BY <4>2, <2>9
        <3> HIDE DEF due
        <3> QED BY <3>1, <2>8, <2>10
    <2> HIDE DEF kc, due
    <2>12. Chosen(kc, due) = kc
        <3>1. 1 \in Nat \ {0} /\ w \in 0 .. Len(kc)
            BY <2>8, <2>10
        <3>2. Chosen(kc, due) = SubSeq(kc, 1, w)
            BY <3>1, <2>10, <2>11, ChosenStretch
        <3> QED BY <3>2, <2>10, WholeIsSelf
    <2>13. z \in Seq(Candle) /\ Len(z) = c /\ \A k \in 1 .. c : z[k] = context[first + k]
        <3> DEFINE a == first + 1
        <3>1. a \in Nat \ {0} /\ \A k \in Nat : a - 1 + k = first + k
            BY <2>4
        <3>2. (IF last < a THEN 0 ELSE last - a + 1) = c
            BY <2>4, <2>5
        <3> HIDE DEF a
        <3>3. SubSeq(context, a, last) \in Seq(Candle)
              /\ (Len(SubSeq(context, a, last)) = IF last < a THEN 0 ELSE last - a + 1)
              /\ \A k \in 1 .. Len(SubSeq(context, a, last)) : SubSeq(context, a, last)[k] = context[a - 1 + k]
            BY <3>1, <2>3, StretchIsSeq
        <3>4. z = SubSeq(context, a, last)
            BY DEF a
        <3> HIDE DEF z
        <3>5. z \in Seq(Candle) /\ Len(z) = c /\ \A k \in 1 .. c : z[k] = context[a - 1 + k]
            BY <3>2, <3>3, <3>4
        <3>6. \A k \in 1 .. c : k \in Nat
            OBVIOUS
        <3> QED BY <3>1, <3>5, <3>6
    <2>14. whole[Ctx] = z
        BY <1>2 DEF CompleteAt, first, last, split, close
    <2> HIDE DEF z
    <2>15. \A k \in 1 .. w : kc[k] = z[c - w + k]
        <3>1. ASSUME NEW k \in 1 .. w PROVE kc[k] = z[c - w + k]
            <4>1. c - w + k \in 1 .. c /\ first + (c - w + k) = last - w + k
                BY <2>4, <2>5, <2>8
            <4> DEFINE j == c - w + k
            <4>2. j \in 1 .. c /\ first + j = last - w + k
                BY <4>1
            <4> HIDE DEF j
            <4>3. z[j] = context[last - w + k]
                BY <4>2, <2>13
            <4> QED BY <4>3, <2>9 DEF j
        <3> QED BY <3>1
    <2>16. EndOf(kc, z)
        BY <2>8, <2>10, <2>13, <2>15 DEF EndOf
    <2> QED BY <2>7, <2>8, <2>10, <2>12, <2>13, <2>14, <2>16 DEF K
<1> QED BY <1>6, <1>13, <1>14 DEF EndOf, L

-----------------------------------------------------------------------------
(* The invariant step by step *)

ReplayInv == Fed /\ Histories /\ Books /\ Labelled /\ TotalsKept

\* A candle is fed: what it adds to the metrics and to the labels is nothing.
LEMMA CandleCarries ==
    ASSUME ReplayInv, NEW shape \in Shapes, OnCandle(NextCandle(shape))
    PROVE  /\ Measured(bars', trades, totals)
           /\ \A b \in 1 .. Len(bars) + 1 :
                RegimeAfter(SubSeq(bars', 1, b - 1)) = RegimeAfter(SubSeq(bars, 1, b - 1))
           /\ RegimeAfter(SubSeq(bars', 1, Len(bars))) = regimes.current
           /\ ended = FALSE
<1>1. NextCandle(shape) \in Candle /\ bars' = Append(bars, NextCandle(shape)) /\ bars \in Seq(Candle)
      /\ Len(bars) \in Nat
    BY NextCandleIs, BarsAre DEF ReplayInv, Fed, OnCandle
<1>2. trades \in Seq(TradeRecord) /\ \A k \in 1 .. Len(trades) : trades[k].entryBar \in 1 .. Len(bars) + 1
    BY <1>1, BooksAre DEF ReplayInv
<1>3. Measured(bars', trades, totals)
    BY <1>1, <1>2, MeasuredFeed DEF ReplayInv, TotalsKept
<1>4. ASSUME NEW b \in 1 .. Len(bars) + 1
      PROVE  SubSeq(bars', 1, b - 1) = SubSeq(bars, 1, b - 1)
    <2>1. b - 1 \in 0 .. Len(bars)
        BY <1>1
    <2> QED BY <2>1, <1>1, PrefixOfAppend
<1>5. SubSeq(bars', 1, Len(bars)) = bars
    <2>1. Len(bars) \in 0 .. Len(bars)
        BY <1>1
    <2> QED BY <2>1, <1>1, PrefixOfAppend, WholeIsSelf
<1>6. ended = FALSE
    BY DEF OnCandle, ReplayInv, Fed
<1> QED BY <1>3, <1>4, <1>5, <1>6 DEF ReplayInv, Labelled

\* The labels after a candle, with the position it leaves.
LEMMA LabelledStep ==
    ASSUME ReplayInv,
           \/ regimes' = Relabelled(bars') /\ regimes.entry = NoTrade /\ active' = NoTrade
           \/ regimes' = [Relabelled(bars') EXCEPT !.entry = NoTrade] /\ active' = NoTrade
           \/ /\ active' # NoTrade /\ regimes' = Relabelled(bars') /\ regimes.entry # NoTrade
              /\ regimes.entry = RegimeAfter(SubSeq(bars', 1, active'.bar - 1))
           \/ /\ active' # NoTrade
              /\ regimes' = [Relabelled(bars') EXCEPT !.entry = RegimeAfter(SubSeq(bars', 1, active'.bar - 1))]
    PROVE  Labelled'
<1>1. /\ regimes.current \in RegimeNames /\ regimes.entry \in RegimeNames \cup {NoTrade}
      /\ RegimeAfter(bars') \in RegimeNames /\ RegimeAfter(SubSeq(bars', 1, active'.bar - 1)) \in RegimeNames
    BY RegimeIsName DEF ReplayInv, Labelled
<1> DEFINE at == RegimeAfter(SubSeq(bars', 1, active'.bar - 1))
           now == RegimeAfter(bars')
<1> HIDE DEF at, now
<1>2. /\ regimes'.current = now
      /\ regimes'.entry = (IF active' = NoTrade THEN NoTrade ELSE at)
      /\ regimes' \in [current : RegimeNames, pre : RegimeNames, entry : RegimeNames \cup {NoTrade}]
    <2>1. Relabelled(bars') = [current |-> now, pre |-> regimes.current, entry |-> regimes.entry]
        BY DEF Relabelled, now
    <2> QED BY <2>1, <1>1 DEF at, now
<1> QED BY <1>2 DEF Labelled, at, now, RegimeNames

LEMMA ManagePositionKeeps ==
    ASSUME ReplayInv, NEW shape \in Shapes, ManagePosition(shape)
    PROVE  ReplayInv'
<1> DEFINE bar == NextCandle(shape)
           i == Len(bars) + 1
           pos == Widened(active, bar)
           t == Exited(pos, i, bar)
<1>1. OnCandle(bar) /\ active # NoTrade /\ history' = Observed(i) /\ taken' = taken /\ pending' = pending
    BY DEF ManagePosition
<1>2. Shift(i) \/ Forget(i)
    BY DEF ManagePosition
<1>3. Fed'
    BY <1>1, <1>2, FedStep DEF ReplayInv
<1>4. Histories'
    BY <1>1, HistoriesObserve DEF ReplayInv
<1>5. /\ bar \in Candle /\ Len(bars') = i /\ Len(bars) \in Nat /\ i \in Nat /\ ended' = FALSE /\ signal = Len(bars)
      /\ Measured(bars', trades, totals)
      /\ \A b \in 1 .. Len(bars) + 1 : RegimeAfter(SubSeq(bars', 1, b - 1)) = RegimeAfter(SubSeq(bars, 1, b - 1))
    <2>1. Measured(bars', trades, totals) /\ ended = FALSE
          /\ \A b \in 1 .. Len(bars) + 1 : RegimeAfter(SubSeq(bars', 1, b - 1)) = RegimeAfter(SubSeq(bars, 1, b - 1))
        BY <1>1, CandleCarries
    <2>2. bar \in Candle /\ Len(bars') = i /\ ended' = ended /\ Len(bars) \in Nat
        BY <1>1, NextCandleIs, BarsAre DEF ReplayInv
    <2>3. signal = Len(bars)
        BY DEF ReplayInv, Fed
    <2> HIDE DEF bar
    <2> QED BY <2>1, <2>2, <2>3
<1>6. /\ active \in Position /\ active.signal \in Nat /\ active.bar \in Nat
      /\ active.signal > 0 /\ active.bar = active.signal + 1 /\ active.bar <= Len(bars)
      /\ trades # <<>> => active.signal > trades[Len(trades)].exitBar
      /\ trades \in Seq(TradeRecord)
    BY <1>1 DEF ReplayInv, Books, OnePositionAtATime, Position
<1>7. pos \in Position /\ pos.signal = active.signal /\ pos.bar = active.bar /\ pos # NoTrade
    BY <1>5, <1>6, WidenedIs, ReplayAssumption
<1>8. regimes.entry = RegimeAfter(SubSeq(bars', 1, active.bar - 1)) /\ regimes.entry # NoTrade
    <2>1. active.bar \in 1 .. Len(bars) + 1
        BY <1>5, <1>6
    <2>2. regimes.entry = RegimeAfter(SubSeq(bars, 1, active.bar - 1))
        BY <1>1 DEF ReplayInv, Labelled
    <2>3. regimes.entry \in RegimeNames
        BY <2>2, RegimeIsName
    <2>4. NoTrade \notin RegimeNames
        BY ReplayAssumption DEF RegimeNames
    <2> QED BY <2>1, <2>2, <2>3, <2>4, <1>5
<1>9. CASE Hit(pos, bar)
    <2>1. /\ trades' = Append(trades, t) /\ totals' = Counted(t, regimes.entry)
          /\ active' = NoTrade /\ Forget(i)
          /\ regimes' = [Relabelled(bars') EXCEPT !.entry = NoTrade]
        BY <1>9 DEF ManagePosition
    <2>2. t \in TradeRecord /\ t.signal = active.signal /\ t.entryBar = active.bar /\ t.exitBar = i
        <3> HIDE DEF pos
        <3> QED BY <1>5, <1>7, ExitedIs DEF ReplayInv
    <2> HIDE DEF t
    <2>3. Books'
        <3>1. Traded(t) /\ t.exitBar <= Len(bars') /\ Len(bars') \in Nat /\ Len(bars) <= Len(bars') /\ before' = 0
            BY <2>1, <2>2, <1>5, <1>6 DEF Traded, Forget
        <3> QED BY <3>1, <2>1, <2>2, <1>6, BooksClose DEF ReplayInv
    <2>4. Labelled'
        BY <2>1, LabelledStep
    <2>5. Measured(bars', Append(trades, t), Counted(t, regimes.entry))
        BY <2>2, <1>5, <1>6, <1>8, MeasuredTrade
    <2>6. TotalsKept'
        BY <2>1, <2>5 DEF TotalsKept
    <2> QED BY <1>3, <1>4, <2>3, <2>4, <2>6 DEF ReplayInv
<1>10. CASE ~Hit(pos, bar)
    <2>1. active' = pos /\ Shift(i) /\ regimes' = Relabelled(bars') /\ trades' = trades /\ totals' = totals
        BY <1>10 DEF ManagePosition
    <2> HIDE DEF pos
    <2>2. Books'
        <3>1. before' = signal /\ signal' = Len(bars) + 1
            BY <2>1 DEF Shift
        <3>2. /\ active' \in Position /\ active'.signal > 0 /\ active'.bar = active'.signal + 1
              /\ active'.bar <= Len(bars) + 1
              /\ trades # <<>> => active'.signal > trades[Len(trades)].exitBar
            BY <2>1, <1>5, <1>6, <1>7
        <3> QED BY <3>1, <3>2, <2>1, <1>5, BooksCarry DEF ReplayInv
    <2>3. Labelled'
        BY <2>1, <1>7, <1>8, LabelledStep
    <2>4. TotalsKept'
        BY <2>1, <1>5 DEF TotalsKept
    <2> QED BY <1>3, <1>4, <2>2, <2>3, <2>4 DEF ReplayInv
<1> QED BY <1>9, <1>10

LEMMA FillWindowKeeps ==
    ASSUME ReplayInv, NEW shape \in Shapes, FillWindow(shape)
    PROVE  ReplayInv'
<1> DEFINE bar == NextCandle(shape)
           i == Len(bars) + 1
<1>1. /\ OnCandle(bar) /\ active = NoTrade /\ history' = Observed(i) /\ regimes' = Relabelled(bars')
      /\ Shift(i) /\ active' = active /\ trades' = trades /\ totals' = totals /\ taken' = taken /\ pending' = pending
    BY DEF FillWindow
<1>2. Fed'
    BY <1>1, FedStep DEF ReplayInv
<1>3. Histories'
    BY <1>1, HistoriesObserve DEF ReplayInv
<1>4. /\ Len(bars') = i /\ ended' = FALSE /\ Measured(bars', trades, totals)
    BY <1>1, CandleCarries, NextCandleIs DEF ReplayInv
<1>5. Books'
    <2>1. before' = signal /\ signal' = Len(bars) + 1
        BY <1>1 DEF Shift
    <2> QED BY <2>1, <1>1, <1>4, BooksCarry DEF ReplayInv
<1>6. Labelled'
    <2>1. regimes.entry = NoTrade
        BY <1>1 DEF ReplayInv, Labelled
    <2> QED BY <2>1, <1>1, LabelledStep
<1>7. TotalsKept'
    BY <1>1, <1>4 DEF TotalsKept
<1> QED BY <1>2, <1>3, <1>5, <1>6, <1>7 DEF ReplayInv

LEMMA DataEndKeeps ==
    ASSUME ReplayInv, DataEnd
    PROVE  ReplayInv'
<1>1. /\ ended' = TRUE /\ bars # <<>> /\ contract' = contract /\ calendar' = calendar /\ context' = context
      /\ bars' = bars /\ before' = before /\ signal' = signal /\ history' = history
      /\ taken' = taken /\ pending' = pending
    BY DEF DataEnd, inputs
<1>2. Fed'
    BY <1>1 DEF ReplayInv, Fed
<1>3. Histories'
    <2>1. Held' = Held
        BY <1>1 DEF Held
    <2> QED BY <2>1, <1>1 DEF ReplayInv, Histories
<1>4. CASE active = NoTrade
    <2>1. active' = active /\ trades' = trades /\ totals' = totals /\ regimes' = regimes
        BY <1>4 DEF DataEnd
    <2>2. Books'
        <3>1. OnePositionAtATime'
            BY <2>1 DEF ReplayInv, Books, OnePositionAtATime
        <3> QED BY <3>1, <2>1, <1>1, <1>4 DEF ReplayInv, Books, Traded
    <2>3. Labelled'
        BY <2>1, <1>1, <1>4 DEF ReplayInv, Labelled, RegimeNames
    <2>4. TotalsKept'
        BY <2>1, <1>1 DEF ReplayInv, TotalsKept
    <2> QED BY <1>2, <1>3, <2>2, <2>3, <2>4 DEF ReplayInv
<1>5. CASE active # NoTrade
    <2> DEFINE price == bars[signal].c
               t == Record(active, signal, price, "DATA_END")
    <2>1. /\ trades' = Append(trades, t) /\ totals' = Counted(t, regimes.entry)
          /\ active' = NoTrade /\ regimes' = [regimes EXCEPT !.entry = NoTrade]
        BY <1>5 DEF DataEnd
    <2>2. /\ active \in Position /\ active.signal \in Nat /\ active.bar \in Nat
          /\ active.signal > 0 /\ active.bar = active.signal + 1 /\ active.bar <= Len(bars)
          /\ trades # <<>> => active.signal > trades[Len(trades)].exitBar
          /\ trades \in Seq(TradeRecord)
        BY <1>5 DEF ReplayInv, Books, OnePositionAtATime, Position
    <2>3. signal = Len(bars) /\ Len(bars) \in Nat /\ signal \in 1 .. Len(bars)
        BY <2>2, BarsAre DEF ReplayInv, Fed
    <2>4. price \in Int
        BY <2>3, BarsAre DEF ReplayInv
    <2>5. t \in TradeRecord /\ t.signal = active.signal /\ t.entryBar = active.bar /\ t.exitBar = signal
        <3> HIDE DEF price
        <3>1. "DATA_END" \in {"STOP_LOSS", "AMBIGUOUS_STOP_FIRST", "TAKE_PROFIT", "DATA_END"} /\ signal \in Nat
            BY <2>3
        <3> QED BY <3>1, <2>2, <2>4, RecordIs DEF ReplayInv
    <2> HIDE DEF t
    <2>6. Books'
        <3>1. Traded(t) /\ t.exitBar <= Len(bars') /\ Len(bars') \in Nat /\ Len(bars) <= Len(bars')
            BY <2>2, <2>3, <2>5, <1>1 DEF Traded
        <3> QED BY <3>1, <2>1, <2>2, <2>5, <1>1, BooksClose DEF ReplayInv
    <2>7. Labelled'
        <3>1. /\ regimes \in [current : RegimeNames, pre : RegimeNames, entry : RegimeNames \cup {NoTrade}]
              /\ regimes.current = RegimeAfter(bars)
            BY DEF ReplayInv, Labelled
        <3>2. regimes' \in [current : RegimeNames, pre : RegimeNames, entry : RegimeNames \cup {NoTrade}]
              /\ regimes'.current = RegimeAfter(bars') /\ regimes'.entry = NoTrade
            BY <3>1, <2>1, <1>1
        <3> QED BY <3>2, <2>1 DEF Labelled, RegimeNames
    <2>8. Measured(bars, Append(trades, t), Counted(t, regimes.entry))
        <3>1. regimes.entry = RegimeAfter(SubSeq(bars, 1, t.entryBar - 1))
            BY <1>5, <2>5 DEF ReplayInv, Labelled
        <3> QED BY <3>1, <2>2, <2>5, MeasuredTrade DEF ReplayInv, TotalsKept
    <2>9. TotalsKept'
        BY <2>1, <2>8, <1>1 DEF TotalsKept
    <2> QED BY <1>2, <1>3, <2>6, <2>7, <2>9 DEF ReplayInv
<1> QED BY <1>4, <1>5

\* A flat candle with two candles before it, whatever the answer.
LEMMA Asked ==
    ASSUME ReplayInv, NEW shape \in Shapes, OnCandle(NextCandle(shape)), before # 0, signal # 0,
           active = NoTrade, Decide(NextCandle(shape), Len(bars) + 1),
           Shift(Len(bars) + 1) \/ Forget(Len(bars) + 1)
    PROVE  /\ Fed' /\ Histories' /\ Follows(bars', calendar) /\ bars # <<>>
           /\ bars' \in Seq(Candle) /\ Len(bars') = Len(bars) + 1 /\ Len(bars) \in Nat /\ signal = Len(bars)
           /\ signal \in Nat /\ signal > 0 /\ ended' = FALSE /\ regimes.entry = NoTrade
           /\ contract' = contract /\ calendar' = calendar /\ context' = context
           /\ NextCandle(shape) \in Candle /\ bars'[Len(bars) + 1] = NextCandle(shape)
           /\ \A i \in 1 .. Len(bars) : bars'[i] = bars[i]
           /\ Available(history', signal, bars')[Exec] \in Seq(Candle)
           /\ trades # <<>> => signal > trades[Len(trades)].exitBar
<1>1. signal = Len(bars) /\ Len(bars) \in Nat /\ bars # <<>> /\ Len(bars) > 0
    <2>1. signal = Len(bars) /\ Len(bars) \in Nat
        BY BarsAre DEF ReplayInv, Fed
    <2>2. bars \in Seq(Candle)
        BY DEF ReplayInv, Fed
    <2> QED BY <2>1, <2>2
<1>2. Fed'
    BY FedStep DEF ReplayInv
<1>3. Histories'
    BY <1>1, HistoriesDecide DEF ReplayInv
<1>4. /\ bars' \in Seq(Candle) /\ Len(bars') = Len(bars) + 1
      /\ contract' = contract /\ calendar' = calendar /\ context' = context /\ ended' = ended
      /\ NextCandle(shape) \in Candle /\ bars'[Len(bars) + 1] = NextCandle(shape)
      /\ \A i \in 1 .. Len(bars) : bars'[i] = bars[i]
    BY NextCandleIs DEF ReplayInv
<1>5. Follows(bars', calendar)
    BY <1>2, <1>4 DEF Fed, Follows
<1>6. Available(history', signal, bars')[Exec] \in Seq(Candle)
    BY <1>1, <1>3, <1>5, AvailableIs DEF ReplayInv
<1>7. ended = FALSE
    BY DEF OnCandle, ReplayInv, Fed
<1>8. regimes.entry = NoTrade
    BY DEF ReplayInv, Labelled
<1>9. trades # <<>> => signal > trades[Len(trades)].exitBar
    <2>1. trades # <<>> => trades[Len(trades)].exitBar < signal
        BY <1>7 DEF ReplayInv, Books
    <2>2. trades # <<>> => trades[Len(trades)].exitBar \in Nat
        BY BooksAre DEF ReplayInv
    <2> QED BY <2>1, <2>2, <1>1
<1> QED BY <1>1, <1>2, <1>3, <1>4, <1>5, <1>6, <1>7, <1>8, <1>9

LEMMA PassSignalKeeps ==
    ASSUME ReplayInv, NEW shape \in Shapes, PassSignal(shape)
    PROVE  ReplayInv'
<1> DEFINE bar == NextCandle(shape)
           i == Len(bars) + 1
<1>1. /\ OnCandle(bar) /\ active = NoTrade /\ before # 0 /\ signal # 0 /\ regimes' = Relabelled(bars')
      /\ Decide(bar, i) /\ Shift(i) /\ active' = active /\ trades' = trades /\ totals' = totals
    BY DEF PassSignal
<1>2. Fed' /\ Histories' /\ Len(bars') = i /\ ended' = FALSE /\ regimes.entry = NoTrade
    BY <1>1, Asked
<1>3. Measured(bars', trades, totals)
    BY <1>1, CandleCarries
<1>4. Books'
    <2>1. before' = signal /\ signal' = Len(bars) + 1
        BY <1>1 DEF Shift
    <2> QED BY <2>1, <1>1, <1>2, BooksCarry DEF ReplayInv
<1>5. Labelled'
    BY <1>1, <1>2, LabelledStep
<1>6. TotalsKept'
    BY <1>1, <1>3 DEF TotalsKept
<1> QED BY <1>2, <1>4, <1>5, <1>6 DEF ReplayInv

LEMMA EnterPositionKeeps ==
    ASSUME ReplayInv, NEW shape \in Shapes, EnterPosition(shape)
    PROVE  ReplayInv'
<1> DEFINE bar == NextCandle(shape)
           i == Len(bars) + 1
           seen == Available(history', signal, bars')
           pos == Opened(i, bar, seen)
           regime == EntryRegime(bars')
           t == Exited(pos, i, bar)
<1>1. /\ OnCandle(bar) /\ active = NoTrade /\ before # 0 /\ signal # 0 /\ Decide(bar, i)
      /\ Shift(i) \/ Forget(i)
    BY DEF EnterPosition
<1>2. /\ Fed' /\ Histories' /\ Len(bars') = i /\ ended' = FALSE /\ Len(bars) \in Nat
      /\ signal = Len(bars) /\ signal \in Nat /\ signal > 0 /\ bar \in Candle
      /\ seen[Exec] \in Seq(Candle)
      /\ trades # <<>> => signal > trades[Len(trades)].exitBar
    BY <1>1, Asked
<1>3. Measured(bars', trades, totals) /\ RegimeAfter(SubSeq(bars', 1, Len(bars))) = regimes.current
    BY <1>1, CandleCarries
<1>4. i \in Nat /\ i - 1 = Len(bars)
    BY <1>2
<1>5. pos \in Position /\ pos.signal = signal /\ pos.bar = i /\ pos # NoTrade
    <2> HIDE DEF seen, bar, i
    <2> QED BY <1>2, <1>4, OpenedIs, ReplayAssumption DEF ReplayInv
<1>6. regime = RegimeAfter(SubSeq(bars', 1, pos.bar - 1))
    <2>1. regime = regimes.current
        BY DEF EntryRegime
    <2> HIDE DEF pos
    <2> QED BY <2>1, <1>3, <1>4, <1>5
<1>7. trades \in Seq(TradeRecord)
    BY DEF ReplayInv, Books
<1>8. CASE Hit(pos, bar)
    <2>1. /\ trades' = Append(trades, t) /\ totals' = Counted(t, regime)
          /\ active' = NoTrade /\ Forget(i)
          /\ regimes' = [Relabelled(bars') EXCEPT !.entry = NoTrade]
        BY <1>8 DEF EnterPosition
    <2>2. t \in TradeRecord /\ t.signal = signal /\ t.entryBar = i /\ t.exitBar = i
        <3> HIDE DEF pos
        <3> QED BY <1>4, <1>5, ExitedIs DEF ReplayInv
    <2> HIDE DEF t
    <2>3. Books'
        <3>1. Traded(t) /\ t.exitBar <= Len(bars') /\ Len(bars') \in Nat /\ Len(bars) <= Len(bars') /\ before' = 0
            BY <2>1, <2>2, <1>2 DEF Traded, Forget
        <3> QED BY <3>1, <2>1, <2>2, <1>2, BooksClose DEF ReplayInv
    <2>4. Labelled'
        BY <2>1, LabelledStep
    <2>5. Measured(bars', Append(trades, t), Counted(t, regime))
        <3>1. regime = RegimeAfter(SubSeq(bars', 1, t.entryBar - 1))
            BY <2>2, <1>5, <1>6
        <3> HIDE DEF regime
        <3> QED BY <3>1, <2>2, <1>3, <1>7, MeasuredTrade
    <2>6. TotalsKept'
        BY <2>1, <2>5 DEF TotalsKept
    <2> QED BY <1>2, <2>3, <2>4, <2>6 DEF ReplayInv
<1>9. CASE ~Hit(pos, bar)
    <2>1. active' = pos /\ Shift(i) /\ regimes' = [Relabelled(bars') EXCEPT !.entry = regime]
          /\ trades' = trades /\ totals' = totals
        BY <1>9 DEF EnterPosition
    <2> HIDE DEF pos, regime
    <2>2. Books'
        <3>1. before' = signal /\ signal' = Len(bars) + 1
            BY <2>1 DEF Shift
        <3>2. /\ active' \in Position /\ active'.signal > 0 /\ active'.bar = active'.signal + 1
              /\ active'.bar <= Len(bars) + 1
              /\ trades # <<>> => active'.signal > trades[Len(trades)].exitBar
            BY <2>1, <1>2, <1>5
        <3> QED BY <3>1, <3>2, <2>1, <1>2, BooksCarry DEF ReplayInv
    <2>3. Labelled'
        BY <2>1, <1>5, <1>6, LabelledStep
    <2>4. TotalsKept'
        BY <2>1, <1>3 DEF TotalsKept
    <2> QED BY <1>2, <2>2, <2>3, <2>4 DEF ReplayInv
<1> QED BY <1>8, <1>9

LEMMA ReplayInvHolds == ReplaySpec => []ReplayInv
<1>1. ReplayInit => ReplayInv
    BY FedInit, HistoriesInit, BooksInit, MeasuredNone DEF ReplayInv, TotalsKept
<1>2. ReplayInv /\ [ReplayNext]_replayVars => ReplayInv'
    <2> SUFFICES ASSUME ReplayInv, [ReplayNext]_replayVars
                 PROVE  ReplayInv'
        OBVIOUS
    <2>1. CASE DataEnd
        BY <2>1, DataEndKeeps
    <2>2. ASSUME NEW shape \in Shapes, Feed(shape) PROVE ReplayInv'
        BY <2>2, ManagePositionKeeps, FillWindowKeeps, PassSignalKeeps, EnterPositionKeeps DEF Feed
    <2>3. CASE UNCHANGED replayVars
        <3>1. Fed'
            BY <2>3 DEF replayVars, ReplayInv, Fed
        <3>2. Histories'
            <4>1. Held' = Held
                BY <2>3 DEF replayVars, Held
            <4> QED BY <4>1, <2>3 DEF replayVars, ReplayInv, Histories
        <3>3. Books'
            <4>1. OnePositionAtATime'
                BY <2>3 DEF replayVars, ReplayInv, Books, OnePositionAtATime
            <4> QED BY <4>1, <2>3 DEF replayVars, ReplayInv, Books, Traded
        <3>4. Labelled'
            BY <2>3 DEF replayVars, ReplayInv, Labelled, RegimeNames
        <3>5. TotalsKept'
            BY <2>3 DEF replayVars, ReplayInv, TotalsKept
        <3> QED BY <3>1, <3>2, <3>3, <3>4, <3>5 DEF ReplayInv
    <2> QED BY <2>1, <2>2, <2>3 DEF ReplayNext
<1> QED BY <1>1, <1>2, PTL DEF ReplaySpec

-----------------------------------------------------------------------------
(* The kernel's invariant *)

LEMMA TypesFollow == ReplayInv => ReplayTypeOK
<1> SUFFICES ASSUME ReplayInv PROVE ReplayTypeOK
    OBVIOUS
<1>1. /\ signal = Len(bars) /\ Len(bars) \in Nat /\ before \in Nat /\ before \in {0, signal - 1}
      /\ Exec # Ctx
    BY BarsAre DEF ReplayInv, Fed
<1>2. before \in 0 .. Len(bars) /\ signal \in 0 .. Len(bars) /\ before <= signal
    BY <1>1
<1>3. active # NoTrade => active.signal + 1 = active.bar /\ active.bar <= Len(bars)
    BY DEF ReplayInv, Books
<1>4. \A k \in DOMAIN trades : trades[k] \in TradeRecord
    BY BooksAre DEF ReplayInv
<1>5. /\ RequiredLookback(contract, Exec, Exec) \in Nat /\ RequiredLookback(contract, Ctx, Exec) \in Nat
    BY LookbackIs DEF ReplayInv, Fed
<1>6. Len(history[Exec]) <= RequiredLookback(contract, Exec, Exec) + 1
    <2>1. Len(history[Exec]) = IF Len(bars) <= RequiredLookback(contract, Exec, Exec) + 1
                               THEN Len(bars) ELSE RequiredLookback(contract, Exec, Exec) + 1
        BY DEF ReplayInv, Histories, Remembers
    <2> QED BY <2>1, <1>1, <1>5
<1>7. Inside(context, Held, calendar[1]) \in Nat
    <2>1. CASE Held = 0
        BY <2>1 DEF Inside
    <2>2. CASE Held # 0
        <3>1. Held \in Nat
            <4>1. context \in Seq(Candle)
                BY ReplayAssumption DEF ReplayInv, Fed
            <4>2. taken \in 0 .. Len(context) /\ pending \in {0, taken} /\ Len(context) \in Nat
                BY <4>1 DEF ReplayInv, Histories
            <4> QED BY <4>2 DEF Held
        <3>2. bars # <<>>
            BY <3>1, <2>2 DEF ReplayInv, Histories
        <3>3. 1 \in 1 .. Len(calendar)
            <4>1. bars \in Seq(Candle) /\ Len(bars) <= Len(calendar) /\ Len(calendar) \in Nat
                BY BarsAre DEF ReplayInv, Fed
            <4> QED BY <4>1, <3>2
        <3>4. calendar[1] \in Int
            BY <3>3, BarsAre DEF ReplayInv
        <3>5. DueBy(context, calendar[1]) \in Int
            <4>1. context \in Contexts /\ Len(context) \in Nat
                BY ReplayAssumption DEF ReplayInv, Fed
            <4>2. DueBy(context, calendar[1]) \in 0 .. Len(context)
                BY <4>1, <3>4, DueByIs
            <4> QED BY <4>1, <4>2
        <3> QED BY <3>1, <3>5, <2>2 DEF Inside
    <2> QED BY <2>1, <2>2
<1>8. Len(history[Ctx]) <= RequiredLookback(contract, Ctx, Exec) + 1
    <2>1. Len(history[Ctx]) = IF Inside(context, Held, calendar[1]) <= RequiredLookback(contract, Ctx, Exec) + 1
                              THEN Inside(context, Held, calendar[1]) ELSE RequiredLookback(contract, Ctx, Exec) + 1
        BY DEF ReplayInv, Histories, Remembers
    <2> QED BY <2>1, <1>5, <1>7
<1>9. taken \in 0 .. Len(context) /\ pending \in {0, taken}
    BY DEF ReplayInv, Histories
<1>10. regimes.entry = NoTrade <=> active = NoTrade
    <2>1. active # NoTrade => regimes.entry \in RegimeNames
        BY RegimeIsName DEF ReplayInv, Labelled
    <2> QED BY <2>1, ReplayAssumption DEF ReplayInv, Labelled, RegimeNames
<1> QED BY <1>2, <1>3, <1>4, <1>6, <1>8, <1>9, <1>10 DEF ReplayTypeOK

LEMMA MetricsFollow == ReplayInv => MetricsMatchLedger
<1> SUFFICES ASSUME ReplayInv PROVE MetricsMatchLedger
    OBVIOUS
<1> DEFINE n == Len(trades)
           falls == {RunPnl(r[1], r[2]) : r \in Runs} \cup {0}
           streaks == {r[2] - r[1] + 1 : r \in {q \in Runs : \A k \in q[1] .. q[2] : trades[k].pnl <= 0}} \cup {0}
<1>1. trades \in Seq(TradeRecord) /\ n \in Nat /\ DOMAIN trades = 1 .. n
    BY BooksAre DEF ReplayInv
<1>2. \A i, j : RunPnl(i, j) = Sum(trades, i, j)
    BY DEF RunPnl, Sum
<1>3. Accumulated(trades, totals)
    BY DEF ReplayInv, TotalsKept, Measured
<1>4. \A i, j \in 1 .. n : i <= j => Sum(trades, i, j) \in Int
    <2>1. ASSUME NEW i \in 1 .. n, NEW j \in 1 .. n, i <= j PROVE Sum(trades, i, j) \in Int
        <3>1. i \in Nat \ {0} /\ j \in i - 1 .. Len(trades)
            BY <2>1, <1>1
        <3> QED BY <3>1, <1>1, SumIs
    <2> QED BY <2>1
<1>5. \A i, j \in 1 .. n : i <= j => <<i, j>> \in Runs
    BY <1>1 DEF Runs
<1>6. \A r \in Runs : r[1] \in 1 .. n /\ r[2] \in 1 .. n /\ r[1] <= r[2]
    BY <1>1 DEF Runs
<1>7. totals.drawdown = Min(falls)
    <2>1. falls \in SUBSET Int
        BY <1>2, <1>4, <1>6
    <2>2. totals.drawdown \in falls
        <3>1. ASSUME NEW i \in 1 .. n, NEW j \in 1 .. n, i <= j, totals.drawdown = Sum(trades, i, j)
              PROVE  totals.drawdown \in falls
            <4>1. <<i, j>> \in Runs /\ totals.drawdown = RunPnl(<<i, j>>[1], <<i, j>>[2])
                BY <3>1, <1>2, <1>5
            <4> QED BY <4>1
        <3>2. totals.drawdown = 0 \/ \E i, j \in 1 .. n : i <= j /\ totals.drawdown = Sum(trades, i, j)
            BY <1>3 DEF Accumulated
        <3> QED BY <3>1, <3>2
    <2>3. \A y \in falls : totals.drawdown <= y
        <3>1. totals.drawdown <= 0 /\ \A i, j \in 1 .. n : i <= j => totals.drawdown <= Sum(trades, i, j)
            BY <1>3 DEF Accumulated
        <3> QED BY <3>1, <1>2, <1>6
    <2> HIDE DEF falls
    <2> QED BY <2>1, <2>2, <2>3, MinIs
<1>8. totals.maxLosing = Max(streaks)
    <2>1. streaks \in SUBSET Int
        BY <1>6
    <2>2. totals.maxLosing \in streaks
        <3>1. ASSUME NEW i \in 1 .. n, NEW j \in 1 .. n, i <= j, NoWinner(trades, i, j), totals.maxLosing = j - i + 1
              PROVE  totals.maxLosing \in streaks
            <4> DEFINE q == <<i, j>>
            <4>1. q \in Runs /\ q[1] = i /\ q[2] = j
                BY <3>1, <1>5
            <4> HIDE DEF q
            <4>2. \A k \in q[1] .. q[2] : trades[k].pnl <= 0
                BY <4>1, <3>1 DEF NoWinner
            <4>3. totals.maxLosing = q[2] - q[1] + 1
                BY <4>1, <3>1
            <4> QED BY <4>1, <4>2, <4>3
        <3>2. totals.maxLosing = 0 \/ \E i, j \in 1 .. n : /\ i <= j /\ NoWinner(trades, i, j)
                                                           /\ totals.maxLosing = j - i + 1
            BY <1>3 DEF Accumulated
        <3> QED BY <3>1, <3>2
    <2>3. \A y \in streaks : y <= totals.maxLosing
        <3>1. ASSUME NEW r \in Runs, \A k \in r[1] .. r[2] : trades[k].pnl <= 0
              PROVE  r[2] - r[1] + 1 <= totals.maxLosing
            <4>1. r[1] \in 1 .. n /\ r[2] \in 1 .. n /\ r[1] <= r[2]
                BY <1>6
            <4>2. NoWinner(trades, r[1], r[2])
                BY <3>1 DEF NoWinner
            <4>3. \A i, j \in 1 .. n : i <= j /\ NoWinner(trades, i, j) => j - i + 1 <= totals.maxLosing
                BY <1>3 DEF Accumulated
            <4> QED BY <4>1, <4>2, <4>3
        <3>2. 0 <= totals.maxLosing
            BY <1>3 DEF Accumulated
        <3> QED BY <3>1, <3>2
    <2> HIDE DEF streaks
    <2> QED BY <2>1, <2>2, <2>3, MaxIs
<1>9. totals.equity = IF trades = <<>> THEN 0 ELSE RunPnl(1, Len(trades))
    <2>1. totals.equity = Sum(trades, 1, n)
        BY <1>3 DEF Accumulated
    <2>2. CASE trades = <<>>
        <3>1. n = 0
            BY <2>2
        <3>2. Sum(trades, n + 1, n) = 0
            <4>1. [k \in 1 .. n - (n + 1) + 1 |-> trades[n + 1 + k - 1].pnl] = <<>>
                BY <3>1
            <4> QED BY <4>1, TotalOfNone DEF Sum
        <3>3. Sum(trades, 1, n) = 0
            BY <3>1, <3>2
        <3> QED BY <3>3, <2>1, <2>2
    <2>3. CASE trades # <<>>
        BY <2>1, <2>3, <1>2
    <2> QED BY <2>2, <2>3
<1> QED BY <1>7, <1>8, <1>9 DEF MetricsMatchLedger

\* The kernel's window, its one position and the metrics it accumulates agree
\* with the trades it has written, in every split of every asset.
THEOREM KernelAgrees == ReplaySpec => []KernelInv
<1>1. ReplayInv => KernelInv
    BY TypesFollow, MetricsFollow DEF ReplayInv, Books, KernelInv
<1> QED BY <1>1, ReplayInvHolds, PTL

\* A trade is counted under the label of the candles before its entry candle,
\* however long it is held and whatever comes after.
THEOREM RegimeKnownAtEntry == ReplaySpec => []RegimeIsKnownAtEntry
<1>1. ReplayInv => RegimeIsKnownAtEntry
    <2> SUFFICES ASSUME ReplayInv PROVE RegimeIsKnownAtEntry
        OBVIOUS
    <2>1. DOMAIN trades = 1 .. Len(trades)
        BY BooksAre DEF ReplayInv
    <2>2. \A l \in RegimeNames : totals.byRegime[l] = Total(UnderRegime(bars, trades, l))
        BY DEF ReplayInv, TotalsKept, Measured, ByRegime
    <2>3. ASSUME NEW l \in RegimeNames
          PROVE  totals.byRegime[l] =
                   Total([k \in DOMAIN trades |->
                            IF RegimeAfter(SubSeq(bars, 1, trades[k].entryBar - 1)) = l THEN trades[k].pnl ELSE 0])
        BY <2>1, <2>2 DEF UnderRegime
    <2> QED BY <2>3 DEF RegimeIsKnownAtEntry, RegimeNames
<1> QED BY <1>1, ReplayInvHolds, PTL

-----------------------------------------------------------------------------
(* The answer to a signal *)

\* The end of a sequence that is as long as the sequence is the sequence.
LEMMA WholeEnd ==
    ASSUME NEW x, NEW y, EndOf(y, x), Len(y) = Len(x)
    PROVE  y = x
<1>1. x \in Seq(Candle) /\ y \in Seq(Candle) /\ Len(x) \in Nat
    BY DEF EndOf
<1>2. \A k \in 1 .. Len(y) : y[k] = x[k]
    <2>1. \A k \in 1 .. Len(y) : Len(x) - Len(y) + k = k
        BY <1>1
    <2> QED BY <2>1 DEF EndOf
<1> QED BY <1>1, <1>2, SeqEqual

\* The last candles of the end of a sequence are the last ones of the sequence.
LEMMA WindowOfEnd ==
    ASSUME NEW x, NEW y, EndOf(y, x), NEW n \in Nat \ {0}, n <= Len(y)
    PROVE  /\ Window(y, n) = Window(x, n) /\ Len(Window(y, n)) = n /\ Window(y, n) \in Seq(Candle)
           /\ \A k \in 1 .. n : y[Len(y) - n + k] = x[Len(x) - n + k]
<1> DEFINE p == Len(y)
           q == Len(x)
           a == p - n + 1
           b == q - n + 1
           v == SubSeq(y, a, p)
           w == SubSeq(x, b, q)
<1>1. x \in Seq(Candle) /\ y \in Seq(Candle) /\ p \in Nat /\ q \in Nat /\ p <= q /\ n <= p
      /\ \A k \in 1 .. p : y[k] = x[q - p + k]
    BY DEF EndOf
<1> HIDE DEF p, q
<1>2. /\ a \in Nat \ {0} /\ b \in Nat \ {0} /\ ~(p < a) /\ ~(q < b) /\ p - a + 1 = n /\ q - b + 1 = n
      /\ \A k \in 1 .. n : a - 1 + k \in 1 .. p /\ q - p + (a - 1 + k) = b - 1 + k
    BY <1>1
<1>3. \A k \in 1 .. n : a - 1 + k = p - n + k /\ b - 1 + k = q - n + k
    BY <1>1
<1> HIDE DEF a, b
<1>4. v \in Seq(Candle) /\ Len(v) = n /\ \A k \in 1 .. n : v[k] = y[a - 1 + k]
    <2>1. p \in 0 .. Len(y)
        BY <1>1 DEF p
    <2>2. /\ v \in Seq(Candle) /\ (Len(v) = IF p < a THEN 0 ELSE p - a + 1)
          /\ \A k \in 1 .. Len(v) : v[k] = y[a - 1 + k]
        BY <2>1, <1>1, <1>2, StretchIsSeq
    <2> HIDE DEF v
    <2> QED BY <2>2, <1>2
<1>5. w \in Seq(Candle) /\ Len(w) = n /\ \A k \in 1 .. n : w[k] = x[b - 1 + k]
    <2>1. q \in 0 .. Len(x)
        BY <1>1 DEF q
    <2>2. /\ w \in Seq(Candle) /\ (Len(w) = IF q < b THEN 0 ELSE q - b + 1)
          /\ \A k \in 1 .. Len(w) : w[k] = x[b - 1 + k]
        BY <2>1, <1>1, <1>2, StretchIsSeq
    <2> HIDE DEF w
    <2> QED BY <2>2, <1>2
<1> HIDE DEF v, w
<1>6. \A k \in 1 .. n : y[a - 1 + k] = x[b - 1 + k]
    BY <1>1, <1>2
<1>7. v = w
    <2>1. \A k \in 1 .. n : v[k] = w[k]
        BY <1>4, <1>5, <1>6
    <2> QED BY <2>1, <1>4, <1>5, SeqEqual
<1>8. v = Window(y, n) /\ w = Window(x, n)
    BY DEF v, w, a, b, p, q, Window
<1>9. \A k \in 1 .. n : y[p - n + k] = x[q - n + k]
    BY <1>3, <1>6
<1> QED BY <1>4, <1>7, <1>8, <1>9 DEF p, q

\* A block reads no more candles than it declares, but for the legacy pair.
LEMMA LeafAlike ==
    ASSUME NEW x, NEW y, EndOf(y, x), NEW leaf, AcceptedLeaf(leaf), Len(y) >= BlockLookback(leaf),
           leaf.block = "CANDLE_DIRECTION" /\ leaf.direction = "LEGACY" => Len(y) >= 2
    PROVE  LeafTruth(leaf, y) <=> LeafTruth(leaf, x)
<1>1. /\ Len(x) \in Nat /\ Len(y) \in Nat /\ Len(y) <= Len(x)
      /\ BlockLookback(leaf) \in Nat \ {0}
    BY BlockLookbackIs DEF EndOf
<1>2. y[Len(y)] = x[Len(x)]
    <2>1. Len(y) \in 1 .. Len(y) /\ Len(x) - Len(y) + Len(y) = Len(x)
        BY <1>1
    <2> QED BY <2>1 DEF EndOf
<1>3. Len(y) >= 2 => y[Len(y) - 1] = x[Len(x) - 1]
    <2>1. Len(y) >= 2 => Len(y) - 1 \in 1 .. Len(y) /\ Len(x) - Len(y) + (Len(y) - 1) = Len(x) - 1
        BY <1>1
    <2> QED BY <2>1 DEF EndOf
<1>4. CASE leaf.block = "ALWAYS"
    BY <1>4 DEF LeafTruth
<1>5. CASE leaf.block = "CANDLE_DIRECTION"
    <2>1. (LeafTruth(leaf, y) <=> CandleDirection(leaf, y)) /\ (LeafTruth(leaf, x) <=> CandleDirection(leaf, x))
        BY <1>5 DEF LeafTruth
    <2>2. Len(y) >= 1 /\ Len(x) >= 1
        BY <1>1
    <2>3. CASE leaf.direction = "LEGACY"
        BY <2>1, <2>2, <2>3, <1>1, <1>2, <1>3, <1>5 DEF CandleDirection
    <2>4. CASE leaf.direction \in {"BULLISH", "BEARISH"}
        BY <2>1, <2>2, <2>4, <1>2 DEF CandleDirection
    <2> QED BY <2>3, <2>4, <1>5 DEF AcceptedLeaf
<1>6. CASE leaf.block = "TWO_BAR_REVERSAL"
    <2>1. LeafTruth(leaf, y) = TwoBarReversal(leaf, y) /\ LeafTruth(leaf, x) = TwoBarReversal(leaf, x)
        BY <1>6 DEF LeafTruth
    <2>2. Len(y) >= 2 /\ Len(x) >= 2
        <3>1. BlockLookback(leaf) = 2
            BY <1>6 DEF BlockLookback
        <3> QED BY <3>1, <1>1
    <2> QED BY <2>1, <2>2, <1>2, <1>3 DEF TwoBarReversal
<1>7. CASE leaf.block = "SMA_RELATION"
    <2>1. LeafTruth(leaf, y) = SmaAbove(leaf, y) /\ LeafTruth(leaf, x) = SmaAbove(leaf, x)
        BY <1>7 DEF LeafTruth
    <2>2. leaf.slow \in Nat /\ leaf.fast \in 1 .. leaf.slow - 1 /\ Len(y) >= leaf.slow
        BY <1>7 DEF AcceptedLeaf, BlockLookback
    <2>3. /\ leaf.slow \in Nat \ {0} /\ leaf.fast \in Nat \ {0}
          /\ leaf.slow <= Len(y) /\ leaf.fast <= Len(y) /\ Len(x) >= leaf.slow
        BY <2>2, <1>1
    <2>4. Window(y, leaf.slow) = Window(x, leaf.slow) /\ Window(y, leaf.fast) = Window(x, leaf.fast)
        BY <2>3, WindowOfEnd
    <2> QED BY <2>1, <2>2, <2>3, <2>4 DEF SmaAbove
<1>8. CASE leaf.block = "PRICE_VS_MA"
    <2>1. LeafTruth(leaf, y) = PriceAboveMean(leaf, y) /\ LeafTruth(leaf, x) = PriceAboveMean(leaf, x)
        BY <1>8 DEF LeafTruth
    <2>2. leaf.period \in Nat \ {0} /\ Len(y) >= leaf.period
        BY <1>8 DEF AcceptedLeaf, BlockLookback
    <2>3. leaf.period <= Len(y) /\ Len(x) >= leaf.period
        BY <2>2, <1>1
    <2>4. Window(y, leaf.period) = Window(x, leaf.period)
        BY <2>2, <2>3, WindowOfEnd
    <2> QED BY <2>1, <2>2, <2>3, <2>4, <1>2 DEF PriceAboveMean
<1>9. CASE leaf.block = "RSI_THRESHOLD"
    <2> DEFINE span == WarmupBars(leaf.period) + 1
    <2>1. LeafTruth(leaf, y) = GainsOutweighLosses(leaf, y) /\ LeafTruth(leaf, x) = GainsOutweighLosses(leaf, x)
        BY <1>9 DEF LeafTruth
    <2>2. span = BlockLookback(leaf)
        BY <1>9 DEF BlockLookback
    <2>3. (GainsOutweighLosses(leaf, y) <=> Len(y) >= span /\ y[Len(y)].c > y[Len(y) - span + 1].c)
          /\ (GainsOutweighLosses(leaf, x) <=> Len(x) >= span /\ x[Len(x)].c > x[Len(x) - span + 1].c)
        BY DEF GainsOutweighLosses
    <2> HIDE DEF span
    <2>4. span \in Nat \ {0} /\ span <= Len(y) /\ Len(x) >= span /\ Len(y) >= span /\ 1 \in 1 .. span
        BY <2>2, <1>1
    <2>5. y[Len(y) - span + 1] = x[Len(x) - span + 1]
        BY <2>4, WindowOfEnd
    <2> QED BY <2>1, <2>3, <2>4, <2>5, <1>2
<1>10. CASE leaf.block = "MINIMUM_RANGE"
    <2>1. LeafTruth(leaf, y) = MinimumRange(leaf, y) /\ LeafTruth(leaf, x) = MinimumRange(leaf, x)
        BY <1>10 DEF LeafTruth
    <2>2. leaf.lookback \in Nat \ {0} /\ Len(y) >= leaf.lookback
        BY <1>10 DEF AcceptedLeaf, BlockLookback
    <2>3. leaf.lookback <= Len(y) /\ Len(x) >= leaf.lookback
        BY <2>2, <1>1
    <2>4. Window(y, leaf.lookback) = Window(x, leaf.lookback)
        BY <2>2, <2>3, WindowOfEnd
    <2> QED BY <2>1, <2>2, <2>3, <2>4 DEF MinimumRange
<1> QED BY <1>4, <1>5, <1>6, <1>7, <1>8, <1>9, <1>10 DEF AcceptedLeaf

\* The range over the last candles is the same in two sequences that end alike.
LEMMA AtrAlike ==
    ASSUME NEW x, NEW y, EndOf(y, x), NEW period \in Nat, Len(y) >= period + 1
    PROVE  Atr(y, period) = Atr(x, period)
<1> DEFINE p == Len(y)
           q == Len(x)
<1>1. p \in Nat /\ q \in Nat /\ p <= q /\ \A k \in 1 .. p : y[k] = x[q - p + k]
    BY DEF EndOf
<1>2. ASSUME NEW k \in 1 .. period
      PROVE  y[p - k + 1] = x[q - k + 1] /\ y[p - k] = x[q - k]
    <2>1. /\ p - k + 1 \in 1 .. p /\ q - p + (p - k + 1) = q - k + 1
          /\ p - k \in 1 .. p /\ q - p + (p - k) = q - k
        BY <1>1
    <2> HIDE DEF p, q
    <2>2. y[p - k + 1] = x[q - p + (p - k + 1)] /\ y[p - k] = x[q - p + (p - k)]
        BY <2>1, <1>1
    <2> QED BY <2>1, <2>2
<1>3. [k \in 1 .. period |-> TrueRange(y[p - k + 1], y[p - k])]
        = [k \in 1 .. period |-> TrueRange(x[q - k + 1], x[q - k])]
    <2> HIDE DEF p, q
    <2> QED BY <1>2
<1>4. ~(p < period + 1) /\ ~(q < period + 1)
    BY <1>1
<1> QED BY <1>3, <1>4 DEF Atr

\* The answer, of any contract.
HoldsFor(con, avail, bar) ==
  /\ \A r \in con.rules : RuleTruth(r, avail)
  /\ con.hours = {} \/ (bar.t \div 4) % 2 \in con.hours
  /\ con.atr > 0 => Atr(avail[Exec], con.atr) > 0

\* No contract reads the legacy pair of candles on the execution timeframe.
NoLegacyPair(con) ==
  \A r \in con.rules : \A x \in Leaves(r) :
    x.block = "CANDLE_DIRECTION" /\ x.direction = "LEGACY" => x.tf = Ctx

\* A rule has the truth of its leaves.
LEMMA RuleAlike ==
    ASSUME NEW a1, NEW a2, NEW rule,
           \A x \in Leaves(rule) : LeafTruth(x, a1[x.tf]) <=> LeafTruth(x, a2[x.tf])
    PROVE  RuleTruth(rule, a1) <=> RuleTruth(rule, a2)
<1>1. CASE rule.block = "ALL_OF"
    <2>1. Leaves(rule) = rule.children
        BY <1>1 DEF Leaves
    <2> QED BY <2>1, <1>1 DEF RuleTruth
<1>2. CASE rule.block = "ANY_OF"
    <2>1. Leaves(rule) = rule.children
        BY <1>2 DEF Leaves
    <2> QED BY <2>1, <1>2 DEF RuleTruth
<1>3. CASE rule.block = "NOT"
    <2>1. Leaves(rule) = {rule.child}
        BY <1>3 DEF Leaves
    <2> QED BY <2>1, <1>3 DEF RuleTruth
<1>4. CASE rule.block \notin {"ALL_OF", "ANY_OF", "NOT"}
    <2>1. Leaves(rule) = {rule}
        BY <1>4 DEF Leaves
    <2> QED BY <2>1, <1>4 DEF RuleTruth
<1> QED BY <1>1, <1>2, <1>3, <1>4

\* The streaming evaluator keeps enough for every answer of its contract.
LEMMA AnswersAlike ==
    ASSUME NEW con \in Contracts, NoLegacyPair(con), NEW seen, NEW whole, NEW bar,
           EndOf(seen[Exec], whole[Exec]), EndOf(seen[Ctx], whole[Ctx]),
           \/ Len(seen[Exec]) = Len(whole[Exec])
           \/ Len(seen[Exec]) >= RequiredLookback(con, Exec, Exec),
           \/ Len(seen[Ctx]) = Len(whole[Ctx])
           \/ Len(seen[Ctx]) >= RequiredLookback(con, Ctx, Exec) + 1
    PROVE  HoldsFor(con, seen, bar) <=> HoldsFor(con, whole, bar)
<1>1. /\ con.atr \in Nat
      /\ \A r \in con.rules : \A x \in Leaves(r) : AcceptedLeaf(x)
    BY ReplayAssumption DEF Accepted
<1>2. ASSUME NEW r \in con.rules, NEW x \in Leaves(r)
      PROVE  LeafTruth(x, seen[x.tf]) <=> LeafTruth(x, whole[x.tf])
    <2>1. AcceptedLeaf(x) /\ x.tf \in {Exec, Ctx} /\ BlockLookback(x) \in Nat \ {0} /\ Exec # Ctx
        BY <1>1, BlockLookbackIs, ReplayAssumption DEF AcceptedLeaf
    <2>2. CASE Len(seen[x.tf]) = Len(whole[x.tf])
        <3>1. seen[x.tf] = whole[x.tf]
            BY <2>1, <2>2, WholeEnd
        <3> QED BY <3>1
    <2>3. CASE x.tf = Exec /\ Len(seen[Exec]) >= RequiredLookback(con, Exec, Exec)
        <3>1. BlockLookback(x) <= RequiredLookback(con, Exec, Exec) /\ RequiredLookback(con, Exec, Exec) \in Nat
            BY <2>3, LookbackIs
        <3>2. Len(seen[Exec]) \in Nat
            BY DEF EndOf
        <3>3. Len(seen[Exec]) >= BlockLookback(x)
            BY <3>1, <3>2, <2>1, <2>3
        <3>4. ~(x.block = "CANDLE_DIRECTION" /\ x.direction = "LEGACY")
            BY <2>1, <2>3 DEF NoLegacyPair
        <3> QED BY <3>3, <3>4, <2>1, <2>3, LeafAlike
    <2>4. CASE x.tf = Ctx /\ Len(seen[Ctx]) >= RequiredLookback(con, Ctx, Exec) + 1
        <3>1. BlockLookback(x) <= RequiredLookback(con, Ctx, Exec) /\ RequiredLookback(con, Ctx, Exec) \in Nat
            BY <2>4, LookbackIs
        <3>2. Len(seen[Ctx]) \in Nat
            BY DEF EndOf
        <3>3. Len(seen[Ctx]) >= BlockLookback(x) /\ Len(seen[Ctx]) >= 2
            BY <3>1, <3>2, <2>1, <2>4
        <3> QED BY <3>3, <2>1, <2>4, LeafAlike
    <2> QED BY <2>1, <2>2, <2>3, <2>4
<1>3. \A r \in con.rules : RuleTruth(r, seen) <=> RuleTruth(r, whole)
    BY <1>2, RuleAlike
<1>4. con.atr > 0 => Atr(seen[Exec], con.atr) = Atr(whole[Exec], con.atr)
    <2>1. CASE Len(seen[Exec]) = Len(whole[Exec])
        BY <2>1, WholeEnd
    <2>2. CASE con.atr > 0 /\ Len(seen[Exec]) >= RequiredLookback(con, Exec, Exec)
        <3>1. RequiredLookback(con, Exec, Exec) >= con.atr + 1 /\ RequiredLookback(con, Exec, Exec) \in Nat
            BY <2>2, LookbackIs
        <3>2. Len(seen[Exec]) \in Nat
            BY DEF EndOf
        <3>3. Len(seen[Exec]) >= con.atr + 1
            BY <3>1, <3>2, <2>2, <1>1
        <3> QED BY <3>3, <1>1, AtrAlike
    <2> QED BY <2>1, <2>2
<1> QED BY <1>3, <1>4 DEF HoldsFor

\* The stop distance of an answer, of any contract.
DistanceOf(con, avail) == IF con.atr > 0 THEN Atr(avail[Exec], con.atr) ELSE Stop

\* The stop distance taken from what is kept is the one taken from the whole split.
LEMMA DistancesAlike ==
    ASSUME NEW con \in Contracts, NEW seen, NEW whole, EndOf(seen[Exec], whole[Exec]),
           \/ Len(seen[Exec]) = Len(whole[Exec])
           \/ Len(seen[Exec]) >= RequiredLookback(con, Exec, Exec)
    PROVE  DistanceOf(con, seen) = DistanceOf(con, whole)
<1>1. con.atr \in Nat
    BY ReplayAssumption DEF Accepted
<1>2. CASE Len(seen[Exec]) = Len(whole[Exec])
    <2>1. seen[Exec] = whole[Exec]
        BY <1>2, WholeEnd
    <2> QED BY <2>1 DEF DistanceOf
<1>3. CASE con.atr > 0 /\ Len(seen[Exec]) >= RequiredLookback(con, Exec, Exec)
    <2>1. RequiredLookback(con, Exec, Exec) >= con.atr + 1 /\ RequiredLookback(con, Exec, Exec) \in Nat
        BY <1>3, LookbackIs
    <2>2. Len(seen[Exec]) \in Nat
        BY DEF EndOf
    <2>3. Len(seen[Exec]) >= con.atr + 1
        BY <2>1, <2>2, <1>1, <1>3
    <2>4. Atr(seen[Exec], con.atr) = Atr(whole[Exec], con.atr)
        BY <2>3, <1>1, AtrAlike
    <2> QED BY <2>4 DEF DistanceOf
<1>4. CASE ~(con.atr > 0)
    BY <1>4 DEF DistanceOf
<1> QED BY <1>2, <1>3, <1>4

\* The contracts the streaming evaluator answers as the batch one does.
NoLegacyPairs == \A con \in Contracts : NoLegacyPair(con)

\* The reference answer and stop distance about the candle at.
EligibleAt(at) == HoldsFor(contract, CompleteAt(bars, context, calendar[1], at), bars[at])
DistanceAt(at) == DistanceOf(contract, CompleteAt(bars, context, calendar[1], at))

\* What is complete at a candle stays so when another one is fed.
LEMMA CompleteStays ==
    ASSUME Fed, NEW shape \in Shapes, OnCandle(NextCandle(shape)), NEW at \in 1 .. Len(bars)
    PROVE  (EligibleAt(at)' <=> EligibleAt(at)) /\ DistanceAt(at)' = DistanceAt(at)
<1>1. /\ NextCandle(shape) \in Candle /\ bars' = Append(bars, NextCandle(shape))
      /\ contract' = contract /\ calendar' = calendar /\ context' = context
      /\ \A i \in 1 .. Len(bars) : bars'[i] = bars[i]
    BY NextCandleIs DEF OnCandle
<1>2. bars \in Seq(Candle) /\ Len(bars) \in Nat /\ at \in 0 .. Len(bars)
    BY BarsAre DEF Fed
<1>3. SubSeq(bars', 1, at) = SubSeq(bars, 1, at) /\ bars'[at] = bars[at]
    BY <1>1, <1>2, PrefixOfAppend
<1>4. CompleteAt(bars', context, calendar[1], at) = CompleteAt(bars, context, calendar[1], at)
    BY <1>3 DEF CompleteAt
<1> QED BY <1>1, <1>3, <1>4 DEF EligibleAt, DistanceAt

\* A signal is answered, and its stop distance taken, as on the whole split.
LEMMA AskedAlike ==
    ASSUME NoLegacyPairs, ReplayInv, NEW shape \in Shapes, OnCandle(NextCandle(shape)),
           before # 0, signal # 0, active = NoTrade, Decide(NextCandle(shape), Len(bars) + 1),
           Shift(Len(bars) + 1) \/ Forget(Len(bars) + 1)
    PROVE  /\ decision'.at = signal /\ decision'.eligible \in BOOLEAN
           /\ decision'.eligible <=> EligibleAt(signal)
           /\ StopDistance(Available(history', signal, bars')) = DistanceAt(signal)
<1> DEFINE seen == Available(history', signal, bars')
           whole == CompleteAt(bars', context, calendar[1], signal)
<1>1. /\ Histories' /\ Follows(bars', calendar) /\ bars # <<>> /\ signal = Len(bars) /\ Len(bars) \in Nat
      /\ contract' = contract /\ calendar' = calendar /\ context' = context
      /\ \A i \in 1 .. Len(bars) : bars'[i] = bars[i]
    BY Asked
<1>2. Fed /\ Histories /\ contract \in Contracts /\ NoLegacyPair(contract) /\ signal \in 1 .. Len(bars)
    BY <1>1 DEF ReplayInv, Fed, NoLegacyPairs
<1>3. /\ EndOf(seen[Exec], whole[Exec]) /\ EndOf(seen[Ctx], whole[Ctx])
      /\ \/ Len(seen[Exec]) = Len(whole[Exec])
         \/ Len(seen[Exec]) >= RequiredLookback(contract, Exec, Exec)
      /\ \/ Len(seen[Ctx]) = Len(whole[Ctx])
         \/ Len(seen[Ctx]) >= RequiredLookback(contract, Ctx, Exec) + 1
    BY <1>1, <1>2, AvailableIs
<1>4. whole = CompleteAt(bars, context, calendar[1], signal)
    <2>1. NextCandle(shape) \in Candle /\ bars' = Append(bars, NextCandle(shape)) /\ bars \in Seq(Candle)
        BY <1>2, NextCandleIs DEF OnCandle, Fed
    <2>2. signal \in 0 .. Len(bars)
        BY <1>2
    <2>3. SubSeq(bars', 1, signal) = SubSeq(bars, 1, signal) /\ bars'[signal] = bars[signal]
        BY <2>1, <2>2, <1>1, <1>2, PrefixOfAppend
    <2> QED BY <2>3 DEF CompleteAt
<1>5. decision'.at = signal /\ decision'.eligible = RulesHold(seen, bars[signal])
    BY DEF Decide
<1> HIDE DEF seen, whole
<1>6. HoldsFor(contract, seen, bars[signal]) <=> HoldsFor(contract, whole, bars[signal])
    BY <1>2, <1>3, AnswersAlike
<1>7. DistanceOf(contract, seen) = DistanceOf(contract, whole)
    BY <1>2, <1>3, DistancesAlike
<1>8. RulesHold(seen, bars[signal]) = HoldsFor(contract, seen, bars[signal])
    BY DEF RulesHold, InSession, HoldsFor
<1>9. StopDistance(seen) = DistanceOf(contract, seen)
    BY DEF StopDistance, DistanceOf
<1>10. decision'.eligible = HoldsFor(contract, seen, bars[signal]) /\ HoldsFor(contract, seen, bars[signal]) \in BOOLEAN
    BY <1>5, <1>8 DEF HoldsFor
<1> QED BY <1>4, <1>5, <1>6, <1>7, <1>9, <1>10 DEF EligibleAt, DistanceAt, seen

-----------------------------------------------------------------------------
(* The batch evaluator *)

\* The batch evaluator reads the completed candles, in their order, and nothing else.
LEMMA ReferenceIs ==
    ASSUME Fed, NEW at \in 1 .. Len(bars)
    PROVE  (BatchEligible(at) <=> EligibleAt(at)) /\ StopDistance(BatchAvailable(at)) = DistanceAt(at)
<1>1. Follows(bars, calendar) /\ context \in Contexts
    BY DEF Fed, Follows
<1>2. BatchOf(bars, context, calendar[1], at) = CompleteAt(bars, context, calendar[1], at)
    BY <1>1, BatchIs
<1>3. BatchAvailable(at) = CompleteAt(bars, context, calendar[1], at)
    BY <1>2 DEF BatchAvailable, BatchOf
<1>4. BatchEligible(at) = EligibleAt(at)
    <2> DEFINE whole == CompleteAt(bars, context, calendar[1], at)
    <2>1. BatchEligible(at) = RulesHold(whole, bars[at]) /\ EligibleAt(at) = HoldsFor(contract, whole, bars[at])
        BY <1>3 DEF BatchEligible, EligibleAt
    <2> HIDE DEF whole
    <2>2. RulesHold(whole, bars[at]) = HoldsFor(contract, whole, bars[at])
        BY DEF RulesHold, InSession, HoldsFor
    <2> QED BY <2>1, <2>2
<1>5. StopDistance(BatchAvailable(at)) = DistanceAt(at)
    BY <1>3 DEF StopDistance, DistanceAt, DistanceOf
<1> QED BY <1>4, <1>5

\* The last answer is the one on the whole split.
Answered ==
  decision # NoTrade => /\ decision.at \in 1 .. Len(bars) /\ decision.eligible \in BOOLEAN
                        /\ decision.eligible <=> EligibleAt(decision.at)

\* An answer stays right when candles are fed behind it.
LEMMA AnsweredStays ==
    ASSUME ReplayInv, Answered, NEW shape \in Shapes, OnCandle(NextCandle(shape)), decision' = decision
    PROVE  Answered'
<1>1. Fed /\ Len(bars') = Len(bars) + 1 /\ Len(bars) \in Nat
    BY NextCandleIs, BarsAre DEF ReplayInv
<1>2. SUFFICES ASSUME decision # NoTrade
               PROVE  decision.at \in 1 .. Len(bars') /\ (EligibleAt(decision.at)' <=> EligibleAt(decision.at))
    BY DEF Answered, EligibleAt
<1>3. decision.at \in 1 .. Len(bars)
    BY <1>2 DEF Answered
<1>4. decision.at \in 1 .. Len(bars')
    BY <1>1, <1>3
<1> DEFINE at == decision.at
<1>5. \A i \in 1 .. Len(bars) : EligibleAt(i)' <=> EligibleAt(i)
    BY <1>1, CompleteStays
<1> QED BY <1>3, <1>4, <1>5

LEMMA AnsweredHolds == ASSUME NoLegacyPairs PROVE ReplaySpec => []Answered
<1>1. ReplayInit => Answered
    BY DEF ReplayInit, Answered
<1>2. ReplayInv /\ Answered /\ [ReplayNext]_replayVars => Answered'
    <2> SUFFICES ASSUME ReplayInv, Answered, [ReplayNext]_replayVars PROVE Answered'
        OBVIOUS
    <2>1. CASE DataEnd \/ UNCHANGED replayVars
        <3>1. /\ decision' = decision /\ bars' = bars /\ contract' = contract /\ context' = context
              /\ calendar' = calendar
            BY <2>1 DEF DataEnd, inputs, replayVars
        <3> QED BY <3>1 DEF Answered, EligibleAt
    <2>2. ASSUME NEW shape \in Shapes, ManagePosition(shape) \/ FillWindow(shape) PROVE Answered'
        <3>1. OnCandle(NextCandle(shape)) /\ decision' = decision
            BY <2>2 DEF ManagePosition, FillWindow
        <3> QED BY <3>1, AnsweredStays
    <2>3. ASSUME NEW shape \in Shapes, PassSignal(shape) \/ EnterPosition(shape) PROVE Answered'
        <3>1. /\ OnCandle(NextCandle(shape)) /\ before # 0 /\ signal # 0 /\ active = NoTrade
              /\ Decide(NextCandle(shape), Len(bars) + 1) /\ (Shift(Len(bars) + 1) \/ Forget(Len(bars) + 1))
            BY <2>3 DEF PassSignal, EnterPosition
        <3>2. decision'.at = signal /\ decision'.eligible \in BOOLEAN /\ (decision'.eligible <=> EligibleAt(signal))
            BY <3>1, AskedAlike
        <3>3. Fed /\ signal = Len(bars) /\ Len(bars) \in Nat /\ Len(bars') = Len(bars) + 1 /\ signal > 0
            BY <3>1, Asked DEF ReplayInv
        <3>4. signal \in 1 .. Len(bars) /\ signal \in 1 .. Len(bars')
            BY <3>3
        <3>5. \A i \in 1 .. Len(bars) : EligibleAt(i)' <=> EligibleAt(i)
            BY <3>1, <3>3, CompleteStays
        <3>6. \A i \in 1 .. Len(bars) : decision'.at = i => (EligibleAt(decision.at)' <=> EligibleAt(i)')
            BY DEF EligibleAt
        <3> QED BY <3>2, <3>4, <3>5, <3>6 DEF Answered
    <2> QED BY <2>1, <2>2, <2>3 DEF ReplayNext, Feed
<1> QED BY <1>1, <1>2, ReplayInvHolds, PTL DEF ReplaySpec

\* The evaluator that keeps no more than the declared lookback answers every
\* signal as the one that keeps the whole split, whatever blocks a contract is
\* made of, if it does not read the legacy pair on the execution timeframe.
THEOREM StreamingIsBatch == ASSUME NoLegacyPairs PROVE ReplaySpec => []StreamingAgreesWithBatch
<1>1. ReplayInv /\ Answered => StreamingAgreesWithBatch
    <2> SUFFICES ASSUME ReplayInv, Answered, decision # NoTrade
                 PROVE  decision.eligible = BatchEligible(decision.at)
        BY DEF StreamingAgreesWithBatch
    <2>1. Fed /\ decision.at \in 1 .. Len(bars)
        BY DEF ReplayInv, Answered
    <2>2. BatchEligible(decision.at) <=> EligibleAt(decision.at)
        BY <2>1, ReferenceIs
    <2>3. BatchEligible(decision.at) \in BOOLEAN /\ decision.eligible \in BOOLEAN
        BY DEF BatchEligible, RulesHold, Answered
    <2> QED BY <2>2, <2>3 DEF Answered
<1> QED BY <1>1, AnsweredHolds, ReplayInvHolds, PTL

-----------------------------------------------------------------------------
(* The market as a LONG position sees it *)

Market == [i \in DOMAIN bars |-> Mirror(bars[i])]

\* The extremes of a position, as a LONG one sees them.
Lower(pos) == IF sign = 1 THEN pos.low ELSE -pos.high
Upper(pos) == IF sign = 1 THEN pos.high ELSE -pos.low

\* A hit of a SHORT position is a hit of the LONG one on the mirrored candle.
LEMMA MirrorIs ==
    ASSUME Fed, NEW bar \in Candle
    PROVE  /\ Mirror(bar) \in Candle /\ Mirror(bar).o = sign * bar.o /\ Mirror(bar).c = sign * bar.c
           /\ \A pos \in Position : /\ StopHit(pos, bar) <=> Mirror(bar).l <= sign * pos.stop
                                    /\ TargetHit(pos, bar) <=> Mirror(bar).h >= sign * pos.target
<1>1. /\ bar.t \in Int /\ bar.o \in Int /\ bar.h \in Int /\ bar.l \in Int /\ bar.c \in Int
      /\ \A pos \in Position : pos.stop \in Int /\ pos.target \in Int
    BY DEF Candle, Position
<1>2. CASE sign = 1
    <2>1. Mirror(bar) = bar
        BY <1>2 DEF Mirror
    <2>2. \A x \in Int : sign * x = x
        BY <1>2
    <2> QED BY <2>1, <2>2, <1>1, <1>2 DEF StopHit, TargetHit
<1>3. CASE sign = -1
    <2>1. Mirror(bar) = [t |-> bar.t, o |-> -bar.o, h |-> -bar.l, l |-> -bar.h, c |-> -bar.c]
        BY <1>3 DEF Mirror
    <2>2. \A x \in Int : sign * x = -x /\ -x \in Int
        BY <1>3
    <2>3. Mirror(bar) \in Candle /\ Mirror(bar).o = sign * bar.o /\ Mirror(bar).c = sign * bar.c
        BY <2>1, <2>2, <1>1 DEF Candle
    <2>4. Mirror(bar).l = -bar.h /\ Mirror(bar).h = -bar.l
        BY <2>1
    <2>5. \A x, y \in Int : (x >= y <=> -x <= -y) /\ (x <= y <=> -x >= -y)
        OBVIOUS
    <2>6. ASSUME NEW pos \in Position
          PROVE  /\ StopHit(pos, bar) <=> Mirror(bar).l <= sign * pos.stop
                 /\ TargetHit(pos, bar) <=> Mirror(bar).h >= sign * pos.target
        <3>1. (StopHit(pos, bar) <=> bar.h >= pos.stop) /\ (TargetHit(pos, bar) <=> bar.l <= pos.target)
            BY <1>3 DEF StopHit, TargetHit
        <3>2. sign * pos.stop = -pos.stop /\ sign * pos.target = -pos.target
            BY <2>2, <1>1
        <3> QED BY <3>1, <3>2, <2>4, <2>5, <1>1
    <2> QED BY <2>3, <2>6
<1> QED BY <1>2, <1>3, SignIs

LEMMA MarketIs ==
    ASSUME Fed
    PROVE  /\ Market \in Seq(Candle) /\ Len(Market) = Len(bars) /\ DOMAIN Market = 1 .. Len(bars)
           /\ \A k \in 1 .. Len(bars) : /\ Market[k] = Mirror(bars[k]) /\ Market[k] \in Candle
                                        /\ Market[k].o \in Int /\ Market[k].h \in Int
                                        /\ Market[k].l \in Int /\ Market[k].c \in Int
<1>1. Len(bars) \in Nat /\ DOMAIN bars = 1 .. Len(bars) /\ \A k \in 1 .. Len(bars) : bars[k] \in Candle
    BY BarsAre
<1>2. \A k \in 1 .. Len(bars) : Mirror(bars[k]) \in Candle
    BY <1>1, MirrorIs
<1>3. Market = [k \in 1 .. Len(bars) |-> Mirror(bars[k])]
    BY <1>1 DEF Market
<1> DEFINE n == Len(bars)
<1>4. Market \in Seq(Candle) /\ Len(Market) = n
    <2>1. n \in Nat
        BY <1>1
    <2> HIDE DEF n
    <2>2. [k \in 1 .. n |-> Mirror(bars[k])] \in Seq(Candle) /\ Len([k \in 1 .. n |-> Mirror(bars[k])]) = n
        BY <2>1, <1>2 DEF n
    <2> QED BY <2>2, <1>3 DEF n
<1>5. \A k \in 1 .. n : Market[k] = Mirror(bars[k]) /\ Market[k] \in Candle
    BY <1>2, <1>3
<1>6. \A x \in Candle : x.o \in Int /\ x.h \in Int /\ x.l \in Int /\ x.c \in Int
    BY DEF Candle
<1> QED BY <1>1, <1>3, <1>4, <1>5, <1>6

\* A candle is fed: the market grows by its mirror image.
LEMMA MarketGrows ==
    ASSUME Fed, NEW shape \in Shapes, OnCandle(NextCandle(shape))
    PROVE  /\ Len(Market') = Len(bars) + 1
           /\ sign' = sign
           /\ \A k \in 1 .. Len(bars) : Market'[k] = Market[k]
           /\ Market'[Len(bars) + 1] = Mirror(NextCandle(shape))
<1>1. /\ bars' \in Seq(Candle) /\ Len(bars') = Len(bars) + 1 /\ contract' = contract
      /\ bars'[Len(bars) + 1] = NextCandle(shape)
      /\ \A i \in 1 .. Len(bars) : bars'[i] = bars[i]
    BY NextCandleIs
<1>2. Len(bars) \in Nat /\ DOMAIN bars = 1 .. Len(bars) /\ DOMAIN bars' = 1 .. Len(bars) + 1
    BY <1>1, BarsAre
<1>3. sign' = sign
    BY <1>1 DEF sign
<1>4. Market' = [k \in 1 .. Len(bars) + 1 |-> Mirror(bars'[k])]
    <2>1. Market' = [k \in DOMAIN bars' |-> Mirror(bars'[k])]
        BY <1>3 DEF Market, Mirror
    <2> QED BY <2>1, <1>2
<1>5. \A k \in 1 .. Len(bars) : Market'[k] = Market[k]
    <2>1. ASSUME NEW k \in 1 .. Len(bars) PROVE Market'[k] = Market[k]
        <3>1. k \in 1 .. Len(bars) + 1 /\ bars'[k] = bars[k]
            BY <1>1, <1>2
        <3>2. Market'[k] = Mirror(bars[k])
            BY <3>1, <1>4
        <3> QED BY <3>2, <1>2 DEF Market
    <2> QED BY <2>1
<1>6. Market'[Len(bars) + 1] = Mirror(NextCandle(shape))
    <2>1. Len(bars) + 1 \in 1 .. Len(bars) + 1
        BY <1>2
    <2> QED BY <2>1, <1>1, <1>4
<1>7. Len(Market') = Len(bars) + 1
    <2> DEFINE N == Len(bars) + 1
    <2>1. N \in Nat
        BY <1>2
    <2> HIDE DEF N
    <2>2. Len([k \in 1 .. N |-> Mirror(bars'[k])]) = N
        BY <2>1
    <2> QED BY <2>2, <1>4 DEF N
<1> QED BY <1>3, <1>5, <1>6, <1>7

\* Widening a position is the least low and the greatest high of the mirrored market.
LEMMA ExtremesAre ==
    ASSUME Fed, NEW pos \in Position, NEW bar \in Candle
    PROVE  /\ Lower(Widened(pos, bar)) = (IF Lower(pos) <= Mirror(bar).l THEN Lower(pos) ELSE Mirror(bar).l)
           /\ Upper(Widened(pos, bar)) = (IF Upper(pos) >= Mirror(bar).h THEN Upper(pos) ELSE Mirror(bar).h)
           /\ Lower(pos) \in Int /\ Upper(pos) \in Int
<1>1. pos.high \in Int /\ pos.low \in Int /\ bar.h \in Int /\ bar.l \in Int
    BY DEF Position, Candle
<1> DEFINE w == Widened(pos, bar)
<1>2. /\ w.high = (IF pos.high >= bar.h THEN pos.high ELSE bar.h)
      /\ w.low = (IF pos.low <= bar.l THEN pos.low ELSE bar.l)
    BY WidenedIs
<1> HIDE DEF w
<1>3. CASE sign = 1
    <2>1. Mirror(bar) = bar
        BY <1>3 DEF Mirror
    <2>2. Lower(w) = w.low /\ Upper(w) = w.high /\ Lower(pos) = pos.low /\ Upper(pos) = pos.high
        BY <1>3 DEF Lower, Upper
    <2> QED BY <2>1, <2>2, <1>1, <1>2 DEF w
<1>4. CASE sign = -1
    <2>1. Mirror(bar).l = -bar.h /\ Mirror(bar).h = -bar.l
        BY <1>4 DEF Mirror
    <2>2. Lower(w) = -w.high /\ Upper(w) = -w.low /\ Lower(pos) = -pos.high /\ Upper(pos) = -pos.low
        BY <1>4 DEF Lower, Upper
    <2> QED BY <2>1, <2>2, <1>1, <1>2 DEF w
<1> QED BY <1>3, <1>4, SignIs

\* The record of a position closed at a price, as a LONG one sees it.
LEMMA RecordSeen ==
    ASSUME Fed, NEW pos \in Position, NEW i \in Nat, NEW price \in Int, NEW reason
    PROVE  LET t == Record(pos, i, price, reason) IN
           /\ t.signal = pos.signal /\ t.exitBar = i
           /\ t.entry = pos.entry /\ t.exit = price /\ t.reason = reason
           /\ t.pnl = sign * price - sign * pos.entry - Commission
           /\ t.mae + sign * pos.entry = Lower(pos) /\ t.mfe + sign * pos.entry = Upper(pos)
<1>1. pos.high \in Int /\ pos.low \in Int /\ pos.entry \in Int /\ Commission \in Int
    BY ReplayAssumption DEF Position
<1> DEFINE adverse == IF sign = 1 THEN pos.low ELSE pos.high
           favourable == IF sign = 1 THEN pos.high ELSE pos.low
           t == Record(pos, i, price, reason)
<1>2. /\ t.signal = pos.signal /\ t.exitBar = i /\ t.entry = pos.entry /\ t.exit = price /\ t.reason = reason
      /\ t.pnl = sign * (price - pos.entry) - Commission
      /\ t.mae = sign * (adverse - pos.entry) /\ t.mfe = sign * (favourable - pos.entry)
    BY DEF Record
<1> HIDE DEF t
<1>3. CASE sign = 1
    <2>1. \A x \in Int : sign * x = x
        BY <1>3
    <2>2. adverse = Lower(pos) /\ favourable = Upper(pos) /\ adverse \in Int /\ favourable \in Int
        BY <1>1, <1>3 DEF Lower, Upper
    <2> HIDE DEF adverse, favourable
    <2>3. price - pos.entry \in Int /\ adverse - pos.entry \in Int /\ favourable - pos.entry \in Int
        BY <2>2, <1>1
    <2>4. /\ t.pnl = price - pos.entry - Commission /\ sign * price = price /\ sign * pos.entry = pos.entry
          /\ t.mae = adverse - pos.entry /\ t.mfe = favourable - pos.entry
        BY <2>1, <2>3, <1>1, <1>2
    <2> QED BY <2>2, <2>4, <1>1, <1>2 DEF t
<1>4. CASE sign = -1
    <2>1. \A x \in Int : sign * x = -x
        BY <1>4
    <2>2. -adverse = Lower(pos) /\ -favourable = Upper(pos) /\ adverse \in Int /\ favourable \in Int
        BY <1>1, <1>4 DEF Lower, Upper
    <2> HIDE DEF adverse, favourable
    <2>3. price - pos.entry \in Int /\ adverse - pos.entry \in Int /\ favourable - pos.entry \in Int
        BY <2>2, <1>1
    <2>4. /\ t.pnl = -(price - pos.entry) - Commission /\ sign * price = -price /\ sign * pos.entry = -pos.entry
          /\ t.mae = -(adverse - pos.entry) /\ t.mfe = -(favourable - pos.entry)
        BY <2>1, <2>3, <1>1, <1>2
    <2> QED BY <2>2, <2>4, <1>1, <1>2 DEF t
<1> QED BY <1>3, <1>4, SignIs

-----------------------------------------------------------------------------
(* A trade of the reference *)

EntryPrice(m, s) == m[s + 1].o + Spread
Struck(m, k, stop, target) == m[k].l <= stop \/ m[k].h >= target
Lowest(m, i, j, x) == (\E k \in i .. j : x = m[k].l) /\ \A k \in i .. j : x <= m[k].l
Highest(m, i, j, x) == (\E k \in i .. j : x = m[k].h) /\ \A k \in i .. j : x >= m[k].h

\* A position of market m with the stop distance d, held from its entry candle to
\* candle i, which has widened it and may still close it; g is its sign.
Carried(m, i, d, g, lo, hi, pos) ==
  LET e == EntryPrice(m, pos.signal) IN
  /\ g * pos.entry = e /\ g * pos.stop = e - d /\ g * pos.target = e + Target
  /\ \A k \in pos.signal + 1 .. i - 1 : ~Struck(m, k, e - d, e + Target)
  /\ Lowest(m, pos.signal + 1, i, lo) /\ Highest(m, pos.signal + 1, i, hi)

\* The same after candle i.
Underway(m, i, d, g, lo, hi, pos) ==
  /\ Carried(m, i, d, g, lo, hi, pos)
  /\ ~Struck(m, i, EntryPrice(m, pos.signal) - d, EntryPrice(m, pos.signal) + Target)

\* A trade closed by the first candle that reaches its stop or its target; when
\* the data is over, by the last candle.
Settled(m, d, g, over, t) ==
  LET e == EntryPrice(m, t.signal)
      stop == e - d
      target == e + Target
      last == m[t.exitBar]
  IN /\ t.entry = g * e /\ t.pnl = g * t.exit - e - Commission
     /\ \A k \in t.signal + 1 .. t.exitBar - 1 : ~Struck(m, k, stop, target)
     /\ Lowest(m, t.signal + 1, t.exitBar, t.mae + e) /\ Highest(m, t.signal + 1, t.exitBar, t.mfe + e)
     /\ \/ /\ last.l <= stop /\ g * t.exit = stop
           /\ t.reason = IF last.h >= target THEN "AMBIGUOUS_STOP_FIRST" ELSE "STOP_LOSS"
        \/ ~(last.l <= stop) /\ last.h >= target /\ g * t.exit = target /\ t.reason = "TAKE_PROFIT"
        \/ /\ over /\ t.exitBar = Len(m) /\ ~Struck(m, t.exitBar, stop, target)
           /\ g * t.exit = last.c /\ t.reason = "DATA_END"

\* What a trade is settled by are the candles up to its exit.
LEMMA SettledStays ==
    ASSUME NEW m, NEW m2, NEW d, NEW g, NEW t, t.signal \in Nat, t.exitBar \in Nat,
           t.signal + 1 <= t.exitBar, \A k \in 1 .. t.exitBar : m2[k] = m[k],
           NEW over \in BOOLEAN, Settled(m, d, g, over, t), NEW over2 \in BOOLEAN,
           ~over \/ (over2 /\ Len(m2) = Len(m))
    PROVE  Settled(m2, d, g, over2, t)
<1>1. /\ \A k \in t.signal + 1 .. t.exitBar : m2[k] = m[k]
      /\ \A k \in t.signal + 1 .. t.exitBar - 1 : m2[k] = m[k]
      /\ m2[t.exitBar] = m[t.exitBar] /\ m2[t.signal + 1] = m[t.signal + 1]
    <2>1. /\ \A k \in t.signal + 1 .. t.exitBar : k \in 1 .. t.exitBar
          /\ \A k \in t.signal + 1 .. t.exitBar - 1 : k \in 1 .. t.exitBar
          /\ t.exitBar \in 1 .. t.exitBar /\ t.signal + 1 \in 1 .. t.exitBar
        OBVIOUS
    <2> QED BY <2>1
<1> DEFINE e == EntryPrice(m, t.signal)
<1>2. EntryPrice(m2, t.signal) = e
    BY <1>1 DEF EntryPrice
<1>3. \A x : /\ Lowest(m, t.signal + 1, t.exitBar, x) => Lowest(m2, t.signal + 1, t.exitBar, x)
             /\ Highest(m, t.signal + 1, t.exitBar, x) => Highest(m2, t.signal + 1, t.exitBar, x)
    BY <1>1 DEF Lowest, Highest
<1>4. \A x, y : /\ \A k \in t.signal + 1 .. t.exitBar - 1 : Struck(m2, k, x, y) <=> Struck(m, k, x, y)
                /\ Struck(m2, t.exitBar, x, y) <=> Struck(m, t.exitBar, x, y)
    BY <1>1 DEF Struck
<1> HIDE DEF e
<1> QED BY <1>1, <1>2, <1>3, <1>4 DEF Settled, e

\* The same for an open position.
LEMMA UnderwayStays ==
    ASSUME NEW m, NEW m2, NEW d, NEW g, NEW lo, NEW hi, NEW pos, NEW i \in Nat, pos.signal \in Nat,
           pos.signal + 1 <= i, \A k \in 1 .. i : m2[k] = m[k], Underway(m, i, d, g, lo, hi, pos)
    PROVE  Underway(m2, i, d, g, lo, hi, pos)
<1>1. /\ \A k \in pos.signal + 1 .. i : m2[k] = m[k]
      /\ \A k \in pos.signal + 1 .. i - 1 : m2[k] = m[k]
      /\ m2[i] = m[i] /\ m2[pos.signal + 1] = m[pos.signal + 1]
    <2>1. /\ \A k \in pos.signal + 1 .. i : k \in 1 .. i
          /\ \A k \in pos.signal + 1 .. i - 1 : k \in 1 .. i
          /\ i \in 1 .. i /\ pos.signal + 1 \in 1 .. i
        OBVIOUS
    <2> QED BY <2>1
<1> DEFINE e == EntryPrice(m, pos.signal)
<1>2. EntryPrice(m2, pos.signal) = e
    BY <1>1 DEF EntryPrice
<1>3. /\ Lowest(m, pos.signal + 1, i, lo) => Lowest(m2, pos.signal + 1, i, lo)
      /\ Highest(m, pos.signal + 1, i, hi) => Highest(m2, pos.signal + 1, i, hi)
    BY <1>1 DEF Lowest, Highest
<1>4. \A x, y : /\ \A k \in pos.signal + 1 .. i - 1 : Struck(m2, k, x, y) <=> Struck(m, k, x, y)
                /\ Struck(m2, i, x, y) <=> Struck(m, i, x, y)
    BY <1>1 DEF Struck
<1> HIDE DEF e
<1> QED BY <1>2, <1>3, <1>4 DEF Underway, Carried, e

\* One more candle widens a position that is still open.
LEMMA CarriedOn ==
    ASSUME NEW m, NEW d, NEW g, NEW lo \in Int, NEW hi \in Int, NEW pos, NEW w, NEW i \in Nat,
           pos.signal \in Nat, pos.signal + 1 <= i, Underway(m, i, d, g, lo, hi, pos),
           m[i + 1].l \in Int, m[i + 1].h \in Int, \A k \in pos.signal + 1 .. i : m[k].l \in Int /\ m[k].h \in Int,
           w.signal = pos.signal, w.entry = pos.entry, w.stop = pos.stop, w.target = pos.target
    PROVE  Carried(m, i + 1, d, g, IF lo <= m[i + 1].l THEN lo ELSE m[i + 1].l,
                                   IF hi >= m[i + 1].h THEN hi ELSE m[i + 1].h, w)
<1> DEFINE s == pos.signal
           e == EntryPrice(m, s)
           a == m[i + 1].l
           b == m[i + 1].h
           lo2 == IF lo <= a THEN lo ELSE a
           hi2 == IF hi >= b THEN hi ELSE b
<1>1. /\ g * w.entry = e /\ g * w.stop = e - d /\ g * w.target = e + Target
      /\ Lowest(m, s + 1, i, lo) /\ Highest(m, s + 1, i, hi) /\ ~Struck(m, i, e - d, e + Target)
      /\ \A k \in s + 1 .. i - 1 : ~Struck(m, k, e - d, e + Target)
    BY DEF Underway, Carried
<1> HIDE DEF e
<1>2. /\ \A k \in s + 1 .. i : k \in s + 1 .. i - 1 \/ k = i
      /\ \A k \in s + 1 .. i + 1 : k \in s + 1 .. i \/ k = i + 1
      /\ \A k \in s + 1 .. i : k \in s + 1 .. i + 1
      /\ i + 1 \in s + 1 .. i + 1 /\ (i + 1) - 1 = i
    OBVIOUS
<1>3. \A k \in s + 1 .. i : ~Struck(m, k, e - d, e + Target)
    BY <1>1, <1>2
<1>4. Lowest(m, s + 1, i + 1, lo2)
    <2>1. PICK k \in s + 1 .. i : lo = m[k].l
        BY <1>1 DEF Lowest
    <2>2. \A q \in s + 1 .. i : lo <= m[q].l /\ m[q].l \in Int
        BY <1>1 DEF Lowest
    <2>3. lo2 = lo \/ lo2 = a
        OBVIOUS
    <2>4. \E q \in s + 1 .. i + 1 : lo2 = m[q].l
        BY <2>1, <2>3, <1>2
    <2>5. lo2 <= lo /\ lo2 <= a /\ lo2 \in Int /\ a \in Int
        OBVIOUS
    <2> HIDE DEF lo2
    <2>6. \A q \in s + 1 .. i + 1 : lo2 <= m[q].l
        BY <2>2, <2>5, <1>2
    <2> QED BY <2>4, <2>6 DEF Lowest
<1>5. Highest(m, s + 1, i + 1, hi2)
    <2>1. PICK k \in s + 1 .. i : hi = m[k].h
        BY <1>1 DEF Highest
    <2>2. \A q \in s + 1 .. i : hi >= m[q].h /\ m[q].h \in Int
        BY <1>1 DEF Highest
    <2>3. hi2 = hi \/ hi2 = b
        OBVIOUS
    <2>4. \E q \in s + 1 .. i + 1 : hi2 = m[q].h
        BY <2>1, <2>3, <1>2
    <2>5. hi2 >= hi /\ hi2 >= b /\ hi2 \in Int /\ b \in Int
        OBVIOUS
    <2> HIDE DEF hi2
    <2>6. \A q \in s + 1 .. i + 1 : hi2 >= m[q].h
        BY <2>2, <2>5, <1>2
    <2> QED BY <2>4, <2>6 DEF Highest
<1> HIDE DEF lo2, hi2
<1>6. Carried(m, i + 1, d, g, lo2, hi2, w)
    BY <1>1, <1>2, <1>3, <1>4, <1>5 DEF Carried, e
<1> QED BY <1>6 DEF lo2, hi2

\* A settled trade is the one the legacy loop takes at its signal.
LEMMA SettledIs ==
    ASSUME NEW m \in Seq(Candle), NEW d \in Int, NEW over, NEW t \in TradeRecord, Fed, Traded(t),
           t.exitBar <= Len(m), \A k \in 1 .. Len(m) : m[k].o \in Int /\ m[k].l \in Int /\ m[k].h \in Int /\ m[k].c \in Int,
           Settled(m, d, sign, over, t), StopDistance(BatchAvailable(t.signal)) = d
    PROVE  LegacyTrade(m, t.signal) = t
<1> DEFINE s == t.signal
           q == t.exitBar
           n == Len(m)
           e == EntryPrice(m, s)
           stop == e - d
           target == e + Target
           hit == {k \in s + 1 .. n : m[k].l <= stop \/ m[k].h >= target}
           last == IF hit = {} THEN n ELSE Min(hit)
           price == IF hit = {} THEN m[last].c ELSE IF m[last].l <= stop THEN stop ELSE target
           reason == CASE hit = {} -> "DATA_END"
                       [] hit # {} /\ m[last].l <= stop /\ m[last].h >= target -> "AMBIGUOUS_STOP_FIRST"
                       [] hit # {} /\ m[last].l <= stop /\ m[last].h < target -> "STOP_LOSS"
                       [] OTHER -> "TAKE_PROFIT"
           lows == {m[k].l : k \in s + 1 .. last}
           highs == {m[k].h : k \in s + 1 .. last}
<1>1. LegacyTrade(m, s) =
        [signal |-> s, entryBar |-> s + 1, exitBar |-> last, entry |-> sign * e,
         exit |-> sign * price, reason |-> reason, pnl |-> price - e - Commission,
         mae |-> Min(lows) - e, mfe |-> Max(highs) - e]
    BY DEF LegacyTrade, EntryPrice
<1>2. /\ s \in Nat /\ q \in Nat /\ n \in Nat /\ s + 1 <= q /\ q <= n /\ t.entryBar = s + 1
      /\ t.exit \in Int /\ t.mae \in Int /\ t.mfe \in Int /\ Spread \in Int /\ Target \in Int /\ sign \in {1, -1}
    BY SignIs, ReplayAssumption DEF TradeRecord, Traded
<1>3. s + 1 \in 1 .. n /\ q \in 1 .. n /\ q \in s + 1 .. n
    BY <1>2
<1>4. e \in Int
    BY <1>2, <1>3 DEF EntryPrice
<1>5. /\ t.entry = sign * e /\ t.pnl = sign * t.exit - e - Commission
      /\ \A k \in s + 1 .. q - 1 : ~Struck(m, k, stop, target)
      /\ Lowest(m, s + 1, q, t.mae + e) /\ Highest(m, s + 1, q, t.mfe + e)
      /\ \/ /\ m[q].l <= stop /\ sign * t.exit = stop
            /\ t.reason = IF m[q].h >= target THEN "AMBIGUOUS_STOP_FIRST" ELSE "STOP_LOSS"
         \/ ~(m[q].l <= stop) /\ m[q].h >= target /\ sign * t.exit = target /\ t.reason = "TAKE_PROFIT"
         \/ /\ q = n /\ ~Struck(m, q, stop, target)
            /\ sign * t.exit = m[q].c /\ t.reason = "DATA_END"
    BY DEF Settled
<1>6. last = q /\ (hit = {} <=> t.reason = "DATA_END") /\ (hit # {} <=> Struck(m, q, stop, target))
    <2> HIDE DEF stop, target
    <2>1. \A k \in hit : k \in s + 1 .. n /\ Struck(m, k, stop, target)
        BY DEF Struck
    <2>2. \A k \in s + 1 .. n : Struck(m, k, stop, target) => k \in hit
        BY DEF Struck
    <2>3. \A k \in hit : q <= k
        <3>1. \A k \in s + 1 .. n : k \in s + 1 .. q - 1 \/ q <= k
            BY <1>2
        <3> QED BY <3>1, <2>1, <1>5
    <2>4. hit \in SUBSET Int
        BY <1>2
    <2>5. CASE Struck(m, q, stop, target)
        <3>1. q \in hit
            BY <2>2, <2>5, <1>3
        <3>2. hit # {}
            BY <3>1
        <3> HIDE DEF hit
        <3>3. Min(hit) = q
            BY <3>1, <2>3, <2>4, MinIs
        <3>4. t.reason # "DATA_END"
            BY <2>5, <1>5
        <3> QED BY <3>2, <3>3, <3>4, <2>5
    <2>6. CASE ~Struck(m, q, stop, target)
        <3>1. q = n /\ t.reason = "DATA_END"
            BY <2>6, <1>5 DEF Struck
        <3>2. hit = {}
            <4>1. \A k \in hit : k = q
                <5>1. \A k \in hit : k \in s + 1 .. n
                    BY <2>1
                <5> HIDE DEF hit
                <5> QED BY <5>1, <3>1, <2>3, <1>2
            <4> HIDE DEF hit
            <4> QED BY <4>1, <2>1, <2>6
        <3> QED BY <3>1, <3>2, <2>6
    <2> QED BY <2>5, <2>6
<1> HIDE DEF hit
<1>7. price = sign * t.exit /\ reason = t.reason
    <2>1. m[q].h \in Int /\ target \in Int
        BY <1>2, <1>3, <1>4
    <2> HIDE DEF stop, target
    <2>2. m[q].h < target <=> ~(m[q].h >= target)
        BY <2>1
    <2> HIDE DEF last
    <2>3. CASE hit = {}
        BY <2>3, <1>5, <1>6 DEF Struck
    <2>4. CASE hit # {}
        BY <2>2, <2>4, <1>5, <1>6 DEF Struck
    <2> QED BY <2>3, <2>4
<1>8. sign * price = t.exit
    <2>1. sign * (sign * t.exit) = t.exit
        BY <1>2
    <2> QED BY <2>1, <1>7
<1>9. \A k \in s + 1 .. q : m[k].l \in Int /\ m[k].h \in Int
    <2>1. \A k \in s + 1 .. q : k \in 1 .. n
        BY <1>2
    <2> QED BY <2>1
<1>10. Min(lows) = t.mae + e
    <2> DEFINE x == t.mae + e
    <2>1. (\E k \in s + 1 .. q : x = m[k].l) /\ \A k \in s + 1 .. q : x <= m[k].l
        BY <1>5 DEF Lowest
    <2>2. lows = {m[k].l : k \in s + 1 .. q}
        BY <1>6
    <2> HIDE DEF lows, x, last
    <2>3. lows \in SUBSET Int /\ x \in lows /\ \A y \in lows : x <= y
        BY <2>1, <2>2, <1>9
    <2>4. Min(lows) = x
        BY <2>3, MinIs
    <2> QED BY <2>4 DEF x
<1>11. Max(highs) = t.mfe + e
    <2> DEFINE x == t.mfe + e
    <2>1. (\E k \in s + 1 .. q : x = m[k].h) /\ \A k \in s + 1 .. q : x >= m[k].h
        BY <1>5 DEF Highest
    <2>2. highs = {m[k].h : k \in s + 1 .. q}
        BY <1>6
    <2> HIDE DEF highs, x, last
    <2>3. highs \in SUBSET Int /\ x \in highs
        BY <2>1, <2>2, <1>9
    <2>4. x \in Int /\ \A y \in highs : y <= x
        BY <2>1, <2>2, <2>3, <1>9
    <2>5. Max(highs) = x
        BY <2>3, <2>4, MaxIs
    <2> QED BY <2>5 DEF x
<1> HIDE DEF last, price, reason, lows, highs, e
<1>12. Min(lows) - e = t.mae /\ Max(highs) - e = t.mfe
    BY <1>2, <1>4, <1>10, <1>11
<1>13. price - e - Commission = t.pnl
    BY <1>5, <1>7
<1>14. t = [signal |-> t.signal, entryBar |-> t.entryBar, exitBar |-> t.exitBar, entry |-> t.entry,
            exit |-> t.exit, reason |-> t.reason, pnl |-> t.pnl, mae |-> t.mae, mfe |-> t.mfe]
    BY DEF TradeRecord
<1> QED BY <1>1, <1>2, <1>5, <1>6, <1>7, <1>8, <1>12, <1>13, <1>14

-----------------------------------------------------------------------------
(* The kernel's position and the reference's trade *)

\* The prices of a carried position are those of the loop, and they are hit alike.
LEMMA HitIs ==
    ASSUME Fed, NEW pos \in Position, NEW bar \in Candle, NEW m, NEW i, m[i] = Mirror(bar),
           NEW d \in Int, NEW lo, NEW hi, Carried(m, i, d, sign, lo, hi, pos)
    PROVE  LET stop   == EntryPrice(m, pos.signal) - d
               target == EntryPrice(m, pos.signal) + Target
           IN /\ stop = sign * pos.stop /\ target = sign * pos.target
              /\ StopHit(pos, bar) <=> m[i].l <= stop
              /\ TargetHit(pos, bar) <=> m[i].h >= target
BY MirrorIs DEF Carried

\* A position that the candle does not reach stays open.
LEMMA StaysOpen ==
    ASSUME Fed, NEW pos \in Position, NEW bar \in Candle, NEW m, NEW i, m[i] = Mirror(bar),
           NEW d \in Int, NEW lo, NEW hi, Carried(m, i, d, sign, lo, hi, pos), ~Hit(pos, bar)
    PROVE  Underway(m, i, d, sign, lo, hi, pos)
BY HitIs DEF Hit, Struck, Underway

\* A position that the candle reaches is settled by it.
LEMMA Settles ==
    ASSUME Fed, NEW pos \in Position, NEW bar \in Candle, NEW m, NEW i \in Nat, m[i] = Mirror(bar),
           NEW d \in Int, Carried(m, i, d, sign, Lower(pos), Upper(pos), pos), Hit(pos, bar), NEW over
    PROVE  Settled(m, d, sign, over, Exited(pos, i, bar)) /\ Exited(pos, i, bar).signal = pos.signal
<1> DEFINE e == EntryPrice(m, pos.signal)
           stop == e - d
           target == e + Target
           t == Exited(pos, i, bar)
<1>1. /\ stop = sign * pos.stop /\ target = sign * pos.target
      /\ StopHit(pos, bar) <=> m[i].l <= stop
      /\ TargetHit(pos, bar) <=> m[i].h >= target
    BY HitIs
<1>2. /\ sign * pos.entry = e /\ \A k \in pos.signal + 1 .. i - 1 : ~Struck(m, k, stop, target)
      /\ Lowest(m, pos.signal + 1, i, Lower(pos)) /\ Highest(m, pos.signal + 1, i, Upper(pos))
    BY DEF Carried
<1> DEFINE price == IF StopHit(pos, bar) THEN pos.stop ELSE pos.target
           reason == IF StopHit(pos, bar)
                     THEN IF TargetHit(pos, bar) THEN "AMBIGUOUS_STOP_FIRST" ELSE "STOP_LOSS"
                     ELSE "TAKE_PROFIT"
<1>3. t = Record(pos, i, price, reason)
    BY DEF Exited
<1>4. price \in Int /\ pos.entry \in Int /\ sign * price = (IF m[i].l <= stop THEN stop ELSE target)
    BY <1>1 DEF Position
<1>5. reason = IF m[i].l <= stop THEN IF m[i].h >= target THEN "AMBIGUOUS_STOP_FIRST" ELSE "STOP_LOSS"
                                 ELSE "TAKE_PROFIT"
    BY <1>1
<1>6. m[i].l <= stop \/ m[i].h >= target
    BY <1>1 DEF Hit
<1> HIDE DEF t, price, reason
<1>7. /\ t.signal = pos.signal /\ t.exitBar = i /\ t.entry = pos.entry /\ t.exit = price /\ t.reason = reason
      /\ t.pnl = sign * price - sign * pos.entry - Commission
      /\ t.mae + sign * pos.entry = Lower(pos) /\ t.mfe + sign * pos.entry = Upper(pos)
    BY <1>3, <1>4, RecordSeen
<1>8. t.entry = sign * e
    <2>1. sign * (sign * pos.entry) = pos.entry
        BY <1>4, SignIs
    <2> QED BY <2>1, <1>2, <1>7
<1> HIDE DEF e
<1>9. t.pnl = sign * t.exit - e - Commission /\ t.mae + e = Lower(pos) /\ t.mfe + e = Upper(pos)
    BY <1>2, <1>7
<1>10. /\ \A k \in t.signal + 1 .. t.exitBar - 1 : ~Struck(m, k, stop, target)
       /\ Lowest(m, t.signal + 1, t.exitBar, t.mae + e) /\ Highest(m, t.signal + 1, t.exitBar, t.mfe + e)
    BY <1>2, <1>7, <1>9
<1> HIDE DEF stop, target
<1>11. \/ /\ m[t.exitBar].l <= stop /\ sign * t.exit = stop
          /\ t.reason = IF m[t.exitBar].h >= target THEN "AMBIGUOUS_STOP_FIRST" ELSE "STOP_LOSS"
       \/ ~(m[t.exitBar].l <= stop) /\ m[t.exitBar].h >= target /\ sign * t.exit = target
          /\ t.reason = "TAKE_PROFIT"
    BY <1>4, <1>5, <1>6, <1>7
<1> QED BY <1>7, <1>8, <1>9, <1>10, <1>11 DEF Settled, stop, target, e, t

\* At the end of the data an open position is settled by the last close.
LEMMA SettlesAtEnd ==
    ASSUME Fed, NEW pos \in Position, NEW m, NEW i \in Nat, i = Len(m), NEW price \in Int, sign * price = m[i].c,
           NEW d \in Int, Underway(m, i, d, sign, Lower(pos), Upper(pos), pos)
    PROVE  Settled(m, d, sign, TRUE, Record(pos, i, price, "DATA_END"))
<1> DEFINE e == EntryPrice(m, pos.signal)
           stop == e - d
           target == e + Target
           t == Record(pos, i, price, "DATA_END")
<1>1. /\ sign * pos.entry = e /\ \A k \in pos.signal + 1 .. i - 1 : ~Struck(m, k, stop, target)
      /\ Lowest(m, pos.signal + 1, i, Lower(pos)) /\ Highest(m, pos.signal + 1, i, Upper(pos))
      /\ ~Struck(m, i, stop, target) /\ pos.entry \in Int
    BY DEF Underway, Carried, Position
<1>2. /\ t.signal = pos.signal /\ t.exitBar = i /\ t.entry = pos.entry /\ t.exit = price /\ t.reason = "DATA_END"
      /\ t.pnl = sign * price - sign * pos.entry - Commission
      /\ t.mae + sign * pos.entry = Lower(pos) /\ t.mfe + sign * pos.entry = Upper(pos)
    BY RecordSeen
<1> HIDE DEF t
<1>3. t.entry = sign * e
    <2>1. sign * (sign * pos.entry) = pos.entry
        BY <1>1, SignIs
    <2> QED BY <2>1, <1>1, <1>2
<1> HIDE DEF e
<1>4. t.pnl = sign * t.exit - e - Commission /\ t.mae + e = Lower(pos) /\ t.mfe + e = Upper(pos)
    BY <1>1, <1>2
<1>5. /\ \A k \in t.signal + 1 .. t.exitBar - 1 : ~Struck(m, k, stop, target)
      /\ Lowest(m, t.signal + 1, t.exitBar, t.mae + e) /\ Highest(m, t.signal + 1, t.exitBar, t.mfe + e)
      /\ t.exitBar = Len(m) /\ ~Struck(m, t.exitBar, stop, target)
      /\ sign * t.exit = m[t.exitBar].c /\ t.reason = "DATA_END"
    BY <1>1, <1>2, <1>4
<1> HIDE DEF stop, target
<1> QED BY <1>2, <1>3, <1>4, <1>5 DEF Settled, stop, target, e, t

\* A position opened by a candle at its open, with the distance of its signal.
LEMMA OpensCarried ==
    ASSUME Fed, NEW i \in Nat, i = signal + 1, NEW bar \in Candle, NEW avail, avail[Exec] \in Seq(Candle),
           NEW m, m[i] = Mirror(bar)
    PROVE  Carried(m, i, StopDistance(avail), sign, Lower(Opened(i, bar, avail)), Upper(Opened(i, bar, avail)),
                   Opened(i, bar, avail))
<1> DEFINE pos == Opened(i, bar, avail)
           d == StopDistance(avail)
<1>1. /\ pos \in Position /\ pos.signal = signal /\ pos.bar = i
      /\ pos.entry = bar.o + sign * Spread
      /\ pos.stop = pos.entry - sign * d /\ pos.target = pos.entry + sign * Target
      /\ pos.high = bar.h /\ pos.low = bar.l
    BY OpenedIs
<1>2. d \in Int /\ Spread \in Int /\ Target \in Int /\ bar.o \in Int /\ bar.h \in Int /\ bar.l \in Int
      /\ signal \in Nat
    BY StopDistanceIsInt, ReplayAssumption DEF Candle, Fed
<1> HIDE DEF pos, d
<1>3. Mirror(bar).o = sign * bar.o
    BY MirrorIs
<1>4. Lower(pos) = Mirror(bar).l /\ Upper(pos) = Mirror(bar).h /\ Mirror(bar).l \in Int /\ Mirror(bar).h \in Int
    <2>1. CASE sign = 1
        BY <2>1, <1>1, <1>2 DEF Lower, Upper, Mirror
    <2>2. CASE sign = -1
        <3>1. Mirror(bar).l = -bar.h /\ Mirror(bar).h = -bar.l
            BY <2>2 DEF Mirror
        <3>2. Lower(pos) = -pos.high /\ Upper(pos) = -pos.low
            BY <2>2 DEF Lower, Upper
        <3> QED BY <3>1, <3>2, <1>1, <1>2
    <2> QED BY <2>1, <2>2, SignIs
<1> DEFINE e == EntryPrice(m, signal)
<1>5. e = sign * bar.o + Spread
    BY <1>3 DEF EntryPrice
<1> HIDE DEF e
<1>6. sign * pos.entry = e /\ sign * pos.stop = e - d /\ sign * pos.target = e + Target
    <2>1. CASE sign = 1
        <3>1. \A x \in Int : sign * x = x
            BY <2>1
        <3>2. pos.entry = bar.o + Spread /\ pos.stop = pos.entry - d /\ pos.target = pos.entry + Target
              /\ e = bar.o + Spread /\ pos.entry \in Int
            BY <3>1, <1>1, <1>2, <1>5
        <3>3. pos.stop \in Int /\ pos.target \in Int
            BY <3>2, <1>2
        <3> QED BY <3>1, <3>2, <3>3, <1>2
    <2>2. CASE sign = -1
        <3>1. \A x \in Int : sign * x = -x
            BY <2>2
        <3>2. sign * Spread = -Spread /\ sign * d = -d /\ sign * Target = -Target /\ sign * bar.o = -bar.o
            BY <3>1, <1>2
        <3> DEFINE x == pos.entry
                   y == pos.stop
                   z == pos.target
        <3>3. x = bar.o + (-Spread) /\ y = x - (-d) /\ z = x + (-Target) /\ e = -bar.o + Spread
            BY <3>2, <1>1, <1>5
        <3> HIDE DEF x, y, z
        <3>4. x \in Int /\ y \in Int /\ z \in Int
            <4>1. \A u, v \in Int : u + (-v) \in Int /\ u - (-v) \in Int
                OBVIOUS
            <4>2. x \in Int
                BY <3>3, <4>1, <1>2
            <4> QED BY <4>1, <4>2, <3>3, <1>2
        <3>5. sign * x = -x /\ sign * y = -y /\ sign * z = -z
            BY <3>1, <3>4
        <3>6. -x = e /\ -y = e - d /\ -z = e + Target
            <4>1. \A u, v \in Int : -(u + (-v)) = -u + v /\ -(u - (-v)) = -u - v
                OBVIOUS
            <4>2. -x = e
                BY <3>3, <4>1, <1>2
            <4>3. -y = -x - d /\ -z = -x + Target
                BY <3>3, <3>4, <4>1, <1>2
            <4> QED BY <4>2, <4>3
        <3> QED BY <3>5, <3>6 DEF x, y, z
    <2> QED BY <2>1, <2>2, SignIs
<1>7. /\ \A k \in signal + 1 .. i - 1 : FALSE
      /\ \A k \in signal + 1 .. i : k = i
      /\ i \in signal + 1 .. i
    BY <1>2
<1>8. Lowest(m, signal + 1, i, Lower(pos)) /\ Highest(m, signal + 1, i, Upper(pos))
    BY <1>4, <1>7 DEF Lowest, Highest
<1> QED BY <1>1, <1>6, <1>7, <1>8 DEF Carried, e, pos, d

-----------------------------------------------------------------------------
(* The ledger so far *)

\* The open position is the one the legacy loop has open after the same candles.
RightPosition(pos) ==
  /\ pos.signal >= 2 /\ EligibleAt(pos.signal)
  /\ Underway(Market, Len(bars), DistanceAt(pos.signal), sign, Lower(pos), Upper(pos), pos)

\* A trade in the ledger is one the legacy loop takes, if it comes to its signal.
RightTrade(t) ==
  /\ t.signal >= 2 /\ EligibleAt(t.signal)
  /\ Settled(Market, DistanceAt(t.signal), sign, ended, t)

Written == {trades[k] : k \in 1 .. Len(trades)}

Apart == \A i, j \in 1 .. Len(trades) : i < j => trades[i].exitBar < trades[j].signal

\* A candle at which a position is open, or that the kernel has decided to open one at.
InTrade(at) ==
  \/ \E t \in Written : t.signal <= at /\ at <= t.exitBar
  \/ \E pos \in {active} \ {NoTrade} : pos.signal <= at

\* No signal has been passed over but inside a trade.
NonePassedOver == \A at \in 2 .. Len(bars) - 1 : EligibleAt(at) => InTrade(at)

\* The window is empty after the first candle, and after an exit.
ExitForgotten ==
  ~ended /\ active = NoTrade /\ before = 0 /\ Len(bars) >= 2 =>
    trades # <<>> /\ trades[Len(trades)].exitBar = Len(bars)

Ledgered ==
  /\ \A pos \in {active} \ {NoTrade} : RightPosition(pos)
  /\ \A t \in Written : RightTrade(t)
  /\ Apart /\ NonePassedOver /\ ExitForgotten

\* A written trade lies within the candles fed.
LEMMA WrittenAre ==
    ASSUME Fed, Books, NEW t \in Written
    PROVE  /\ t \in TradeRecord /\ Traded(t) /\ t.signal \in Nat /\ t.exitBar \in Nat /\ t.signal > 0
           /\ t.signal + 1 <= t.exitBar /\ t.exitBar <= Len(bars) /\ t.signal \in 1 .. Len(bars)
<1>1. PICK k \in 1 .. Len(trades) : t = trades[k]
    BY DEF Written
<1>2. /\ t \in TradeRecord /\ t.signal \in Nat /\ t.entryBar \in Nat /\ t.exitBar \in Nat /\ t.signal > 0
      /\ t.entryBar = t.signal + 1 /\ t.entryBar <= t.exitBar /\ t.exitBar <= Len(bars) /\ Len(bars) \in Nat
    BY <1>1, BooksAre, BarsAre
<1> QED BY <1>2 DEF Traded

LEMMA DistanceIsInt ==
    ASSUME Fed, NEW at \in 1 .. Len(bars)
    PROVE  DistanceAt(at) \in Int
<1> DEFINE whole == CompleteAt(bars, context, calendar[1], at)
<1>1. bars \in Seq(Candle) /\ at \in 0 .. Len(bars) /\ 1 \in Nat \ {0}
    BY BarsAre DEF Fed
<1>2. SubSeq(bars, 1, at) \in Seq(Candle)
    BY <1>1, StretchIsSeq
<1>3. whole[Exec] \in Seq(Candle)
    BY <1>2 DEF CompleteAt
<1>4. DistanceAt(at) = StopDistance(whole)
    BY DEF DistanceAt, DistanceOf, StopDistance
<1> HIDE DEF whole
<1> QED BY <1>3, <1>4, StopDistanceIsInt

\* A candle is fed: what is in the ledger stays right.
LEMMA LedgerCarried ==
    ASSUME ReplayInv, Ledgered, NEW shape \in Shapes, OnCandle(NextCandle(shape))
    PROVE  \A t \in Written : RightTrade(t)'
<1>1. Fed /\ Books /\ ended = FALSE /\ ended' = FALSE
    BY DEF ReplayInv, OnCandle, Fed
<1>2. sign' = sign /\ \A k \in 1 .. Len(bars) : Market'[k] = Market[k]
    BY <1>1, MarketGrows
<1>3. ASSUME NEW t \in Written PROVE RightTrade(t)'
    <2>1. /\ t.signal \in Nat /\ t.exitBar \in Nat /\ t.signal + 1 <= t.exitBar /\ t.exitBar <= Len(bars)
          /\ t.signal \in 1 .. Len(bars) /\ Len(bars) \in Nat
        BY <1>1, WrittenAre, BarsAre
    <2>2. RightTrade(t)
        BY DEF Ledgered
    <2>3. \A k \in 1 .. t.exitBar : Market'[k] = Market[k]
        BY <2>1, <1>2
    <2>4. EligibleAt(t.signal)' /\ DistanceAt(t.signal)' = DistanceAt(t.signal)
        BY <2>1, <2>2, <1>1, CompleteStays DEF RightTrade
    <2>5. Settled(Market, DistanceAt(t.signal), sign, FALSE, t)
        BY <2>2, <1>1 DEF RightTrade
    <2>6. Settled(Market', DistanceAt(t.signal), sign, FALSE, t)
        BY <2>1, <2>3, <2>5, SettledStays
    <2> QED BY <2>2, <2>4, <2>6, <1>1, <1>2 DEF RightTrade
<1> QED BY <1>3

\* No candle is fed: the same, of the end of the data too.
LEMMA LedgerKept ==
    ASSUME ReplayInv, Ledgered, bars' = bars, contract' = contract, calendar' = calendar, context' = context,
           ended' \in {ended, TRUE}
    PROVE  \A t \in Written : RightTrade(t)'
<1>1. Fed /\ Books /\ ended \in BOOLEAN /\ ended' \in BOOLEAN
    BY DEF ReplayInv, Fed
<1>2. sign' = sign /\ Market' = Market
    BY DEF sign, Market, Mirror
<1>3. ASSUME NEW t \in Written PROVE RightTrade(t)'
    <2>1. t.signal \in Nat /\ t.exitBar \in Nat /\ t.signal + 1 <= t.exitBar
        BY <1>1, WrittenAre
    <2>2. RightTrade(t)
        BY DEF Ledgered
    <2>3. (EligibleAt(t.signal)' <=> EligibleAt(t.signal)) /\ DistanceAt(t.signal)' = DistanceAt(t.signal)
        BY DEF EligibleAt, DistanceAt
    <2>4. Settled(Market, DistanceAt(t.signal), sign, ended', t)
        <3>1. \A k \in 1 .. t.exitBar : Market[k] = Market[k]
            OBVIOUS
        <3>2. ~ended \/ (ended' /\ Len(Market) = Len(Market))
            OBVIOUS
        <3>3. Settled(Market, DistanceAt(t.signal), sign, ended, t)
            BY <2>2 DEF RightTrade
        <3> QED BY <3>1, <3>2, <3>3, <2>1, <1>1, SettledStays
    <2> QED BY <2>2, <2>3, <2>4, <1>2 DEF RightTrade
<1> QED BY <1>3

\* A trade is written behind the others.
LEMMA LedgerGrows ==
    ASSUME Fed, Books, Apart, NEW t \in TradeRecord, trades' = Append(trades, t),
           trades # <<>> => t.signal > trades[Len(trades)].exitBar
    PROVE  /\ Written' = Written \cup {t} /\ Apart'
           /\ trades' # <<>> /\ trades'[Len(trades')] = t
<1> DEFINE n == Len(trades)
<1>1. n \in Nat /\ trades \in Seq(TradeRecord)
    BY BooksAre
<1>2. trades' \in Seq(TradeRecord) /\ Len(trades') = n + 1 /\ trades'[n + 1] = t
      /\ \A k \in 1 .. n : trades'[k] = trades[k]
    BY <1>1, AppendProperties
<1>3. /\ \A k \in 1 .. n + 1 : k = n + 1 \/ k \in 1 .. n
      /\ \A k \in 1 .. n : k \in 1 .. n + 1 /\ k < n + 1
      /\ n + 1 \in 1 .. n + 1
    BY <1>1
<1>4. Written' = Written \cup {t}
    <2> HIDE DEF n
    <2>1. Written' = {trades'[k] : k \in 1 .. n + 1}
        BY <1>2 DEF Written
    <2>2. Written = {trades[k] : k \in 1 .. n}
        BY DEF Written, n
    <2> QED BY <2>1, <2>2, <1>2, <1>3
<1>5. Apart'
    <2>1. ASSUME NEW i \in 1 .. n + 1, NEW j \in 1 .. n + 1, i < j
          PROVE  trades'[i].exitBar < trades'[j].signal
        <3>1. i \in 1 .. n
            BY <2>1, <1>1
        <3>2. CASE j \in 1 .. n
            BY <2>1, <3>1, <3>2, <1>2 DEF Apart
        <3>3. CASE j = n + 1
            <4>1. n \in 1 .. n /\ trades # <<>>
                BY <3>1, <1>1
            <4>2. /\ trades[i].exitBar \in Nat /\ trades[n].exitBar \in Nat /\ trades[n].signal \in Nat
                  /\ trades[n].entryBar = trades[n].signal + 1 /\ trades[n].entryBar <= trades[n].exitBar
                  /\ t.signal \in Nat
                BY <3>1, <4>1, BooksAre DEF TradeRecord
            <4>3. trades[i].exitBar <= trades[n].exitBar
                <5>1. CASE i = n
                    BY <5>1, <4>2
                <5>2. CASE i # n
                    <6>1. i < n
                        BY <5>2, <3>1, <1>1
                    <6>2. trades[i].exitBar < trades[n].signal
                        BY <6>1, <3>1, <4>1 DEF Apart
                    <6> QED BY <6>2, <4>2
                <5> QED BY <5>1, <5>2
            <4>4. trades[i].exitBar < t.signal
                BY <4>1, <4>2, <4>3
            <4> QED BY <4>4, <3>1, <3>3, <1>2
        <3> QED BY <3>2, <3>3, <1>3
    <2> QED BY <2>1, <1>2 DEF Apart
<1> QED BY <1>1, <1>2, <1>4, <1>5, EmptySeq

\* A candle is fed that lets no signal pass.
LEMMA NoneIsPassedOver ==
    ASSUME ReplayInv, NonePassedOver, NEW shape \in Shapes, OnCandle(NextCandle(shape)),
           \A at \in 1 .. Len(bars) : InTrade(at) => InTrade(at)',
           \A at \in 2 .. Len(bars) : at = Len(bars) /\ EligibleAt(at) => InTrade(at)'
    PROVE  NonePassedOver'
<1>1. Fed /\ Len(bars) \in Nat /\ Len(bars') = Len(bars) + 1
    BY NextCandleIs, BarsAre DEF ReplayInv
<1>2. ASSUME NEW at \in 2 .. Len(bars), EligibleAt(at)' PROVE InTrade(at)'
    <2>1. at \in 1 .. Len(bars)
        BY <1>1
    <2>2. EligibleAt(at)
        BY <2>1, <1>1, <1>2, CompleteStays
    <2>3. CASE at = Len(bars)
        BY <2>2, <2>3
    <2>4. CASE at # Len(bars)
        <3>1. at \in 2 .. Len(bars) - 1
            BY <2>4, <1>1
        <3> QED BY <3>1, <2>1, <2>2 DEF NonePassedOver
    <2> QED BY <2>3, <2>4
<1>3. 2 .. Len(bars') - 1 = 2 .. Len(bars)
    BY <1>1
<1> QED BY <1>2, <1>3 DEF NonePassedOver

\* A position that was right, after one more candle.
LEMMA PositionCarried ==
    ASSUME ReplayInv, Ledgered, NEW shape \in Shapes, OnCandle(NextCandle(shape)), active # NoTrade,
           NEW w, w = Widened(active, NextCandle(shape))
    PROVE  /\ w \in Position /\ w.signal = active.signal /\ w.signal >= 2 /\ w.signal \in 1 .. Len(bars)
           /\ EligibleAt(w.signal)' /\ DistanceAt(w.signal)' = DistanceAt(w.signal)
           /\ DistanceAt(w.signal) \in Int
           /\ Carried(Market', Len(bars) + 1, DistanceAt(w.signal), sign, Lower(w), Upper(w), w)
<1> DEFINE n == Len(bars)
           bar == NextCandle(shape)
           pos == active
           d == DistanceAt(pos.signal)
           m == Market'
<1>1. Fed /\ Books /\ n \in Nat /\ bar \in Candle /\ pos \in Position
    BY NextCandleIs, BarsAre DEF ReplayInv, Books
<1>2. pos.signal \in Nat /\ pos.signal + 1 <= n /\ pos.signal \in 1 .. n /\ pos.signal >= 2
    BY <1>1 DEF Books, Position, Ledgered, RightPosition
<1>3. RightPosition(pos)
    BY DEF Ledgered
<1>4. /\ w \in Position /\ w.signal = pos.signal /\ w.entry = pos.entry /\ w.stop = pos.stop /\ w.target = pos.target
    BY <1>1, WidenedIs
<1>5. /\ Lower(w) = (IF Lower(pos) <= Mirror(bar).l THEN Lower(pos) ELSE Mirror(bar).l)
      /\ Upper(w) = (IF Upper(pos) >= Mirror(bar).h THEN Upper(pos) ELSE Mirror(bar).h)
      /\ Lower(pos) \in Int /\ Upper(pos) \in Int
    BY <1>1, ExtremesAre
<1>6. /\ \A k \in 1 .. n : m[k] = Market[k] /\ Market[k].l \in Int /\ Market[k].h \in Int
      /\ m[n + 1] = Mirror(bar) /\ Mirror(bar).l \in Int /\ Mirror(bar).h \in Int
    <2>1. Mirror(bar).l \in Int /\ Mirror(bar).h \in Int
        BY <1>1, MirrorIs DEF Candle
    <2> QED BY <2>1, <1>1, MarketGrows, MarketIs
<1> HIDE DEF bar, m, n
<1>7. EligibleAt(w.signal) /\ d \in Int /\ d = DistanceAt(w.signal)
    BY <1>1, <1>2, <1>3, <1>4, DistanceIsInt DEF RightPosition, n
<1>8. \A i \in 1 .. n : (EligibleAt(i)' <=> EligibleAt(i)) /\ DistanceAt(i)' = DistanceAt(i)
    BY <1>1, CompleteStays DEF n
<1>9. \A i \in 1 .. n : i = w.signal => (EligibleAt(w.signal)' <=> EligibleAt(i)') /\ DistanceAt(w.signal)' = DistanceAt(i)'
    OBVIOUS
<1> HIDE DEF d
<1>10. Underway(Market, n, d, sign, Lower(pos), Upper(pos), pos)
    BY <1>3 DEF RightPosition, d, n
<1>11. Underway(m, n, d, sign, Lower(pos), Upper(pos), pos)
    BY <1>1, <1>2, <1>6, <1>10, UnderwayStays
<1>12. \A k \in pos.signal + 1 .. n : m[k].l \in Int /\ m[k].h \in Int
    <2>1. \A k \in pos.signal + 1 .. n : k \in 1 .. n
        BY <1>2
    <2> QED BY <2>1, <1>6
<1>13. Carried(m, n + 1, d, sign, IF Lower(pos) <= m[n + 1].l THEN Lower(pos) ELSE m[n + 1].l,
                                  IF Upper(pos) >= m[n + 1].h THEN Upper(pos) ELSE m[n + 1].h, w)
    BY <1>1, <1>2, <1>4, <1>5, <1>6, <1>11, <1>12, CarriedOn
<1>14. Carried(m, n + 1, d, sign, Lower(w), Upper(w), w)
    BY <1>5, <1>6, <1>13
<1>15. EligibleAt(w.signal)' /\ DistanceAt(w.signal)' = DistanceAt(w.signal)
    BY <1>2, <1>4, <1>7, <1>8, <1>9
<1> QED BY <1>2, <1>4, <1>7, <1>14, <1>15 DEF m, n

\* The candle that a position has been widened by leaves it open, or closes it.
LEMMA PositionDecided ==
    ASSUME ReplayInv, Ledgered, NEW shape \in Shapes, OnCandle(NextCandle(shape)), NEW pos \in Position,
           pos.signal >= 2, EligibleAt(pos.signal)', DistanceAt(pos.signal)' = DistanceAt(pos.signal),
           DistanceAt(pos.signal) \in Int,
           Carried(Market', Len(bars) + 1, DistanceAt(pos.signal), sign, Lower(pos), Upper(pos), pos),
           NEW i, i = Len(bars) + 1, NEW t, t = Exited(pos, i, NextCandle(shape))
    PROVE  /\ ~Hit(pos, NextCandle(shape)) => RightPosition(pos)'
           /\ Hit(pos, NextCandle(shape)) => RightTrade(t)'
<1> DEFINE bar == NextCandle(shape)
           d == DistanceAt(pos.signal)
<1>1. /\ Fed /\ bar \in Candle /\ Len(bars') = i /\ i \in Nat /\ ended' \in BOOLEAN
      /\ sign' = sign /\ Market'[i] = Mirror(bar)
    <2>1. Fed /\ Len(bars) \in Nat /\ ended' \in BOOLEAN
        BY BarsAre DEF ReplayInv, Fed, OnCandle
    <2> QED BY <2>1, NextCandleIs, MarketGrows
<1>2. Lower(pos)' = Lower(pos) /\ Upper(pos)' = Upper(pos)
    BY <1>1 DEF Lower, Upper
<1> DEFINE m == Market'
<1>3. m[i] = Mirror(bar) /\ d \in Int /\ Carried(m, i, d, sign, Lower(pos), Upper(pos), pos)
    BY <1>1
<1> HIDE DEF m, bar, d
<1>4. ASSUME ~Hit(pos, bar) PROVE RightPosition(pos)'
    <2>1. Underway(m, i, d, sign, Lower(pos), Upper(pos), pos)
        BY <1>1, <1>3, <1>4, StaysOpen
    <2> QED BY <2>1, <1>1, <1>2 DEF RightPosition, m, d
<1>5. ASSUME Hit(pos, bar) PROVE RightTrade(t)'
    <2>1. Settled(m, d, sign, ended', t) /\ t.signal = pos.signal
        BY <1>1, <1>3, <1>5, Settles DEF bar
    <2>2. t.signal >= 2 /\ EligibleAt(t.signal)' /\ DistanceAt(t.signal)' = d
        BY <2>1 DEF d
    <2> QED BY <2>1, <2>2, <1>1 DEF RightTrade, m
<1> QED BY <1>4, <1>5 DEF bar

-----------------------------------------------------------------------------
(* The ledger step by step *)

LEMMA ManagePositionLedger ==
    ASSUME ReplayInv, Ledgered, NEW shape \in Shapes, ManagePosition(shape)
    PROVE  Ledgered'
<1> DEFINE bar == NextCandle(shape)
           n == Len(bars)
           i == Len(bars) + 1
           w == Widened(active, bar)
           t == Exited(w, i, bar)
<1>1. active # NoTrade /\ OnCandle(bar)
    BY DEF ManagePosition
<1>2. /\ Fed /\ Books /\ n \in Nat /\ i \in Nat /\ Len(bars') = i /\ bar \in Candle /\ Apart /\ NonePassedOver
      /\ active.signal \in Nat
    BY <1>1, NextCandleIs, BarsAre DEF ReplayInv, Ledgered, Books, Position
<1> HIDE DEF bar
<1>3. /\ w \in Position /\ w.signal = active.signal /\ w.signal >= 2 /\ w.signal \in 1 .. n
      /\ \A x : x = w => /\ EligibleAt(x.signal)' /\ DistanceAt(x.signal)' = DistanceAt(x.signal)
                         /\ DistanceAt(x.signal) \in Int
                         /\ Carried(Market', i, DistanceAt(x.signal), sign, Lower(x), Upper(x), x)
    <2> HIDE DEF w
    <2>1. \A x : x = w => /\ x \in Position /\ x.signal = active.signal /\ x.signal >= 2 /\ x.signal \in 1 .. n
                          /\ EligibleAt(x.signal)' /\ DistanceAt(x.signal)' = DistanceAt(x.signal)
                          /\ DistanceAt(x.signal) \in Int
                          /\ Carried(Market', i, DistanceAt(x.signal), sign, Lower(x), Upper(x), x)
        BY <1>1, PositionCarried DEF w, bar
    <2> QED BY <2>1
<1> HIDE DEF w
<1>4. ASSUME NEW x, x = w
      PROVE  /\ ~Hit(x, bar) => RightPosition(x)'
             /\ Hit(x, bar) => \A y : y = t => RightTrade(y)'
    <2>1. /\ x \in Position /\ x.signal >= 2 /\ EligibleAt(x.signal)' /\ DistanceAt(x.signal)' = DistanceAt(x.signal)
          /\ DistanceAt(x.signal) \in Int /\ Carried(Market', i, DistanceAt(x.signal), sign, Lower(x), Upper(x), x)
        BY <1>3, <1>4
    <2>2. \A y : y = Exited(x, i, NextCandle(shape)) =>
            /\ ~Hit(x, NextCandle(shape)) => RightPosition(x)'
            /\ Hit(x, NextCandle(shape)) => RightTrade(y)'
        BY <2>1, <1>1, PositionDecided DEF bar
    <2> QED BY <2>2, <1>4 DEF bar
<1>5. \A y \in Written : RightTrade(y)'
    BY <1>1, LedgerCarried DEF bar
<1>6. CASE Hit(w, bar)
    <2>1. trades' = Append(trades, t) /\ active' = NoTrade /\ before' = 0
        BY <1>6 DEF ManagePosition, Forget, bar, w
    <2>2. t \in TradeRecord /\ t.signal = active.signal /\ t.exitBar = i
        BY <1>2, <1>3, ExitedIs
    <2>3. trades # <<>> => t.signal > trades[Len(trades)].exitBar
        BY <2>2, <1>1 DEF ReplayInv, Books, OnePositionAtATime
    <2>4. Written' = Written \cup {t} /\ Apart' /\ trades' # <<>> /\ trades'[Len(trades')] = t
        <3> HIDE DEF t
        <3> QED BY <2>1, <2>2, <2>3, <1>2, LedgerGrows
    <2>5. \A y \in Written' : RightTrade(y)'
        BY <2>4, <1>4, <1>5, <1>6
    <2> HIDE DEF t
    <2>6. \A at \in 1 .. n : InTrade(at) => InTrade(at)'
        <3>1. ASSUME NEW at \in 1 .. n, active.signal <= at PROVE t.signal <= at /\ at <= t.exitBar
            BY <3>1, <2>2, <1>2
        <3>2. \A at \in 1 .. n : InTrade(at) =>
                (\E y \in Written : y.signal <= at /\ at <= y.exitBar) \/ active.signal <= at
            BY DEF InTrade
        <3>3. \A at \in 1 .. n : (\E y \in Written' : y.signal <= at /\ at <= y.exitBar) => InTrade(at)'
            BY DEF InTrade
        <3> QED BY <3>1, <3>2, <3>3, <2>4
    <2>7. \A at \in 2 .. n : at = n => InTrade(at)'
        <3>1. ASSUME NEW at \in 2 .. n, at = n PROVE t.signal <= at /\ at <= t.exitBar
            BY <3>1, <2>2, <1>2, <1>3
        <3>2. \A at \in 2 .. n : (\E y \in Written' : y.signal <= at /\ at <= y.exitBar) => InTrade(at)'
            BY DEF InTrade
        <3> QED BY <3>1, <3>2, <2>4
    <2>8. NonePassedOver'
        BY <2>6, <2>7, <1>1, <1>2, NoneIsPassedOver DEF bar
    <2>9. ExitForgotten'
        BY <2>2, <2>4, <1>2 DEF ExitForgotten
    <2> QED BY <2>1, <2>4, <2>5, <2>8, <2>9 DEF Ledgered
<1>7. CASE ~Hit(w, bar)
    <2>1. trades' = trades /\ active' = w
        BY <1>7 DEF ManagePosition, Shift, bar, w
    <2>2. Written' = Written /\ Apart'
        BY <2>1, <1>2 DEF Written, Apart
    <2>3. \A y \in Written' : RightTrade(y)'
        BY <2>2, <1>5
    <2>4. \A pos \in {active'} \ {NoTrade} : RightPosition(pos)'
        BY <2>1, <1>4, <1>7
    <2>5. w # NoTrade
        BY <1>3, ReplayAssumption
    <2>6. \A at \in 1 .. n : InTrade(at) => InTrade(at)'
        <3>1. \A at \in 1 .. n : InTrade(at) =>
                (\E y \in Written : y.signal <= at /\ at <= y.exitBar) \/ active.signal <= at
            BY DEF InTrade
        <3>2. \A at \in 1 .. n : (\E y \in Written' : y.signal <= at /\ at <= y.exitBar)
                                 \/ w.signal <= at => InTrade(at)'
            BY <2>1, <2>5 DEF InTrade
        <3> QED BY <3>1, <3>2, <2>2, <1>3
    <2>7. \A at \in 2 .. n : at = n => InTrade(at)'
        <3>1. \A at \in 2 .. n : at = n => w.signal <= at
            BY <1>2, <1>3
        <3>2. \A at \in 2 .. n : w.signal <= at => InTrade(at)'
            BY <2>1, <2>5 DEF InTrade
        <3> QED BY <3>1, <3>2
    <2>8. NonePassedOver'
        BY <2>6, <2>7, <1>1, <1>2, NoneIsPassedOver DEF bar
    <2>9. ExitForgotten'
        BY <2>1, <2>5 DEF ExitForgotten
    <2> QED BY <2>2, <2>3, <2>4, <2>8, <2>9 DEF Ledgered
<1> QED BY <1>6, <1>7

\* A candle without a question: flat, with no two candles before it, or with an
\* answer that the signal is not eligible.
LEMMA FlatLedger ==
    ASSUME ReplayInv, Ledgered, NEW shape \in Shapes, OnCandle(NextCandle(shape)), active = NoTrade,
           active' = NoTrade, trades' = trades, Shift(Len(bars) + 1),
           before = 0 \/ signal = 0 \/ ~EligibleAt(signal)
    PROVE  Ledgered'
<1> DEFINE n == Len(bars)
<1>1. /\ Fed /\ Books /\ n \in Nat /\ Len(bars') = n + 1 /\ Apart /\ NonePassedOver /\ signal = n
      /\ before' = signal /\ ended = FALSE
    BY NextCandleIs, BarsAre DEF ReplayInv, Ledgered, Shift, Fed, OnCandle
<1>2. Written' = Written /\ Apart'
    BY <1>1 DEF Written, Apart
<1>3. \A y \in Written' : RightTrade(y)'
    BY <1>2, LedgerCarried
<1>4. \A at \in 1 .. n : InTrade(at) => InTrade(at)'
    BY <1>2 DEF InTrade
<1>5. ASSUME NEW at \in 2 .. n, at = n, EligibleAt(at) PROVE InTrade(at)'
    <2>1. before = 0 /\ n >= 2
        BY <1>1, <1>5
    <2>2. trades # <<>> /\ trades[Len(trades)].exitBar = n
        BY <2>1, <1>1 DEF Ledgered, ExitForgotten
    <2>3. Len(trades) \in 1 .. Len(trades) /\ trades[Len(trades)].signal \in Nat
          /\ trades[Len(trades)].entryBar \in Nat
          /\ trades[Len(trades)].entryBar = trades[Len(trades)].signal + 1
          /\ trades[Len(trades)].entryBar <= trades[Len(trades)].exitBar
        BY <2>2, <1>1, BooksAre
    <2>4. trades[Len(trades)] \in Written
        BY <2>3 DEF Written
    <2>5. trades[Len(trades)].signal <= at /\ at <= trades[Len(trades)].exitBar
        BY <2>2, <2>3, <1>1, <1>5
    <2> QED BY <2>4, <2>5, <1>2 DEF InTrade
<1>6. NonePassedOver'
    BY <1>1, <1>4, <1>5, NoneIsPassedOver
<1>7. ExitForgotten'
    <2>1. Len(bars') >= 2 => before' # 0
        BY <1>1
    <2> QED BY <2>1 DEF ExitForgotten
<1> QED BY <1>2, <1>3, <1>6, <1>7 DEF Ledgered

LEMMA EnterPositionLedger ==
    ASSUME NoLegacyPairs, ReplayInv, Ledgered, NEW shape \in Shapes, EnterPosition(shape)
    PROVE  Ledgered'
<1> DEFINE bar == NextCandle(shape)
           n == Len(bars)
           i == Len(bars) + 1
           seen == Available(history', signal, bars')
           w == Opened(i, bar, seen)
           t == Exited(w, i, bar)
<1>1. /\ OnCandle(bar) /\ active = NoTrade /\ before # 0 /\ signal # 0 /\ Decide(bar, i)
      /\ Shift(i) \/ Forget(i)
      /\ decision'.eligible
    BY DEF EnterPosition
<1>2. /\ Fed /\ Books /\ n \in Nat /\ i \in Nat /\ Len(bars') = i /\ bar \in Candle /\ Apart /\ NonePassedOver
      /\ signal = n /\ signal > 0 /\ seen[Exec] \in Seq(Candle)
      /\ trades # <<>> => signal > trades[Len(trades)].exitBar
    <2>1. Fed /\ Books /\ Apart /\ NonePassedOver
        BY DEF ReplayInv, Ledgered
    <2>2. /\ n \in Nat /\ Len(bars') = i /\ bar \in Candle /\ signal = n /\ signal > 0
          /\ seen[Exec] \in Seq(Candle)
          /\ trades # <<>> => signal > trades[Len(trades)].exitBar
        BY <1>1, Asked
    <2> QED BY <2>1, <2>2
<1>3. EligibleAt(n) /\ StopDistance(seen) = DistanceAt(n)
    <2>1. EligibleAt(signal) /\ StopDistance(seen) = DistanceAt(signal)
        BY <1>1, AskedAlike
    <2> QED BY <2>1, <1>2
<1>4. n >= 2 /\ n \in 1 .. n /\ n \in 2 .. n
    <2>1. before \in {0, signal - 1}
        BY <1>2 DEF Fed
    <2> QED BY <2>1, <1>1, <1>2
<1> HIDE DEF bar, seen
<1>5. w \in Position /\ w.signal = n
    BY <1>2, OpenedIs
<1>6. ASSUME NEW x, x = w
      PROVE  /\ ~Hit(x, bar) => RightPosition(x)'
             /\ Hit(x, bar) => \A y : y = t => RightTrade(y)'
    <2>1. x \in Position /\ x.signal = n /\ x.signal >= 2
        BY <1>4, <1>5, <1>6
    <2>2. EligibleAt(x.signal)' /\ DistanceAt(x.signal)' = DistanceAt(x.signal) /\ DistanceAt(x.signal) \in Int
        <3> DEFINE s == x.signal
        <3>1. s \in 1 .. Len(bars) /\ EligibleAt(s)
            BY <2>1, <1>3, <1>4
        <3> HIDE DEF s
        <3>2. EligibleAt(s)' /\ DistanceAt(s)' = DistanceAt(s) /\ DistanceAt(s) \in Int
            BY <3>1, <1>1, <1>2, CompleteStays, DistanceIsInt DEF bar
        <3> QED BY <3>2 DEF s
    <2>3. Carried(Market', i, DistanceAt(x.signal), sign, Lower(x), Upper(x), x)
        <3> DEFINE m == Market'
        <3>1. m[i] = Mirror(bar)
            BY <1>1, <1>2, MarketGrows DEF bar
        <3> HIDE DEF m, w
        <3>2. Carried(m, i, StopDistance(seen), sign, Lower(w), Upper(w), w)
            BY <3>1, <1>2, OpensCarried DEF w
        <3> QED BY <3>2, <2>1, <1>3, <1>6 DEF m
    <2>4. \A y : y = Exited(x, i, NextCandle(shape)) =>
            /\ ~Hit(x, NextCandle(shape)) => RightPosition(x)'
            /\ Hit(x, NextCandle(shape)) => RightTrade(y)'
        <3> HIDE DEF w
        <3> QED BY <2>1, <2>2, <2>3, <1>1, PositionDecided DEF bar
    <2> QED BY <2>4, <1>6 DEF bar
<1>7. \A y \in Written : RightTrade(y)'
    BY <1>1, LedgerCarried DEF bar
<1>8. \A at \in 1 .. n : InTrade(at) => \E y \in Written : y.signal <= at /\ at <= y.exitBar
    BY <1>1 DEF InTrade
<1>9. CASE Hit(w, bar)
    <2>1. trades' = Append(trades, t) /\ active' = NoTrade /\ before' = 0
        BY <1>9 DEF EnterPosition, Forget, bar, seen
    <2> HIDE DEF w
    <2>2. t \in TradeRecord /\ t.signal = n /\ t.exitBar = i
        BY <1>2, <1>5, ExitedIs
    <2>3. Written' = Written \cup {t} /\ Apart' /\ trades' # <<>> /\ trades'[Len(trades')] = t
        <3> HIDE DEF t
        <3> QED BY <2>1, <2>2, <1>2, LedgerGrows
    <2>4. \A y \in Written' : RightTrade(y)'
        BY <2>3, <1>6, <1>7, <1>9
    <2> HIDE DEF t
    <2>5. \A at \in 1 .. n : (\E y \in Written' : y.signal <= at /\ at <= y.exitBar) => InTrade(at)'
        BY DEF InTrade
    <2>6. \A at \in 1 .. n : InTrade(at) => InTrade(at)'
        BY <2>3, <2>5, <1>8
    <2>7. \A at \in 2 .. n : at = n => InTrade(at)'
        <3>1. \A at \in 2 .. n : at = n => at \in 1 .. n /\ t.signal <= at /\ at <= t.exitBar
            BY <2>2, <1>2
        <3> QED BY <3>1, <2>3, <2>5
    <2>8. NonePassedOver'
        BY <2>6, <2>7, <1>1, <1>2, NoneIsPassedOver DEF bar
    <2>9. ExitForgotten'
        BY <2>2, <2>3, <1>2 DEF ExitForgotten
    <2> QED BY <2>1, <2>3, <2>4, <2>8, <2>9 DEF Ledgered
<1>10. CASE ~Hit(w, bar)
    <2>1. trades' = trades /\ active' = w
        BY <1>10 DEF EnterPosition, Shift, bar, seen
    <2> HIDE DEF w
    <2>2. Written' = Written /\ Apart'
        BY <2>1, <1>2 DEF Written, Apart
    <2>3. \A y \in Written' : RightTrade(y)'
        BY <2>2, <1>7
    <2>4. \A pos \in {active'} \ {NoTrade} : RightPosition(pos)'
        BY <2>1, <1>6, <1>10
    <2>5. w # NoTrade
        BY <1>5, ReplayAssumption
    <2>6. \A at \in 1 .. n : (\E y \in Written' : y.signal <= at /\ at <= y.exitBar) \/ w.signal <= at => InTrade(at)'
        BY <2>1, <2>5 DEF InTrade
    <2>7. \A at \in 1 .. n : InTrade(at) => InTrade(at)'
        BY <2>2, <2>6, <1>8
    <2>8. \A at \in 2 .. n : at = n => InTrade(at)'
        <3>1. \A at \in 2 .. n : at = n => at \in 1 .. n /\ w.signal <= at
            BY <1>2, <1>5
        <3> QED BY <3>1, <2>6
    <2>9. NonePassedOver'
        BY <2>7, <2>8, <1>1, <1>2, NoneIsPassedOver DEF bar
    <2>10. ExitForgotten'
        BY <2>1, <2>5 DEF ExitForgotten
    <2> QED BY <2>2, <2>3, <2>4, <2>9, <2>10 DEF Ledgered
<1> QED BY <1>9, <1>10

LEMMA DataEndLedger ==
    ASSUME ReplayInv, Ledgered, DataEnd
    PROVE  Ledgered'
<1> DEFINE n == Len(bars)
           t == Record(active, signal, bars[signal].c, "DATA_END")
<1>1. /\ ended' = TRUE /\ bars' = bars /\ contract' = contract /\ context' = context /\ calendar' = calendar
      /\ active' = NoTrade
    BY DEF DataEnd, inputs
<1>2. /\ Fed /\ Books /\ n \in Nat /\ n > 0 /\ signal = n /\ Apart /\ NonePassedOver /\ signal \in Nat
    <2>1. bars # <<>> /\ bars \in Seq(Candle) /\ Fed /\ Books /\ Apart /\ NonePassedOver
        BY DEF DataEnd, ReplayInv, Fed, Ledgered
    <2>2. signal = n /\ n \in Nat
        BY <2>1, BarsAre DEF Fed
    <2> QED BY <2>1, <2>2
<1>3. \A y \in Written : RightTrade(y)'
    BY <1>1, LedgerKept
<1>4. \A at : EligibleAt(at)' <=> EligibleAt(at)
    BY <1>1 DEF EligibleAt
<1>5. ExitForgotten'
    BY <1>1 DEF ExitForgotten
<1>6. ASSUME \A at \in 2 .. n - 1 : InTrade(at) => InTrade(at)' PROVE NonePassedOver'
    BY <1>1, <1>2, <1>4, <1>6 DEF NonePassedOver
<1>7. CASE active = NoTrade
    <2>1. trades' = trades
        BY <1>7 DEF DataEnd
    <2>2. Written' = Written /\ Apart'
        BY <2>1, <1>2 DEF Written, Apart
    <2>3. \A at \in 2 .. n - 1 : InTrade(at) => InTrade(at)'
        BY <2>2, <1>7 DEF InTrade
    <2>4. NonePassedOver'
        BY <2>3, <1>6
    <2> QED BY <2>2, <2>4, <1>1, <1>3, <1>5 DEF Ledgered
<1>8. CASE active # NoTrade
    <2> DEFINE s == active.signal
               price == bars[signal].c
    <2>1. trades' = Append(trades, t)
        BY <1>8 DEF DataEnd
    <2>2. active \in Position /\ s \in Nat /\ s + 1 <= n /\ s >= 2 /\ s \in 1 .. n /\ RightPosition(active)
        <3>1. active \in Position /\ active.signal > 0 /\ active.bar = active.signal + 1 /\ active.bar <= n
              /\ RightPosition(active)
            BY <1>2, <1>8 DEF Books, Ledgered
        <3> QED BY <3>1, <1>2 DEF Position, RightPosition
    <2>3. price \in Int
        BY <1>2, BarsAre
    <2>4. t \in TradeRecord /\ t.signal = s /\ t.exitBar = n
        <3> HIDE DEF price
        <3>1. t \in TradeRecord /\ t.signal = s /\ t.exitBar = signal
            BY <2>2, <2>3, <1>2, RecordIs DEF price
        <3> QED BY <3>1, <1>2
    <2>5. trades # <<>> => t.signal > trades[Len(trades)].exitBar
        BY <2>4, <1>8 DEF ReplayInv, Books, OnePositionAtATime
    <2>6. Written' = Written \cup {t} /\ Apart'
        <3> HIDE DEF t
        <3> QED BY <2>1, <2>4, <2>5, <1>2, LedgerGrows
    <2>7. \A y : y = t => RightTrade(y)'
        <3> DEFINE d == DistanceAt(s)
                   m == Market
        <3>1. d \in Int /\ EligibleAt(s)
            BY <2>2, <1>2, DistanceIsInt DEF RightPosition
        <3>2. Underway(m, n, d, sign, Lower(active), Upper(active), active)
            BY <2>2 DEF RightPosition
        <3>3. sign * price = m[n].c /\ n = Len(m)
            <4>1. n \in 1 .. n /\ bars[n] \in Candle /\ m[n] = Mirror(bars[n]) /\ Len(m) = n
                BY <1>2, BarsAre, MarketIs
            <4>2. Mirror(bars[n]).c = sign * bars[n].c
                BY <4>1, <1>2, MirrorIs
            <4> QED BY <4>1, <4>2, <1>2
        <3>4. sign' = sign /\ Market' = m
            BY <1>1 DEF sign, Market, Mirror
        <3> HIDE DEF m, d, price
        <3>5. Settled(m, d, sign, TRUE, t)
            <4>1. Settled(m, d, sign, TRUE, Record(active, n, price, "DATA_END"))
                BY <2>2, <2>3, <3>1, <3>2, <3>3, <1>2, SettlesAtEnd
            <4> QED BY <4>1, <1>2 DEF price
        <3> HIDE DEF t
        <3>6. ASSUME NEW y, y = t PROVE RightTrade(y)'
            <4>1. y.signal >= 2 /\ Settled(m, d, sign, TRUE, y) /\ y.signal = s
                BY <2>2, <2>4, <3>5, <3>6
            <4>2. EligibleAt(y.signal) /\ DistanceAt(y.signal) = d
                BY <4>1, <3>1 DEF d
            <4>3. EligibleAt(y.signal)' /\ DistanceAt(y.signal)' = DistanceAt(y.signal)
                BY <4>2, <1>1 DEF EligibleAt, DistanceAt
            <4> QED BY <4>1, <4>2, <4>3, <3>4, <1>1 DEF RightTrade
        <3> QED BY <3>6
    <2>8. \A y \in Written' : RightTrade(y)'
        BY <2>6, <2>7, <1>3
    <2>9. \A at \in 2 .. n - 1 : InTrade(at) => InTrade(at)'
        <3> HIDE DEF t
        <3>1. \A at \in 2 .. n - 1 : InTrade(at) =>
                (\E y \in Written : y.signal <= at /\ at <= y.exitBar) \/ s <= at
            BY DEF InTrade
        <3>2. \A at \in 2 .. n - 1 : (\E y \in Written' : y.signal <= at /\ at <= y.exitBar) => InTrade(at)'
            BY DEF InTrade
        <3>3. \A at \in 2 .. n - 1 : s <= at => t.signal <= at /\ at <= t.exitBar
            BY <2>4, <1>2
        <3> QED BY <3>1, <3>2, <3>3, <2>6
    <2>10. NonePassedOver'
        BY <2>9, <1>6
    <2> QED BY <2>6, <2>8, <2>10, <1>1, <1>5 DEF Ledgered
<1> QED BY <1>7, <1>8

LEMMA LedgeredHolds == ASSUME NoLegacyPairs PROVE ReplaySpec => []Ledgered
<1>1. ReplayInit => Ledgered
    <2> SUFFICES ASSUME ReplayInit PROVE Ledgered
        OBVIOUS
    <2>1. Len(bars) = 0 /\ Len(trades) = 0 /\ active = NoTrade
        BY DEF ReplayInit
    <2>2. Written = {} /\ Apart /\ NonePassedOver /\ ExitForgotten
        BY <2>1 DEF Written, Apart, NonePassedOver, ExitForgotten
    <2> QED BY <2>1, <2>2 DEF Ledgered
<1>2. ReplayInv /\ Ledgered /\ [ReplayNext]_replayVars => Ledgered'
    <2> SUFFICES ASSUME ReplayInv, Ledgered, [ReplayNext]_replayVars PROVE Ledgered'
        OBVIOUS
    <2>1. CASE DataEnd
        BY <2>1, DataEndLedger
    <2>2. ASSUME NEW shape \in Shapes, ManagePosition(shape) PROVE Ledgered'
        BY <2>2, ManagePositionLedger
    <2>3. ASSUME NEW shape \in Shapes, FillWindow(shape) PROVE Ledgered'
        <3>1. /\ OnCandle(NextCandle(shape)) /\ active = NoTrade /\ active' = NoTrade /\ trades' = trades
              /\ Shift(Len(bars) + 1) /\ (before = 0 \/ signal = 0)
            BY <2>3 DEF FillWindow
        <3> QED BY <3>1, FlatLedger
    <2>4. ASSUME NEW shape \in Shapes, PassSignal(shape) PROVE Ledgered'
        <3>1. /\ OnCandle(NextCandle(shape)) /\ active = NoTrade /\ active' = NoTrade /\ trades' = trades
              /\ before # 0 /\ signal # 0 /\ Decide(NextCandle(shape), Len(bars) + 1)
              /\ Shift(Len(bars) + 1) /\ ~decision'.eligible
            BY <2>4 DEF PassSignal
        <3>2. ~EligibleAt(signal)
            BY <3>1, AskedAlike
        <3> QED BY <3>1, <3>2, FlatLedger
    <2>5. ASSUME NEW shape \in Shapes, EnterPosition(shape) PROVE Ledgered'
        BY <2>5, EnterPositionLedger
    <2>6. CASE UNCHANGED replayVars
        <3>1. /\ bars' = bars /\ contract' = contract /\ calendar' = calendar /\ context' = context /\ ended' = ended
              /\ trades' = trades /\ active' = active /\ before' = before
            BY <2>6 DEF replayVars
        <3>2. Written' = Written /\ Apart' /\ NonePassedOver' /\ ExitForgotten'
            BY <3>1 DEF Ledgered, Written, Apart, NonePassedOver, ExitForgotten, InTrade, EligibleAt
        <3>3. \A y \in Written' : RightTrade(y)'
            BY <3>1, <3>2, LedgerKept
        <3>4. \A pos \in {active'} \ {NoTrade} : RightPosition(pos)'
            <4>1. sign' = sign /\ Market' = Market
                BY <3>1 DEF sign, Market, Mirror
            <4> QED BY <4>1, <3>1 DEF Ledgered, RightPosition, EligibleAt, DistanceAt, Lower, Upper
        <3> QED BY <3>2, <3>3, <3>4 DEF Ledgered
    <2> QED BY <2>1, <2>2, <2>3, <2>4, <2>5, <2>6 DEF ReplayNext, Feed
<1> QED BY <1>1, <1>2, ReplayInvHolds, PTL DEF ReplaySpec

-----------------------------------------------------------------------------
(* The legacy loop *)

\* A turn of the loop that is behind the first trades of the ledger and has not
\* come past the signal of the next one.
Loops ==
  {loop \in [at : Nat, trades : Seq(TradeRecord)] :
     /\ loop.at >= 2
     /\ \E j \in 0 .. Len(trades) :
          /\ loop.trades = SubSeq(trades, 1, j)
          /\ j > 0 => trades[j].exitBar < loop.at
          /\ j < Len(trades) => loop.at <= trades[j + 1].signal}

\* A turn takes the loop to the next candle, or with the next trade behind its exit.
LEMMA TurnIs ==
    ASSUME ReplayInv, Ledgered, ended, NEW loop \in Loops
    PROVE  /\ LegacyTurn(loop) \in Loops
           /\ LegacyTurn(loop).at >= Len(bars) \/ LegacyTurn(loop).at > loop.at
<1> DEFINE n == Len(bars)
           N == Len(trades)
           at == loop.at
<1>1. /\ Fed /\ Books /\ n \in Nat /\ N \in Nat /\ trades \in Seq(TradeRecord) /\ active = NoTrade
      /\ NonePassedOver /\ Apart
    <2>1. Fed /\ Books /\ active = NoTrade /\ NonePassedOver /\ Apart
        BY DEF ReplayInv, Books, Ledgered
    <2> QED BY <2>1, BarsAre, BooksAre
<1>2. \A k \in 1 .. N : /\ trades[k] \in TradeRecord /\ Traded(trades[k])
                        /\ trades[k].signal \in Nat /\ trades[k].exitBar \in Nat
                        /\ trades[k].signal + 1 <= trades[k].exitBar /\ trades[k].exitBar <= n
    <2>1. ASSUME NEW k \in 1 .. N
          PROVE  /\ trades[k] \in TradeRecord /\ Traded(trades[k])
                 /\ trades[k].signal \in Nat /\ trades[k].exitBar \in Nat
                 /\ trades[k].signal + 1 <= trades[k].exitBar /\ trades[k].exitBar <= n
        <3>1. trades[k] \in Written
            BY DEF Written
        <3> QED BY <3>1, <1>1, WrittenAre
    <2> QED BY <2>1
<1>3. /\ loop \in [at : Nat, trades : Seq(TradeRecord)] /\ at \in Nat /\ at >= 2
      /\ loop.trades \in Seq(TradeRecord)
    BY DEF Loops
<1>4. PICK j \in 0 .. N : /\ loop.trades = SubSeq(trades, 1, j)
                          /\ j > 0 => trades[j].exitBar < at
                          /\ j < N => at <= trades[j + 1].signal
    BY DEF Loops
<1> HIDE DEF n, N
<1>5. CASE at >= n
    <2>1. LegacyTurn(loop) = loop
        BY <1>5 DEF LegacyTurn, n
    <2> QED BY <2>1, <1>5 DEF n
<1>6. ASSUME ~(at >= n), ~BatchEligible(at)
      PROVE  LegacyTurn(loop) \in Loops /\ LegacyTurn(loop).at > at
    <2> DEFINE next == LegacyTurn(loop)
    <2>1. next = [loop EXCEPT !.at = @ + 1]
        BY <1>6 DEF LegacyTurn, n
    <2>2. next.at = at + 1 /\ next.trades = loop.trades /\ next \in [at : Nat, trades : Seq(TradeRecord)]
        BY <2>1, <1>3
    <2> HIDE DEF next
    <2>3. j < N => at + 1 <= trades[j + 1].signal
        <3>1. ASSUME j < N, at = trades[j + 1].signal PROVE FALSE
            <4>1. j + 1 \in 1 .. N
                BY <3>1, <1>1
            <4>2. trades[j + 1] \in Written
                BY <4>1 DEF Written, N
            <4>3. RightTrade(trades[j + 1])
                BY <4>2 DEF Ledgered
            <4>4. EligibleAt(at) /\ at \in 1 .. n
                BY <4>3, <3>1, <1>1, <1>3, <1>6 DEF RightTrade
            <4> QED BY <4>4, <1>1, <1>6, ReferenceIs DEF n
        <3>2. j < N => trades[j + 1].signal \in Nat
            <4>1. j < N => j + 1 \in 1 .. N
                BY <1>1
            <4> QED BY <4>1, <1>2
        <3> QED BY <3>1, <3>2, <1>3, <1>4
    <2>4. j > 0 => trades[j].exitBar < at + 1
        <3>1. j > 0 => trades[j].exitBar \in Nat
            <4>1. j > 0 => j \in 1 .. N
                BY <1>1
            <4> QED BY <4>1, <1>2
        <3> QED BY <3>1, <1>3, <1>4
    <2>5. next.at >= 2 /\ next.at > at
        BY <2>2, <1>3
    <2>6. next \in Loops
        BY <2>2, <2>3, <2>4, <2>5, <1>4 DEF Loops, N
    <2> QED BY <2>5, <2>6 DEF next
<1>7. ASSUME ~(at >= n), BatchEligible(at)
      PROVE  LegacyTurn(loop) \in Loops /\ LegacyTurn(loop).at > at
    <2>1. at \in 1 .. n /\ at \in 2 .. n - 1
        BY <1>1, <1>3, <1>7
    <2>2. EligibleAt(at)
        BY <2>1, <1>1, <1>7, ReferenceIs DEF n
    <2>3. InTrade(at)
        BY <2>1, <2>2, <1>1 DEF NonePassedOver, n
    <2>4. PICK k \in 1 .. N : trades[k].signal <= at /\ at <= trades[k].exitBar
        BY <2>3, <1>1 DEF InTrade, Written, N
    <2>5. \A i, q \in 1 .. N : i < q => trades[i].exitBar < trades[q].signal
        BY <1>1 DEF Apart, N
    <2>6. ~(k <= j)
        <3>1. ASSUME k <= j PROVE FALSE
            <4>1. j \in 1 .. N /\ j > 0
                BY <3>1, <1>1
            <4>2. trades[k].exitBar <= trades[j].exitBar
                <5>1. CASE k = j
                    BY <5>1, <4>1, <1>2
                <5>2. CASE k # j
                    <6>1. trades[k].exitBar < trades[j].signal
                        BY <5>2, <3>1, <4>1, <2>5
                    <6> QED BY <6>1, <4>1, <1>2
                <5> QED BY <5>1, <5>2
            <4>3. trades[j].exitBar < at /\ trades[k].exitBar \in Nat /\ trades[j].exitBar \in Nat
                BY <4>1, <1>2, <1>4
            <4> QED BY <4>2, <4>3, <2>4, <1>3
        <3> QED BY <3>1
    <2>7. j < N /\ j + 1 \in 1 .. N /\ j + 1 <= k
        BY <2>6, <1>1
    <2>8. ~(j + 1 < k)
        <3>1. ASSUME j + 1 < k PROVE FALSE
            <4>1. trades[j + 1].exitBar < trades[k].signal
                BY <3>1, <2>5, <2>7
            <4>2. at <= trades[j + 1].signal
                BY <2>7, <1>4
            <4>3. /\ trades[j + 1].signal + 1 <= trades[j + 1].exitBar /\ trades[k].signal <= at
                  /\ trades[j + 1].signal \in Nat /\ trades[j + 1].exitBar \in Nat /\ trades[k].signal \in Nat
                BY <2>4, <2>7, <1>2
            <4> QED BY <4>1, <4>2, <4>3, <1>3, SMTT(20)
        <3> QED BY <3>1
    <2> DEFINE t == trades[j + 1]
    <2>9. /\ t \in TradeRecord /\ Traded(t) /\ t.signal \in Nat /\ t.exitBar \in Nat
          /\ t.signal + 1 <= t.exitBar /\ t.exitBar <= n
        BY <2>7, <1>2
    <2>10. t.signal = at
        <3>1. k = j + 1
            BY <2>7, <2>8
        <3>2. t.signal <= at /\ at <= t.signal
            BY <3>1, <2>4, <2>7, <1>4
        <3> QED BY <3>2, <2>9, <1>3
    <2>11. LegacyTrade(Market, at) = t
        <3> DEFINE d == DistanceAt(at)
                   m == Market
        <3>1. RightTrade(t)
            <4>1. t \in Written
                BY <2>7 DEF Written, N
            <4> QED BY <4>1 DEF Ledgered
        <3>2. d \in Int /\ StopDistance(BatchAvailable(at)) = d
            BY <2>1, <1>1, DistanceIsInt, ReferenceIs DEF n
        <3>3. Settled(m, d, sign, ended, t)
            BY <3>1, <2>10 DEF RightTrade
        <3>4. /\ m \in Seq(Candle) /\ Len(m) = n
              /\ \A i \in 1 .. Len(m) : m[i].o \in Int /\ m[i].l \in Int /\ m[i].h \in Int /\ m[i].c \in Int
            BY <1>1, MarketIs DEF n
        <3> HIDE DEF m, d, t
        <3>5. LegacyTrade(m, t.signal) = t
            BY <3>2, <3>3, <3>4, <2>9, <2>10, <1>1, SettledIs
        <3> QED BY <3>5, <2>10 DEF m
    <2> DEFINE next == LegacyTurn(loop)
    <2>12. next = [at |-> t.exitBar + 1, trades |-> Append(loop.trades, t)]
        <3>1. [i \in DOMAIN bars |-> Mirror(bars[i])] = Market
            BY DEF Market
        <3> HIDE DEF t
        <3> QED BY <3>1, <2>11, <1>7 DEF LegacyTurn, n
    <2>13. Append(loop.trades, t) = SubSeq(trades, 1, j + 1) /\ Append(loop.trades, t) \in Seq(TradeRecord)
        <3>1. 1 \in Nat \ {0} /\ j \in 0 .. Len(trades) - 1 /\ 1 <= j + 1
            BY <2>7, <1>1 DEF N
        <3>2. SubSeq(trades, 1, j + 1) = Append(SubSeq(trades, 1, j), trades[j + 1])
            BY <3>1, <1>1, StretchAppend
        <3> HIDE DEF t
        <3>3. Append(loop.trades, t) \in Seq(TradeRecord)
            BY <2>9, <1>3, AppendProperties
        <3> QED BY <3>2, <3>3, <1>4 DEF t
    <2> HIDE DEF next
    <2>14. next.at = t.exitBar + 1 /\ next.trades = SubSeq(trades, 1, j + 1)
           /\ next \in [at : Nat, trades : Seq(TradeRecord)]
        <3> HIDE DEF t
        <3> QED BY <2>9, <2>12, <2>13
    <2>15. next.at > at /\ next.at >= 2
        <3> HIDE DEF t
        <3> QED BY <2>9, <2>10, <2>14, <1>3
    <2>16. trades[j + 1].exitBar < next.at
        <3> HIDE DEF t
        <3>1. t.exitBar < next.at
            BY <2>9, <2>14
        <3> QED BY <3>1 DEF t
    <2>17. j + 1 < N => next.at <= trades[(j + 1) + 1].signal
        <3>1. ASSUME j + 1 < N PROVE next.at <= trades[(j + 1) + 1].signal
            <4>1. (j + 1) + 1 \in 1 .. N /\ j + 1 < (j + 1) + 1
                BY <3>1, <2>7, <1>1
            <4>2. t.exitBar < trades[(j + 1) + 1].signal /\ trades[(j + 1) + 1].signal \in Nat
                BY <4>1, <2>5, <2>7, <1>2
            <4> HIDE DEF t
            <4> QED BY <4>2, <2>9, <2>14
        <3> QED BY <3>1
    <2> HIDE DEF t
    <2>18. next \in Loops
        <3>1. j + 1 \in 0 .. Len(trades)
            BY <2>7, <1>1 DEF N
        <3> QED BY <3>1, <2>14, <2>15, <2>16, <2>17 DEF Loops, N
    <2> QED BY <2>15, <2>18 DEF next
<1> QED BY <1>5, <1>6, <1>7

\* The legacy loop, turned once for every candle, comes to the end of the ledger.
LEMMA LegacyLedgerIs == ASSUME ReplayInv, Ledgered, ended PROVE LegacyLedger = trades
<1> DEFINE N == Len(bars)
           base == [at |-> 2, trades |-> <<>>]
           step == [k \in 1 .. N |-> [v \in Loops |-> LegacyTurn(v)]]
           Eq(f) == f = [k \in 0 .. N |-> IF k = 0 THEN base ELSE LegacyTurn(f[k - 1])]
           after == CHOOSE f : Eq(f)
<1>1. /\ Fed /\ Books /\ active = NoTrade /\ N \in Nat /\ Len(trades) \in Nat /\ trades \in Seq(TradeRecord)
    <2>1. Fed /\ Books /\ active = NoTrade
        BY DEF ReplayInv, Books
    <2> QED BY <2>1, BarsAre, BooksAre
<1>2. \A k \in 1 .. Len(trades) :
         /\ trades[k].signal \in Nat /\ trades[k].exitBar \in Nat /\ trades[k].signal >= 2
         /\ trades[k].signal + 1 <= trades[k].exitBar /\ trades[k].exitBar <= N
    <2>1. ASSUME NEW k \in 1 .. Len(trades)
          PROVE  /\ trades[k].signal \in Nat /\ trades[k].exitBar \in Nat /\ trades[k].signal >= 2
                 /\ trades[k].signal + 1 <= trades[k].exitBar /\ trades[k].exitBar <= N
        <3>1. trades[k] \in Written
            BY DEF Written
        <3>2. trades[k].signal >= 2
            BY <3>1 DEF Ledgered, RightTrade
        <3> QED BY <3>1, <3>2, <1>1, WrittenAre
    <2> QED BY <2>1
<1>3. base \in Loops
    <2>1. base \in [at : Nat, trades : Seq(TradeRecord)] /\ base.at = 2 /\ base.trades = <<>>
        OBVIOUS
    <2>2. SubSeq(trades, 1, 0) = <<>>
        BY <1>1
    <2>3. 0 < Len(trades) => base.at <= trades[0 + 1].signal
        <3>1. ASSUME 0 < Len(trades) PROVE base.at <= trades[0 + 1].signal
            <4>1. 1 \in 1 .. Len(trades) /\ 0 + 1 = 1
                BY <3>1, <1>1
            <4> QED BY <4>1, <2>1, <1>2
        <3> QED BY <3>1
    <2>4. 0 \in 0 .. Len(trades)
        BY <1>1
    <2> HIDE DEF base
    <2> QED BY <2>1, <2>2, <2>3, <2>4 DEF Loops
<1>4. StepsWithin(step, N, Loops) /\ \A k \in 1 .. N, v \in Loops : step[k][v] = LegacyTurn(v)
    <2>1. \A v \in Loops : LegacyTurn(v) \in Loops
        BY TurnIs
    <2> QED BY <2>1 DEF StepsWithin
<1> HIDE DEF base
<1>5. PICK f : Iterates(f, N, Loops, base, step)
    <2> HIDE DEF step, N
    <2> QED BY <1>1, <1>3, <1>4, Iterated
<1>6. f \in [0 .. N -> Loops] /\ f[0] = base /\ \A k \in 1 .. N : f[k] = LegacyTurn(f[k - 1])
    <2> HIDE DEF step, N
    <2>1. f \in [0 .. N -> Loops] /\ f[0] = base /\ \A k \in 1 .. N : f[k] = step[k][f[k - 1]]
        BY <1>5 DEF Iterates
    <2>2. ASSUME NEW k \in 1 .. N PROVE f[k] = LegacyTurn(f[k - 1])
        <3>1. k - 1 \in 0 .. N
            BY <1>1
        <3>2. f[k - 1] \in Loops
            BY <3>1, <2>1
        <3> QED BY <1>4, <2>1, <3>2
    <2> QED BY <2>1, <2>2
<1> HIDE DEF step
<1>7. Eq(f)
    <2> HIDE DEF N
    <2>1. \A k \in 0 .. N : f[k] = IF k = 0 THEN base ELSE LegacyTurn(f[k - 1])
        BY <1>1, <1>6
    <2> QED BY <2>1, <1>6
<1>8. Eq(after)
    <2> HIDE DEF Eq
    <2> QED BY <1>7
<1>9. after[0] = base /\ \A k \in 1 .. N : after[k] = LegacyTurn(after[k - 1])
    <2> HIDE DEF after
    <2>1. \A k \in 0 .. N : after[k] = IF k = 0 THEN base ELSE LegacyTurn(after[k - 1])
        BY <1>8
    <2> HIDE DEF N
    <2> QED BY <2>1, <1>1
<1>10. LegacyLedger = after[N].trades
    BY DEF LegacyLedger, base
<1> HIDE DEF after, Eq
<1>11. \A k \in 0 .. N : f[k] = after[k]
    <2> HIDE DEF N
    <2>1. ASSUME NEW k \in 0 .. N - 1, f[k] = after[k] PROVE f[k + 1] = after[k + 1]
        <3>1. k + 1 \in 1 .. N /\ (k + 1) - 1 = k
            BY <1>1
        <3> QED BY <3>1, <1>6, <1>9, <2>1
    <2>2. N \in Nat /\ f[0] = after[0]
        BY <1>1, <1>6, <1>9
    <2>3. \A k \in 0 .. N - 1 : f[k] = after[k] => f[k + 1] = after[k + 1]
        BY <2>1
    <2> QED BY <2>2, <2>3, Alike
<1>12. \A k \in 0 .. N : f[k].at \in Nat /\ (f[k].at >= N \/ f[k].at >= k + 2)
    <2> DEFINE S == {k \in 0 .. N : f[k].at \in Nat /\ (f[k].at >= N \/ f[k].at >= k + 2)}
    <2>1. 0 \in S
        BY <1>1, <1>6 DEF base
    <2>2. ASSUME NEW k \in 0 .. N - 1, k \in S PROVE k + 1 \in S
        <3>1. k + 1 \in 1 .. N /\ (k + 1) - 1 = k /\ k \in 0 .. N /\ k + 1 \in 0 .. N
            BY <1>1
        <3>2. f[k] \in Loops /\ f[k + 1] \in Loops /\ f[k + 1] = LegacyTurn(f[k])
            BY <3>1, <1>6
        <3>3. f[k + 1].at >= N \/ f[k + 1].at > f[k].at
            BY <3>2, TurnIs
        <3>4. f[k].at \in Nat /\ f[k + 1].at \in Nat
            BY <3>2 DEF Loops
        <3>5. f[k].at >= N \/ f[k].at >= k + 2
            BY <2>2
        <3>6. f[k + 1].at >= N \/ f[k + 1].at >= (k + 1) + 2
            <4> HIDE DEF N
            <4> QED BY <3>1, <3>3, <3>4, <3>5, <1>1
        <3> QED BY <3>1, <3>4, <3>6
    <2>3. \A k \in 0 .. N - 1 : k \in S => k + 1 \in S
        BY <2>2
    <2>4. \A k \in 0 .. N : k \in S
        <3> HIDE DEF S, N
        <3> QED BY <2>1, <2>3, <1>1, StepByStep
    <2> QED BY <2>4
<1>13. f[N].at >= N /\ f[N].at \in Nat /\ f[N] \in Loops /\ LegacyLedger = f[N].trades
    <2>1. N \in 0 .. N
        BY <1>1
    <2> HIDE DEF N
    <2> QED BY <2>1, <1>1, <1>6, <1>10, <1>11, <1>12
<1>14. PICK j \in 0 .. Len(trades) : /\ f[N].trades = SubSeq(trades, 1, j)
                                     /\ j < Len(trades) => f[N].at <= trades[j + 1].signal
    BY <1>13 DEF Loops
<1>15. j = Len(trades)
    <2>1. ASSUME j < Len(trades) PROVE FALSE
        <3>1. j + 1 \in 1 .. Len(trades)
            BY <2>1, <1>1
        <3>2. /\ trades[j + 1].signal \in Nat /\ trades[j + 1].exitBar \in Nat
              /\ trades[j + 1].signal + 1 <= trades[j + 1].exitBar /\ trades[j + 1].exitBar <= N
            BY <3>1, <1>2
        <3>3. f[N].at <= trades[j + 1].signal
            BY <2>1, <1>14
        <3> HIDE DEF N
        <3> QED BY <3>2, <3>3, <1>1, <1>13
    <2> QED BY <2>1, <1>1
<1>16. SubSeq(trades, 1, Len(trades)) = trades
    BY <1>1, WholeIsSelf
<1> QED BY <1>13, <1>14, <1>15, <1>16

\* A split replayed candle by candle, with no candle kept but the two of the
\* window and the declared lookback, writes the ledger of the loop that has the
\* whole split before it.
THEOREM LedgerIsLegacy == ASSUME NoLegacyPairs PROVE ReplaySpec => []LedgerMatchesReference
<1>1. ReplayInv /\ Ledgered => LedgerMatchesReference
    BY LegacyLedgerIs DEF LedgerMatchesReference
<1> QED BY <1>1, ReplayInvHolds, LedgeredHolds, PTL
=============================================================================
