-------------------------- MODULE EdgeSearchProofs --------------------------
(***************************************************************************)
(* Proofs, for every grid, budget and number of workers, of the safety     *)
(* invariants of EdgeSearch; then of the campaign of EdgeSearchVerification: *)
(* it implements EdgeSearch, and what its verifier and its breadth          *)
(* measurement store agrees with the ledgers.                              *)
(***************************************************************************)
EXTENDS EdgeSearchVerification, FiniteSetTheorems, TLAPS

\* The openings of a campaign can be counted.
LEMMA OpenedFinite ==
    ASSUME NEW S \in SUBSET Trials
    PROVE  IsFiniteSet(S) /\ Cardinality(S) \in Nat
<1>1. IsFiniteSet(1..TrialCount)
    BY GridAssumption, FS_Interval
<1>2. IsFiniteSet(S)
    BY <1>1, FS_Subset DEF Trials
<1> QED BY <1>2, FS_CardinalityType

LEMMA IdleSound ==
    /\ Idle \in RequestStates
    /\ OpeningSound(Idle)
    /\ AssessmentSound(Idle)
BY GridAssumption DEF Idle, RequestStates, OpeningSteps, OpeningSound, AssessmentSound

\* What is said of the ledgers alone is the same before and after a step that
\* leaves them.
LEMMA SameLedgers ==
    ASSUME UNCHANGED ledgers
    PROVE  /\ Opened' = Opened /\ Survivors' = Survivors /\ Decided' = Decided
           /\ Complete' <=> Complete
           /\ EmptyHasGround' <=> EmptyHasGround
           /\ NoRepeatedSequence => NoRepeatedSequence'
           /\ BudgetRespected => BudgetRespected'
           /\ FinalOosIsPaidFor => FinalOosIsPaidFor'
           /\ VerdictHasGround => VerdictHasGround'
           /\ OutcomeHasEvidence => OutcomeHasEvidence'
           /\ \A r : OpeningSound(r) /\ AssessmentSound(r)
                      => OpeningSound(r)' /\ AssessmentSound(r)'
<1>1. Opened' = Opened /\ Survivors' = Survivors /\ Decided' = Decided
    BY DEF ledgers, Opened, Survivors, Decided
<1>2. (Complete' <=> Complete) /\ (EmptyHasGround' <=> EmptyHasGround)
    BY <1>1 DEF ledgers, Complete, EmptyHasGround
<1>3. /\ NoRepeatedSequence => NoRepeatedSequence'
      /\ BudgetRespected => BudgetRespected'
    BY <1>1 DEF ledgers, NoRepeatedSequence, BudgetRespected
<1>4. /\ FinalOosIsPaidFor => FinalOosIsPaidFor'
      /\ VerdictHasGround => VerdictHasGround'
      /\ OutcomeHasEvidence => OutcomeHasEvidence'
    BY <1>1, <1>2 DEF ledgers, FinalOosIsPaidFor, VerdictHasGround, OutcomeHasEvidence
<1>5. ASSUME NEW r, OpeningSound(r), AssessmentSound(r)
      PROVE  OpeningSound(r)' /\ AssessmentSound(r)'
    <2>1. OpeningSound(r)'
        BY <1>1, <1>5 DEF ledgers, OpeningSound
    <2>2. AssessmentSound(r)'
        BY <1>1, <1>2, <1>5 DEF ledgers, AssessmentSound
    <2> QED BY <2>1, <2>2
<1> QED BY <1>1, <1>2, <1>3, <1>4, <1>5

\* A step that only moves one request on, or lets the dataset grow.
LEMMA RequestStep ==
    ASSUME IInv, NEW w \in Workers, NEW r \in RequestStates,
           OpeningSound(r), AssessmentSound(r),
           req' = [req EXCEPT ![w] = r],
           UNCHANGED <<ledgers, grown>>
    PROVE  IInv'
<1>1. \A v \in Workers : req'[v] = IF v = w THEN r ELSE req[v]
    BY DEF IInv, TypeOK
<1>2. TypeOK'
    BY DEF IInv, TypeOK, ledgers
<1>3. /\ (NoRepeatedSequence)' /\ BudgetRespected' /\ FinalOosIsPaidFor'
      /\ VerdictHasGround' /\ OutcomeHasEvidence'
    BY SameLedgers DEF IInv
<1>4. ASSUME NEW v \in Workers
      PROVE  (OpeningSound(req[v]) /\ AssessmentSound(req[v]))'
    <2>1. OpeningSound(req'[v]) /\ AssessmentSound(req'[v])
        BY <1>1 DEF IInv
    <2>2. \A x : OpeningSound(x) /\ AssessmentSound(x) => OpeningSound(x)' /\ AssessmentSound(x)'
        BY SameLedgers
    <2> QED BY <2>1, <2>2 DEF OpeningSound, AssessmentSound
<1> QED BY <1>2, <1>3, <1>4 DEF IInv

\* A step from one request state to another, with nothing else read.
LEMMA GotoStep ==
    ASSUME IInv, NEW w \in Workers, NEW from, NEW to, Goto(w, from, to),
           [req[w] EXCEPT !.step = to] \in RequestStates,
           OpeningSound([req[w] EXCEPT !.step = to]),
           AssessmentSound([req[w] EXCEPT !.step = to]),
           UNCHANGED <<ledgers, grown>>
    PROVE  IInv'
<1>1. req' = [req EXCEPT ![w] = [req[w] EXCEPT !.step = to]]
    BY DEF Goto
<1> QED BY <1>1, RequestStep

LEMMA RespondStep ==
    ASSUME IInv, NEW w \in Workers, NEW from, Respond(w, from),
           UNCHANGED <<ledgers, grown>>
    PROVE  IInv'
BY IdleSound, RequestStep DEF Respond

\* What a ledger records it keeps.
LedgersGrew ==
    /\ \A t \in Trials :
          /\ trials[t] # "PENDING" => trials'[t] = trials[t]
          /\ openings[t] # 0 => openings'[t] = openings[t]
          /\ outcomes[t] # "NONE" => outcomes'[t] = outcomes[t]
          /\ \A version \in BOOLEAN : evidence[t][version] # "NONE" =>
                evidence'[t][version] = evidence[t][version]
    /\ conclusion # "NONE" => conclusion' = conclusion

\* What the ledgers show when they have grown.
LEMMA LedgerFacts ==
    ASSUME TypeOK, TypeOK', LedgersGrew
    PROVE  /\ Survivors \subseteq Survivors' /\ Opened \subseteq Opened'
           /\ Decided \subseteq Decided'
           /\ Cardinality(Opened) \in Nat /\ Cardinality(Opened') \in Nat
           /\ Cardinality(Opened) <= Cardinality(Opened')
           /\ Complete => Complete' /\ Survivors' = Survivors
           /\ EmptyHasGround => EmptyHasGround'
           /\ \A decision \in Decisions :
                 (\E t \in Trials : outcomes[t] = decision)
                    => \E t \in Trials : outcomes'[t] = decision
<1>1. /\ Survivors \subseteq Survivors' /\ Opened \subseteq Opened'
      /\ Decided \subseteq Decided'
    BY DEF LedgersGrew, Survivors, Opened, Decided
<1>2. /\ Cardinality(Opened) \in Nat /\ Cardinality(Opened') \in Nat
      /\ Cardinality(Opened) <= Cardinality(Opened')
    <2>1. Opened \in SUBSET Trials /\ Opened' \in SUBSET Trials
        BY DEF Opened
    <2> QED BY <2>1, <1>1, OpenedFinite, FS_Subset
<1>3. Complete => Complete' /\ Survivors' = Survivors
    BY DEF LedgersGrew, Complete, Survivors
<1>4. EmptyHasGround => EmptyHasGround'
    BY <1>1, <1>2, <1>3, GridAssumption DEF EmptyHasGround
<1>5. ASSUME NEW decision \in Decisions, \E t \in Trials : outcomes[t] = decision
      PROVE  \E t \in Trials : outcomes'[t] = decision
    BY <1>5 DEF LedgersGrew, Decisions
<1> QED BY <1>1, <1>2, <1>3, <1>4, <1>5

\* What the ledgers gain takes nothing from a request in flight.
LEMMA LedgersGrow ==
    ASSUME TypeOK, TypeOK', LedgersGrew, NEW r \in RequestStates,
           OpeningSound(r), AssessmentSound(r)
    PROVE  OpeningSound(r)' /\ AssessmentSound(r)'
<1>1. OpeningSound(r)'
    <2>1. /\ r.step \in OpeningSteps => r.trial \in Survivors'
          /\ r.step \in {"evaluate", "record"} => r.trial \in Opened'
          /\ r.step = "spend" => r.sequence \in 1..(Cardinality(Opened') + 1)
        BY LedgerFacts DEF OpeningSound, RequestStates
    <2>2. ASSUME r.step = "record", NEW decision \in r.decisions
          PROVE  \E version \in BOOLEAN : evidence'[r.trial][version] = decision
        <3>1. decision # "NONE"
            BY DEF RequestStates, Decisions
        <3>2. r.trial \in Trials
            BY <2>2 DEF OpeningSound, OpeningSteps, Survivors
        <3> QED BY <2>2, <3>1, <3>2 DEF OpeningSound, LedgersGrew
    <2> QED BY <2>1, <2>2 DEF OpeningSound
<1>2. AssessmentSound(r)'
    <2>1. r.decisions \subseteq Decisions
        BY DEF RequestStates
    <2> QED BY <2>1, LedgerFacts DEF AssessmentSound
<1> QED BY <1>1, <1>2

-----------------------------------------------------------------------------
(* The initial states and the steps that only move a request *)

LEMMA InitIInv == Init => IInv
<1> SUFFICES ASSUME Init PROVE IInv
    OBVIOUS
<1> USE GridAssumption, IdleSound
<1>1. TypeOK
    <2>1. openings \in [Trials -> 0..Budget]
        BY DEF Init
    <2>2. evidence \in [Trials -> [BOOLEAN -> Decisions \cup {"NONE"}]]
        BY DEF Init
    <2>3. req \in [Workers -> RequestStates]
        BY DEF Init
    <2> QED BY <2>1, <2>2, <2>3 DEF Init, TypeOK
<1>2. Opened = {} /\ Cardinality(Opened) = 0
    BY FS_EmptySet DEF Init, Opened
<1>3. NoRepeatedSequence /\ BudgetRespected
    BY <1>2 DEF NoRepeatedSequence, BudgetRespected
<1>4. FinalOosIsPaidFor /\ VerdictHasGround /\ OutcomeHasEvidence
    BY DEF Init, FinalOosIsPaidFor, VerdictHasGround, OutcomeHasEvidence, Decided
<1>5. \A w \in Workers : OpeningSound(req[w]) /\ AssessmentSound(req[w])
    BY DEF Init
<1> QED BY <1>1, <1>3, <1>4, <1>5 DEF IInv

\* A sweep notes its pending points; nothing is promised about them.
LEMMA SweepMoves ==
    ASSUME IInv, NEW w \in Workers, BeginSweep(w) \/ StartTrial(w) \/ EndSweep(w)
    PROVE  IInv'
<1>1. CASE BeginSweep(w)
    <2>1. PICK last \in Trials :
              req' = [req EXCEPT ![w] = [Idle EXCEPT !.step = "sweep",
                         !.todo = {t \in 1..last : trials[t] = "PENDING"}]]
        BY <1>1 DEF BeginSweep, Begin
    <2> DEFINE todo == {t \in 1..last : trials[t] = "PENDING"}
               r == [Idle EXCEPT !.step = "sweep", !.todo = todo]
    <2>2. todo \in SUBSET Trials
        BY GridAssumption DEF Trials
    <2> HIDE DEF todo
    <2>3. r \in RequestStates
        BY <2>2, IdleSound DEF RequestStates
    <2>4. r.step = "sweep" /\ r.complete = FALSE
        BY DEF Idle
    <2>5. OpeningSound(r) /\ AssessmentSound(r)
        BY <2>4 DEF OpeningSteps, OpeningSound, AssessmentSound
    <2>6. req' = [req EXCEPT ![w] = r]
        BY <2>1 DEF todo
    <2> QED BY <1>1, <2>3, <2>5, <2>6, RequestStep DEF BeginSweep
<1>2. CASE EndSweep(w)
    BY <1>2, RespondStep DEF EndSweep
<1>3. CASE StartTrial(w)
    <2> DEFINE r == [req[w] EXCEPT !.step = "replay"]
    <2>3. req[w] \in RequestStates /\ AssessmentSound(req[w])
        BY DEF IInv, TypeOK
    <2>4. /\ r \in RequestStates /\ r.step = "replay"
          /\ r.complete = req[w].complete /\ r.survivors = req[w].survivors
        BY <2>3 DEF RequestStates
    <2>1. r \in RequestStates /\ OpeningSound(r) /\ AssessmentSound(r)
        BY <2>3, <2>4 DEF OpeningSteps, OpeningSound, AssessmentSound
    <2>2. req' = [req EXCEPT ![w] = r]
        BY <1>3 DEF StartTrial, Goto
    <2> HIDE DEF r
    <2> QED BY <1>3, <2>1, <2>2, RequestStep DEF StartTrial
<1> QED BY <1>1, <1>2, <1>3

\* The steps of an opening that write no ledger.
LEMMA OpeningMoves ==
    ASSUME IInv, NEW w \in Workers,
           \/ \E t \in Trials : BeginOpen(w, t)
           \/ LookupOpening(w) \/ CountBudget(w) \/ BudgetExhausted(w)
           \/ SpendLosesTrial(w) \/ SpendLosesSequence(w) \/ EvaluationFails(w)
    PROVE  IInv'
<1>1. req[w] \in RequestStates /\ OpeningSound(req[w]) /\ AssessmentSound(req[w])
    BY DEF IInv, TypeOK
<1>2. Cardinality(Opened) \in Nat
    BY OpenedFinite DEF Opened
<1>3. ASSUME NEW t \in Trials, BeginOpen(w, t)
      PROVE  IInv'
    <2> DEFINE r == [Idle EXCEPT !.step = "lookup", !.trial = t]
    <2>1. r \in RequestStates
        <3>1. t \in 0..TrialCount
            BY GridAssumption DEF Trials
        <3>2. "lookup" \in OpeningSteps
            BY DEF OpeningSteps
        <3> QED BY IdleSound, <3>1, <3>2 DEF RequestStates
    <2>2. r.step = "lookup" /\ r.trial = t /\ r.complete = FALSE
        BY DEF Idle
    <2>3. OpeningSound(r) /\ AssessmentSound(r)
        BY <1>3, <2>2 DEF BeginOpen, OpeningSound, AssessmentSound, Survivors
    <2>4. req' = [req EXCEPT ![w] = r]
        BY <1>3 DEF BeginOpen, Begin
    <2> HIDE DEF r
    <2> QED BY <1>3, <2>1, <2>3, <2>4, RequestStep DEF BeginOpen
<1>4. CASE LookupOpening(w)
    <2> DEFINE to == IF req[w].trial \in Opened THEN "evaluate" ELSE "count"
               r == [req[w] EXCEPT !.step = to]
    <2>1. r \in RequestStates /\ OpeningSound(r) /\ AssessmentSound(r)
        BY <1>1, <1>4 DEF LookupOpening, Goto, RequestStates, OpeningSteps,
           OpeningSound, AssessmentSound
    <2>2. req' = [req EXCEPT ![w] = r]
        BY <1>4 DEF LookupOpening, Goto
    <2> HIDE DEF r
    <2> QED BY <1>4, <2>1, <2>2, RequestStep DEF LookupOpening
<1>5. CASE CountBudget(w)
    <2> DEFINE r == [req[w] EXCEPT !.step = "spend",
                                   !.sequence = Cardinality(Opened) + 1]
    <2>1. Cardinality(Opened) + 1 \in 0..Budget
        BY <1>2, <1>5, GridAssumption DEF CountBudget
    <2>2. r \in RequestStates
        BY <1>1, <2>1 DEF RequestStates, OpeningSteps
    <2>3. OpeningSound(r) /\ AssessmentSound(r)
        BY <1>1, <1>2, <1>5 DEF CountBudget, RequestStates, OpeningSteps,
           OpeningSound, AssessmentSound
    <2>4. req' = [req EXCEPT ![w] = r]
        BY <1>5 DEF CountBudget
    <2> HIDE DEF r
    <2> QED BY <1>5, <2>2, <2>3, <2>4, RequestStep DEF CountBudget
<1>6. CASE BudgetExhausted(w)
    BY <1>6, RespondStep DEF BudgetExhausted
<1>7. CASE SpendLosesTrial(w)
    <2> DEFINE r == [req[w] EXCEPT !.step = "evaluate"]
    <2>1. r \in RequestStates /\ OpeningSound(r) /\ AssessmentSound(r)
        BY <1>1, <1>7 DEF SpendLosesTrial, Goto, RequestStates, OpeningSteps,
           OpeningSound, AssessmentSound
    <2>2. req' = [req EXCEPT ![w] = r]
        BY <1>7 DEF SpendLosesTrial, Goto
    <2> HIDE DEF r
    <2> QED BY <1>7, <2>1, <2>2, RequestStep DEF SpendLosesTrial
<1>8. CASE SpendLosesSequence(w)
    BY <1>8, RespondStep DEF SpendLosesSequence
<1>9. CASE EvaluationFails(w)
    BY <1>9, RespondStep DEF EvaluationFails
<1> QED BY <1>3, <1>4, <1>5, <1>6, <1>7, <1>8, <1>9

\* Reading for a verdict.
LEMMA AssessmentMoves ==
    ASSUME IInv, NEW w \in Workers,
           BeginConclude(w) \/ ReadOutcomes(w) \/ Assess(w)
    PROVE  IInv'
<1>1. req[w] \in RequestStates /\ OpeningSound(req[w]) /\ AssessmentSound(req[w])
    BY DEF IInv, TypeOK
<1>2. CASE BeginConclude(w)
    <2> DEFINE complete == Complete
               survivors == (Survivors # {})
               r == [Idle EXCEPT !.step = "outcomes", !.complete = complete,
                                 !.survivors = survivors]
    <2>1. complete \in BOOLEAN /\ survivors \in BOOLEAN
        BY DEF Complete
    <2>2. complete => Complete /\ (survivors <=> Survivors # {})
        OBVIOUS
    <2>3. req' = [req EXCEPT ![w] = r]
        BY <1>2 DEF BeginConclude, Begin, Complete
    <2> HIDE DEF complete, survivors
    <2>4. r \in RequestStates
        BY <2>1, IdleSound DEF RequestStates
    <2>5. r.step = "outcomes" /\ r.complete = complete /\ r.survivors = survivors
        BY DEF Idle
    <2>6. OpeningSound(r) /\ AssessmentSound(r)
        BY <2>2, <2>5 DEF OpeningSteps, OpeningSound, AssessmentSound
    <2> HIDE DEF r
    <2> QED BY <1>2, <2>3, <2>4, <2>6, RequestStep DEF BeginConclude
<1>3. CASE ReadOutcomes(w)
    <2> DEFINE decisions == {outcomes[t] : t \in Decided}
               r == [req[w] EXCEPT !.step = "consumed", !.decisions = decisions]
    <2>1. decisions \in SUBSET Decisions
        BY DEF IInv, TypeOK, Decided
    <2>2. \A decision \in decisions : \E t \in Trials : outcomes[t] = decision
        BY DEF Decided
    <2>3. req' = [req EXCEPT ![w] = r]
        BY <1>3 DEF ReadOutcomes
    <2> HIDE DEF decisions
    <2>4. r \in RequestStates /\ OpeningSound(r)
        BY <1>1, <2>1 DEF RequestStates, OpeningSteps, OpeningSound
    <2>5. AssessmentSound(r)
        BY <1>1, <2>2 DEF AssessmentSound, RequestStates
    <2> HIDE DEF r
    <2> QED BY <1>3, <2>3, <2>4, <2>5, RequestStep DEF ReadOutcomes
<1>4. CASE Assess(w)
    <2>1. CASE "PASS" \in req[w].decisions
        <3> DEFINE r == [req[w] EXCEPT !.step = "conclude-pass"]
        <3>1. r \in RequestStates /\ OpeningSound(r) /\ AssessmentSound(r)
            BY <1>1, <1>4, <2>1 DEF Assess, RequestStates, OpeningSteps,
               OpeningSound, AssessmentSound
        <3>2. req' = [req EXCEPT ![w] = r]
            BY <1>4, <2>1 DEF Assess
        <3> HIDE DEF r
        <3> QED BY <1>4, <3>1, <3>2, RequestStep DEF Assess
    <2>2. CASE "PASS" \notin req[w].decisions /\ NoEdge(req[w], Cardinality(Opened))
        <3> DEFINE r == [req[w] EXCEPT !.step = "conclude-none"]
        <3>0. EmptyHasGround
            <4>1. /\ req[w].step = "consumed" /\ req[w].decisions \subseteq Decisions
                  /\ req[w].complete
                  /\ ~req[w].survivors \/ req[w].decisions # {} \/ Cardinality(Opened) >= Budget
                BY <1>1, <1>4, <2>2 DEF Assess, NoEdge, RequestStates
            <4>2. /\ Complete /\ (req[w].survivors <=> Survivors # {})
                  /\ \A decision \in req[w].decisions : \E t \in Trials : outcomes[t] = decision
                BY <1>1, <4>1 DEF AssessmentSound
            <4>3. req[w].decisions # {} => Decided # {}
                BY <4>1, <4>2 DEF Decided, Decisions
            <4> QED BY <4>1, <4>2, <4>3 DEF EmptyHasGround
        <3>1. r \in RequestStates /\ OpeningSound(r) /\ AssessmentSound(r)
            BY <1>1, <1>4, <3>0 DEF Assess, RequestStates, OpeningSteps,
               OpeningSound, AssessmentSound
        <3>2. req' = [req EXCEPT ![w] = r]
            BY <1>4, <2>2 DEF Assess
        <3> HIDE DEF r
        <3> QED BY <1>4, <3>1, <3>2, RequestStep DEF Assess
    <2>3. CASE "PASS" \notin req[w].decisions /\ ~NoEdge(req[w], Cardinality(Opened))
        <3>1. req' = [req EXCEPT ![w] = Idle]
            BY <1>4, <2>3 DEF Assess
        <3> QED BY <1>4, <3>1, IdleSound, RequestStep DEF Assess
    <2> QED BY <2>1, <2>2, <2>3
<1> QED BY <1>2, <1>3, <1>4

-----------------------------------------------------------------------------
(* The steps that write a ledger *)

\* One request moves to r while the ledgers grow.
LEMMA LedgerStep ==
    ASSUME IInv, TypeOK', NEW w \in Workers, NEW r \in RequestStates,
           req' = [req EXCEPT ![w] = r],
           OpeningSound(r)', AssessmentSound(r)', LedgersGrew
    PROVE  \A v \in Workers : (OpeningSound(req[v]) /\ AssessmentSound(req[v]))'
<1> SUFFICES ASSUME NEW v \in Workers
             PROVE  (OpeningSound(req[v]) /\ AssessmentSound(req[v]))'
    OBVIOUS
<1>1. CASE v = w
    <2>1. req'[v] = r
        BY <1>1 DEF IInv, TypeOK
    <2> QED BY <2>1 DEF OpeningSound, AssessmentSound
<1>2. CASE v # w
    <2>1. req'[v] = req[v] /\ req[v] \in RequestStates
        BY <1>2 DEF IInv, TypeOK
    <2>2. TypeOK /\ OpeningSound(req[v]) /\ AssessmentSound(req[v])
        BY DEF IInv
    <2>3. \A x \in RequestStates : OpeningSound(x) /\ AssessmentSound(x)
              => OpeningSound(x)' /\ AssessmentSound(x)'
        BY <2>2, LedgersGrow
    <2> QED BY <2>1, <2>2, <2>3 DEF OpeningSound, AssessmentSound
<1> QED BY <1>1, <1>2

\* A recorded point: survivors only grow, and nothing else changes.
LEMMA RecordTrialStep ==
    ASSUME IInv, NEW w \in Workers, RecordTrial(w)
    PROVE  IInv'
<1>1. PICK t \in req[w].todo, result \in Results :
          /\ trials' = IF trials[t] = "PENDING"
                          THEN [trials EXCEPT ![t] = result] ELSE trials
          /\ req' = [req EXCEPT ![w] =
                [req[w] EXCEPT !.step = "sweep", !.todo = req[w].todo \ {t}]]
    BY DEF RecordTrial
<1>2. req[w] \in RequestStates /\ t \in Trials
    BY DEF IInv, TypeOK, RequestStates
<1>3. PICK r \in RequestStates :
          r = [req[w] EXCEPT !.step = "sweep", !.todo = req[w].todo \ {t}]
    BY <1>2 DEF RequestStates
<1>4. /\ req' = [req EXCEPT ![w] = r]
      /\ r.step = "sweep" /\ r.complete = req[w].complete /\ r.survivors = req[w].survivors
    BY <1>1, <1>2, <1>3 DEF RequestStates
<1>5. UNCHANGED <<openings, evidence, outcomes, conclusion, grown>>
    BY DEF RecordTrial
<1>6. LedgersGrew
    <2>1. \A u \in Trials : trials[u] # "PENDING" => trials'[u] = trials[u]
        BY <1>1, <1>2 DEF IInv, TypeOK
    <2> QED BY <2>1, <1>5 DEF LedgersGrew
<1>7. TypeOK'
    <2>1. trials' \in [Trials -> Results \cup {"PENDING"}]
        BY <1>1, <1>2 DEF IInv, TypeOK
    <2> QED BY <2>1, <1>4, <1>5 DEF IInv, TypeOK
<1>8. Survivors \subseteq Survivors' /\ Opened' = Opened /\ Decided' = Decided
    BY <1>5, <1>6 DEF Survivors, Opened, Decided, LedgersGrew
<1>9. (NoRepeatedSequence)' /\ BudgetRespected' /\ FinalOosIsPaidFor'
    BY <1>5, <1>8 DEF IInv, NoRepeatedSequence, BudgetRespected, FinalOosIsPaidFor
<1>10. VerdictHasGround' /\ OutcomeHasEvidence'
    <2>1. TypeOK
        BY DEF IInv
    <2>2. EmptyHasGround => EmptyHasGround'
        BY <2>1, <1>6, <1>7, LedgerFacts
    <2> QED BY <2>2, <1>5, <1>8 DEF IInv, VerdictHasGround, OutcomeHasEvidence
<1>11. OpeningSound(r)' /\ AssessmentSound(r)'
    <2>1. AssessmentSound(req[w]) /\ TypeOK
        BY DEF IInv
    <2>2. Complete => Complete' /\ Survivors' = Survivors
        BY <2>1, <1>6, <1>7, LedgerFacts
    <2> QED BY <2>1, <2>2, <1>4 DEF OpeningSound, OpeningSteps, AssessmentSound
<1>12. \A v \in Workers : (OpeningSound(req[v]) /\ AssessmentSound(req[v]))'
    BY <1>4, <1>6, <1>7, <1>11, LedgerStep
<1> QED BY <1>7, <1>9, <1>10, <1>12 DEF IInv

\* The heart of the budget: a sequence number that is counted before it is
\* inserted is still the next one if the insertion succeeds.
LEMMA SpendUnitStep ==
    ASSUME IInv, NEW w \in Workers, SpendUnit(w)
    PROVE  IInv'
<1> DEFINE t == req[w].trial
           n == Cardinality(Opened)
<1>1. req[w] \in RequestStates /\ OpeningSound(req[w]) /\ AssessmentSound(req[w])
    BY DEF IInv, TypeOK
<1>2. /\ req[w].step = "spend" /\ t \in Survivors /\ t \in Trials /\ t \notin Opened
      /\ req[w].sequence \in 1..(n + 1) /\ req[w].sequence \in 0..Budget
    BY <1>1 DEF SpendUnit, Goto, OpeningSound, OpeningSteps, Survivors, RequestStates
<1>3. openings' = [openings EXCEPT ![t] = req[w].sequence]
    BY DEF SpendUnit
<1>4. UNCHANGED <<trials, evidence, outcomes, conclusion, grown>>
    BY DEF SpendUnit
<1>5. PICK r \in RequestStates : r = [req[w] EXCEPT !.step = "evaluate"]
    BY <1>1 DEF RequestStates, OpeningSteps
<1>6. /\ req' = [req EXCEPT ![w] = r]
      /\ r.step = "evaluate" /\ r.trial = t
      /\ r.complete = req[w].complete /\ r.survivors = req[w].survivors
    BY <1>1, <1>5 DEF SpendUnit, Goto, RequestStates
<1>7. n \in Nat /\ IsFiniteSet(Opened)
    BY OpenedFinite DEF Opened
<1>8. \A u \in Opened : openings[u] \in 1..n /\ openings[u] # req[w].sequence
    BY DEF IInv, BudgetRespected, SpendUnit, Opened
<1>9. req[w].sequence = n + 1
    <2>1. req[w].sequence \notin 1..n
        BY <1>8 DEF IInv, BudgetRespected
    <2> QED BY <2>1, <1>2, <1>7
<1>10. n + 1 <= Budget
    BY <1>2, <1>7, <1>9, GridAssumption
<1>11. /\ Opened' = Opened \cup {t}
       /\ openings'[t] = n + 1
       /\ \A u \in Opened : openings'[u] = openings[u]
    <2>1. \A u \in Trials : openings'[u] = IF u = t THEN n + 1 ELSE openings[u]
        BY <1>2, <1>3, <1>9 DEF IInv, TypeOK
    <2>2. n + 1 # 0
        BY <1>7
    <2> QED BY <2>1, <2>2, <1>2 DEF Opened
<1>12. Cardinality(Opened') = n + 1
    BY <1>2, <1>7, <1>11, FS_AddElement
<1> HIDE DEF t, n
<1>13. TypeOK'
    <2>1. openings' \in [Trials -> 0..Budget]
        BY <1>2, <1>3 DEF IInv, TypeOK
    <2> QED BY <2>1, <1>4, <1>5, <1>6 DEF IInv, TypeOK
<1>14. (NoRepeatedSequence)'
    <2>1. \A u \in Opened : openings'[u] # n + 1
        BY <1>8, <1>9, <1>11
    <2> QED BY <2>1, <1>11 DEF IInv, NoRepeatedSequence
<1>15. BudgetRespected'
    <2>1. {openings'[u] : u \in Opened'} = {openings[u] : u \in Opened} \cup {n + 1}
        BY <1>11
    <2>2. {openings[u] : u \in Opened} = 1..n
        BY DEF IInv, BudgetRespected, n
    <2>3. (1..n) \cup {n + 1} = 1..(n + 1)
        BY <1>7
    <2> QED BY <2>1, <2>2, <2>3, <1>10, <1>12 DEF BudgetRespected
<1>16. Survivors' = Survivors /\ Decided' = Decided /\ (Complete' <=> Complete)
    BY <1>4 DEF Survivors, Decided, Complete
<1>19. LedgersGrew
    <2>1. \A u \in Trials : openings[u] # 0 => openings'[u] = openings[u]
        BY <1>11 DEF Opened
    <2> QED BY <2>1, <1>4 DEF LedgersGrew
<1>17. FinalOosIsPaidFor' /\ VerdictHasGround' /\ OutcomeHasEvidence'
    <2>1. TypeOK
        BY DEF IInv
    <2>2. EmptyHasGround => EmptyHasGround'
        BY <2>1, <1>13, <1>19, LedgerFacts
    <2> QED BY <2>2, <1>4, <1>11, <1>16
            DEF IInv, FinalOosIsPaidFor, VerdictHasGround, OutcomeHasEvidence
<1>18. OpeningSound(r)' /\ AssessmentSound(r)'
    BY <1>1, <1>2, <1>4, <1>6, <1>11, <1>16 DEF OpeningSound, AssessmentSound
<1>20. \A v \in Workers : (OpeningSound(req[v]) /\ AssessmentSound(req[v]))'
    BY <1>5, <1>6, <1>13, <1>18, <1>19, LedgerStep
<1> QED BY <1>13, <1>14, <1>15, <1>17, <1>20 DEF IInv

\* Evidence is committed for a unit spent before.
LEMMA EvaluateGateStep ==
    ASSUME IInv, NEW w \in Workers, EvaluateGate(w)
    PROVE  IInv'
<1>1. /\ req[w] \in RequestStates /\ req[w].step = "evaluate"
      /\ OpeningSound(req[w]) /\ AssessmentSound(req[w])
    BY DEF IInv, TypeOK, EvaluateGate
<1>2. PICK decision \in Decisions :
          /\ evidence[req[w].trial][grown] \in {"NONE", decision}
          /\ evidence' = [evidence EXCEPT ![req[w].trial][grown] = decision]
          /\ req' = [req EXCEPT ![w] = [@ EXCEPT !.step = "record",
                                               !.decisions = {decision}]]
    BY DEF EvaluateGate
<1>3. UNCHANGED <<trials, openings, outcomes, conclusion, grown>>
    BY DEF EvaluateGate
<1>4. PICK r \in RequestStates :
          r = [req[w] EXCEPT !.step = "record", !.decisions = {decision}]
    BY <1>1 DEF RequestStates, OpeningSteps
<1>5. /\ req' = [req EXCEPT ![w] = r]
      /\ r.step = "record" /\ r.trial = req[w].trial /\ r.decisions = {decision}
      /\ r.complete = req[w].complete /\ r.survivors = req[w].survivors
    BY <1>1, <1>2, <1>4 DEF RequestStates
<1>6. req[w].trial \in Survivors /\ req[w].trial \in Opened /\ req[w].trial \in Trials
    BY <1>1 DEF OpeningSound, OpeningSteps, Survivors
<1>7. TypeOK'
    <2>1. evidence' \in [Trials -> [BOOLEAN -> Decisions \cup {"NONE"}]]
        BY <1>2, <1>6 DEF IInv, TypeOK
    <2> QED BY <2>1, <1>3, <1>5 DEF IInv, TypeOK
<1>8. /\ Survivors' = Survivors /\ Opened' = Opened /\ Decided' = Decided
      /\ Complete' <=> Complete
    BY <1>3 DEF Survivors, Opened, Decided, Complete
<1>9. /\ \A t \in Trials : t # req[w].trial => evidence'[t] = evidence[t]
      /\ \A version \in BOOLEAN : evidence'[req[w].trial][version] =
            IF version = grown THEN decision ELSE evidence[req[w].trial][version]
    BY <1>2, <1>6 DEF IInv, TypeOK
<1>14. LedgersGrew
    <2>1. ASSUME NEW t \in Trials, NEW version \in BOOLEAN, evidence[t][version] # "NONE"
          PROVE  evidence'[t][version] = evidence[t][version]
        BY <2>1, <1>2, <1>9
    <2> QED BY <2>1, <1>3 DEF LedgersGrew
<1>10. FinalOosIsPaidFor'
    BY <1>3, <1>6, <1>8, <1>9 DEF IInv, FinalOosIsPaidFor
<1>11. (NoRepeatedSequence)' /\ BudgetRespected' /\ VerdictHasGround'
    BY <1>3, <1>8 DEF IInv, NoRepeatedSequence, BudgetRespected, VerdictHasGround, EmptyHasGround
<1>15. OutcomeHasEvidence'
    <2>1. ASSUME NEW t \in Decided
          PROVE  \E version \in BOOLEAN : evidence'[t][version] = outcomes'[t]
        <3>1. t \in Trials /\ outcomes[t] # "NONE"
            BY DEF Decided
        <3>2. PICK version \in BOOLEAN : evidence[t][version] = outcomes[t]
            BY DEF IInv, OutcomeHasEvidence
        <3> QED BY <3>1, <3>2, <1>3, <1>14 DEF LedgersGrew
    <2> QED BY <2>1, <1>8 DEF OutcomeHasEvidence
<1>12. OpeningSound(r)' /\ AssessmentSound(r)'
    <2>1. evidence'[r.trial][grown] = decision /\ grown \in BOOLEAN
        BY <1>5, <1>9 DEF IInv, TypeOK
    <2> QED BY <2>1, <1>1, <1>3, <1>5, <1>6, <1>8 DEF OpeningSound, AssessmentSound
<1>13. \A v \in Workers : (OpeningSound(req[v]) /\ AssessmentSound(req[v]))'
    BY <1>5, <1>7, <1>12, <1>14, LedgerStep
<1> QED BY <1>7, <1>10, <1>11, <1>13, <1>15 DEF IInv

\* The request that answers is idle in the next state.
LEMMA IdleNext == OpeningSound(Idle)' /\ AssessmentSound(Idle)' /\ Idle \in RequestStates
BY IdleSound DEF Idle, OpeningSteps, OpeningSound, AssessmentSound

\* An outcome is recorded once, for a unit spent before.
LEMMA RecordOutcomeStep ==
    ASSUME IInv, NEW w \in Workers, RecordOutcome(w)
    PROVE  IInv'
<1>1. /\ req[w] \in RequestStates /\ req[w].step = "record" /\ OpeningSound(req[w])
      /\ req' = [req EXCEPT ![w] = Idle]
    BY DEF IInv, TypeOK, RecordOutcome, Respond
<1>2. PICK decision \in req[w].decisions :
          outcomes' = IF outcomes[req[w].trial] = "NONE"
                         THEN [outcomes EXCEPT ![req[w].trial] = decision]
                         ELSE outcomes
    BY DEF RecordOutcome
<1>3. decision \in Decisions
    BY <1>1 DEF RequestStates
<1>4. UNCHANGED <<trials, openings, evidence, conclusion, grown>>
    BY DEF RecordOutcome
<1>5. req[w].trial \in Survivors /\ req[w].trial \in Opened /\ req[w].trial \in Trials
    BY <1>1 DEF OpeningSound, OpeningSteps, Survivors
<1>6. \A t \in Trials : \/ outcomes'[t] = outcomes[t]
                        \/ t = req[w].trial /\ outcomes[t] = "NONE"
    BY <1>2 DEF IInv, TypeOK
<1>7. TypeOK'
    <2>1. outcomes' \in [Trials -> Decisions \cup {"NONE"}]
        BY <1>2, <1>3 DEF IInv, TypeOK
    <2> QED BY <2>1, <1>1, <1>4, IdleNext DEF IInv, TypeOK
<1>8. Survivors' = Survivors /\ Opened' = Opened
    BY <1>4 DEF Survivors, Opened
<1>13. LedgersGrew
    BY <1>4, <1>6 DEF LedgersGrew
<1>14. OutcomeHasEvidence'
    <2>1. ASSUME NEW t \in Trials, outcomes'[t] # "NONE"
          PROVE  \E version \in BOOLEAN : evidence[t][version] = outcomes'[t]
        <3>1. CASE outcomes'[t] = outcomes[t]
            BY <2>1, <3>1 DEF IInv, OutcomeHasEvidence, Decided
        <3>2. CASE t = req[w].trial /\ outcomes[t] = "NONE"
            <4>1. outcomes'[t] = decision
                BY <1>2, <1>5, <3>2 DEF IInv, TypeOK
            <4>2. \E version \in BOOLEAN : evidence[req[w].trial][version] = decision
                BY <1>1, <1>2 DEF OpeningSound
            <4> QED BY <3>2, <4>1, <4>2
        <3> QED BY <1>6, <3>1, <3>2
    <2> QED BY <2>1, <1>4 DEF OutcomeHasEvidence, Decided
<1>9. FinalOosIsPaidFor'
    BY <1>4, <1>5, <1>6, <1>8 DEF IInv, FinalOosIsPaidFor
<1>10. (NoRepeatedSequence)' /\ BudgetRespected'
    BY <1>4, <1>8 DEF IInv, NoRepeatedSequence, BudgetRespected
<1>11. VerdictHasGround'
    <2>1. TypeOK
        BY DEF IInv
    <2>2. EmptyHasGround => EmptyHasGround'
        BY <2>1, <1>7, <1>13, LedgerFacts
    <2> QED BY <2>2, <1>4, <1>6 DEF IInv, VerdictHasGround
<1>12. \A v \in Workers : (OpeningSound(req[v]) /\ AssessmentSound(req[v]))'
    BY <1>1, <1>7, <1>13, IdleNext, LedgerStep
<1> QED BY <1>7, <1>9, <1>10, <1>11, <1>12, <1>14 DEF IInv

\* A verdict rests on what its request read, and the ledgers kept it.
LEMMA RecordConclusionStep ==
    ASSUME IInv, NEW w \in Workers, RecordConclusion(w)
    PROVE  IInv'
<1>1. /\ req' = [req EXCEPT ![w] = Idle]
      /\ UNCHANGED <<trials, openings, evidence, outcomes, grown>>
    BY DEF RecordConclusion, Conclude, Respond
<1>2. AssessmentSound(req[w])
    BY DEF IInv
<1>3. \/ conclusion' = conclusion
      \/ /\ conclusion = "NONE" /\ conclusion' = "EDGE_CANDIDATE_FOUND"
         /\ \E t \in Trials : outcomes[t] = "PASS"
      \/ conclusion = "NONE" /\ conclusion' = "NO_EDGE_FOUND" /\ EmptyHasGround
    BY <1>2 DEF RecordConclusion, Conclude, Respond, AssessmentSound
<1>4. TypeOK'
    BY <1>1, <1>3, IdleNext DEF IInv, TypeOK, Verdicts
<1>6. /\ Survivors' = Survivors /\ Opened' = Opened /\ Decided' = Decided
      /\ Complete' <=> Complete
    BY <1>1 DEF Survivors, Opened, Decided, Complete
<1>5. VerdictHasGround'
    <2>1. EmptyHasGround => EmptyHasGround'
        BY <1>6 DEF EmptyHasGround
    <2> QED BY <2>1, <1>1, <1>3 DEF IInv, VerdictHasGround
<1>7. (NoRepeatedSequence)' /\ BudgetRespected' /\ FinalOosIsPaidFor' /\ OutcomeHasEvidence'
    BY <1>1, <1>6 DEF IInv, NoRepeatedSequence, BudgetRespected, FinalOosIsPaidFor,
       OutcomeHasEvidence
<1>9. LedgersGrew
    BY <1>1, <1>3 DEF LedgersGrew
<1>8. \A v \in Workers : (OpeningSound(req[v]) /\ AssessmentSound(req[v]))'
    BY <1>1, <1>4, <1>9, IdleNext, LedgerStep
<1> QED BY <1>4, <1>5, <1>7, <1>8 DEF IInv

\* The dataset grows, the service restarts, or nothing happens.
LEMMA EnvironmentStep ==
    ASSUME IInv, DatasetGrows \/ Crash \/ UNCHANGED vars
    PROVE  IInv'
<1>1. /\ UNCHANGED ledgers /\ grown' \in BOOLEAN
      /\ \A v \in Workers : req'[v] = req[v] \/ req'[v] = Idle
      /\ req' \in [Workers -> RequestStates]
    BY IdleSound DEF IInv, TypeOK, DatasetGrows, Crash, vars
<1>2. TypeOK'
    BY <1>1 DEF IInv, TypeOK, ledgers
<1>3. /\ (NoRepeatedSequence)' /\ BudgetRespected' /\ FinalOosIsPaidFor'
      /\ VerdictHasGround' /\ OutcomeHasEvidence'
    BY <1>1, SameLedgers DEF IInv
<1>4. ASSUME NEW v \in Workers
      PROVE  (OpeningSound(req[v]) /\ AssessmentSound(req[v]))'
    <2>1. OpeningSound(req'[v]) /\ AssessmentSound(req'[v])
        BY <1>1, IdleSound DEF IInv
    <2>2. \A x : OpeningSound(x) /\ AssessmentSound(x) => OpeningSound(x)' /\ AssessmentSound(x)'
        BY <1>1, SameLedgers
    <2> QED BY <2>1, <2>2 DEF OpeningSound, AssessmentSound
<1> QED BY <1>2, <1>3, <1>4 DEF IInv

\* Every step keeps the invariant.
LEMMA IInvStep == IInv /\ [Next]_vars => IInv'
<1> SUFFICES ASSUME IInv, [Next]_vars PROVE IInv'
    OBVIOUS
<1>1. ASSUME NEW w \in Workers, Sweep(w)
      PROVE  IInv'
    BY <1>1, SweepMoves, RecordTrialStep DEF Sweep
<1>2. ASSUME NEW w \in Workers, Open(w)
      PROVE  IInv'
    BY <1>2, OpeningMoves, SpendUnitStep, EvaluateGateStep, RecordOutcomeStep DEF Open
<1>3. ASSUME NEW w \in Workers, Verdict(w)
      PROVE  IInv'
    BY <1>3, AssessmentMoves, RecordConclusionStep DEF Verdict
<1> QED BY <1>1, <1>2, <1>3, EnvironmentStep DEF Next

-----------------------------------------------------------------------------
(* Theorems *)

\* The inductive invariant of the campaign.
THEOREM CampaignInvariant == Spec => []IInv
<1> QED BY IInvStep, InitIInv, PTL DEF Spec

\* Every variable of the campaign keeps its type.
THEOREM CampaignTypes == Spec => []TypeOK
<1>1. IInv => TypeOK
    BY DEF IInv
<1> QED BY <1>1, CampaignInvariant, PTL

\* No number of concurrent openings overspends the budget or leaves a gap in
\* its ledger.
THEOREM BudgetSafety == Spec => []BudgetRespected
<1>1. IInv => BudgetRespected
    BY DEF IInv
<1> QED BY <1>1, CampaignInvariant, PTL

\* Final OOS is never read for free.
THEOREM FinalOosSafety == Spec => []FinalOosIsPaidFor
<1>1. IInv => FinalOosIsPaidFor
    BY DEF IInv
<1> QED BY <1>1, CampaignInvariant, PTL

\* A recorded verdict has its ground in the ledgers.
THEOREM VerdictSafety == Spec => []VerdictHasGround
<1>1. IInv => VerdictHasGround
    BY DEF IInv
<1> QED BY <1>1, CampaignInvariant, PTL

\* Every step of the campaign lets its ledgers grow.
LEMMA NextGrows ==
    ASSUME IInv, [Next]_vars
    PROVE  LedgersGrew
<1>1. ASSUME UNCHANGED ledgers
      PROVE  LedgersGrew
    BY <1>1 DEF ledgers, LedgersGrew
<1>2. ASSUME NEW w \in Workers, Sweep(w)
      PROVE  LedgersGrew
    <2>1. CASE RecordTrial(w)
        BY <2>1 DEF RecordTrial, IInv, TypeOK, LedgersGrew
    <2> QED BY <1>1, <1>2, <2>1 DEF Sweep, BeginSweep, StartTrial, EndSweep
<1>3. ASSUME NEW w \in Workers, Open(w)
      PROVE  LedgersGrew
    <2>1. CASE SpendUnit(w)
        BY <2>1 DEF SpendUnit, Opened, IInv, TypeOK, LedgersGrew
    <2>2. CASE EvaluateGate(w)
        <3>1. req[w].trial \in Trials
            BY <2>2 DEF EvaluateGate, IInv, OpeningSound, OpeningSteps, Survivors
        <3>2. PICK decision \in Decisions :
                  /\ evidence[req[w].trial][grown] \in {"NONE", decision}
                  /\ evidence' = [evidence EXCEPT ![req[w].trial][grown] = decision]
            BY <2>2 DEF EvaluateGate
        <3>3. ASSUME NEW t \in Trials, NEW version \in BOOLEAN, evidence[t][version] # "NONE"
              PROVE  evidence'[t][version] = evidence[t][version]
            BY <3>1, <3>2, <3>3 DEF IInv, TypeOK
        <3> QED BY <2>2, <3>3 DEF EvaluateGate, LedgersGrew
    <2>3. CASE RecordOutcome(w)
        BY <2>3 DEF RecordOutcome, IInv, TypeOK, LedgersGrew
    <2> QED BY <1>1, <1>3, <2>1, <2>2, <2>3
            DEF Open, BeginOpen, LookupOpening, CountBudget, BudgetExhausted,
                SpendLosesTrial, SpendLosesSequence, EvaluationFails
<1>4. ASSUME NEW w \in Workers, Verdict(w)
      PROVE  LedgersGrew
    <2>1. CASE RecordConclusion(w)
        BY <2>1 DEF RecordConclusion, Conclude, LedgersGrew
    <2> QED BY <1>1, <1>4, <2>1 DEF Verdict, BeginConclude, ReadOutcomes, Assess
<1>5. CASE DatasetGrows \/ Crash \/ UNCHANGED vars
    BY <1>1, <1>5 DEF DatasetGrows, Crash, vars
<1> QED BY <1>2, <1>3, <1>4, <1>5 DEF Next

\* What a ledger records it keeps.
THEOREM LedgerSafety == Spec => LedgersAreAppendOnly
<1>1. LedgersGrew => \/ /\ \A t \in Trials :
                             /\ trials[t] # "PENDING" => trials'[t] = trials[t]
                             /\ t \in Opened => openings'[t] = openings[t]
                             /\ outcomes[t] # "NONE" => outcomes'[t] = outcomes[t]
                        /\ conclusion # "NONE" => conclusion' = conclusion
                     \/ UNCHANGED vars
    BY DEF LedgersGrew, Opened
<1>2. IInv /\ [Next]_vars => LedgersGrew
    BY NextGrows
<1> QED BY <1>1, <1>2, CampaignInvariant, PTL DEF Spec, LedgersAreAppendOnly

-----------------------------------------------------------------------------
(* The campaign runs EdgeSearch *)

\* A step of the campaign is a step of EdgeSearch, or leaves its variables.
LEMMA CampaignStep ==
    ASSUME IInv, [CampaignNext]_allVars
    PROVE  [Next]_vars
<1>1. CASE Run
    BY <1>1 DEF Run, Next
<1>2. CASE Grow
    BY <1>2 DEF Grow, Next
<1>3. CASE Restart
    <2>1. CASE \A w \in Workers : req[w] = Idle
        <3>1. req = [w \in Workers |-> Idle]
            BY <2>1 DEF IInv, TypeOK
        <3> QED BY <1>3, <3>1 DEF Restart, vars
    <2>2. CASE \E w \in Workers : req[w] # Idle
        BY <1>3, <2>2 DEF Restart, Crash, Next
    <2> QED BY <2>1, <2>2
<1>4. CASE UNCHANGED allVars
    BY <1>4 DEF allVars
<1>5. CASE AuditStep
    BY <1>5 DEF AuditStep, BeginAudit, ListTrials, ListOpenings, ListOutcomes, ReadConclusion,
       AssessTrials, AssessOutcomes, MaterializeVerification, Audit
<1>6. CASE RegisterCampaign \/ \E payload \in Payloads : ValidatePayload(payload)
    BY <1>6 DEF RegisterCampaign, ValidatePayload
<1>7. CASE \E t \in Trials : MeasureBreadth(t) \/ PromoteStrategy(t)
    BY <1>7 DEF MeasureBreadth, PromoteStrategy
<1> QED BY <1>1, <1>2, <1>3, <1>4, <1>5, <1>6, <1>7 DEF CampaignNext

-----------------------------------------------------------------------------
(* What the verifier and the breadth measurement hold while the ledgers grow *)

LEMMA RowsKept ==
    ASSUME CampaignInv, TypeOK', LedgersGrew, UNCHANGED verifications,
           Registered => UNCHANGED campaign
    PROVE  RowsSound' /\ PassedRowAgrees' /\ FailureHasGround'
<1>1. TypeOK /\ RowsSound /\ PassedRowAgrees /\ FailureHasGround
    BY DEF CampaignInv, IInv
<1>2. verifications # {} => UNCHANGED campaign /\ Registered'
    BY <1>1 DEF RowsSound, Registered
<1>3. Decided \subseteq Decided' /\ \A t \in Decided : outcomes'[t] = outcomes[t]
    BY DEF LedgersGrew, Decided
<1>4. \A row \in verifications : \A t \in row.decided : outcomes'[t] = outcomes[t]
    BY <1>1, <1>3 DEF RowsSound
<1>5. (\E t \in Trials : outcomes[t] = "PASS") => \E t \in Trials : outcomes'[t] = "PASS"
    BY <1>1, LedgerFacts DEF Decisions
<1>6. RowsSound' /\ PassedRowAgrees'
    BY <1>1, <1>2, <1>3, <1>4 DEF RowsSound, PassedRowAgrees
<1>7. FailureHasGround'
    BY <1>1, <1>2, <1>5 DEF FailureHasGround
<1> QED BY <1>6, <1>7

LEMMA BreadthKept ==
    ASSUME CampaignInv, UNCHANGED breadth, Registered => UNCHANGED campaign
    PROVE  BreadthSound' /\ (breadth = [t \in Trials |-> breadth[t]])'
BY DEF CampaignInv, BreadthSound, Registered

\* What the verifier has read of growing ledgers.
LEMMA AuditKept ==
    ASSUME CampaignInv, TypeOK', LedgersGrew, UNCHANGED <<audit, registry>>,
           Registered => UNCHANGED campaign
    PROVE  AuditSound(audit)'
<1> PICK a : a = audit
    OBVIOUS
<1>1. TypeOK /\ AuditSound(a)
    BY DEF CampaignInv, IInv, AuditSound
<1>2. a.step # "idle" => Registered' /\ (a.base \/ ~BlocksKept(registry)')
    BY <1>1 DEF AuditSound, Registered, BlocksKept
<1>3. /\ Decided \subseteq Decided' /\ \A t \in Decided : outcomes'[t] = outcomes[t]
      /\ (\E t \in Trials : outcomes[t] = "PASS") => \E t \in Trials : outcomes'[t] = "PASS"
      /\ EmptyHasGround => EmptyHasGround'
      /\ Survivors \subseteq Survivors'
      /\ Cardinality(Opened) \in Nat /\ Cardinality(Opened') \in Nat
      /\ Cardinality(Opened) <= Cardinality(Opened')
    BY <1>1, LedgerFacts DEF LedgersGrew, Decided, Decisions
<1>4. Cardinality(Opened) >= Budget => Cardinality(Opened') >= Budget
    BY <1>3, GridAssumption
<1>5. a \in AuditStates' /\ a.decided \subseteq Decided'
    BY <1>1, <1>3 DEF AuditSound, AuditStates
<1>6. /\ a.verdict = "EDGE_CANDIDATE_FOUND" => \E t \in Trials : outcomes'[t] = "PASS"
      /\ a.verdict = "NO_EDGE_FOUND" => EmptyHasGround'
      /\ a.step \in {"assess outcomes", "materialize"} /\ a.verdict = "NO_EDGE_FOUND" =>
            a.read.complete /\ (a.read.survivors => Survivors' # {})
    BY <1>1, <1>3 DEF AuditSound
<1>7. a.step = "materialize" =>
          /\ \A t \in a.decided : outcomes'[t] \in a.read.decisions
          /\ "PASS" \in a.read.decisions => \E t \in Trials : outcomes'[t] = "PASS"
          /\ a.verdict = "EDGE_CANDIDATE_FOUND" => "PASS" \in a.read.decisions
          /\ a.verdict = "NO_EDGE_FOUND" =>
                \/ ~a.read.survivors \/ a.read.decisions # {} \/ Cardinality(Opened') >= Budget
    <2>1. a.step = "materialize" => \A t \in a.decided : outcomes'[t] \in a.read.decisions
        BY <1>1, <1>3 DEF AuditSound
    <2> QED BY <2>1, <1>1, <1>3, <1>4 DEF AuditSound
<1>8. AuditSound(a)'
    BY <1>2, <1>5, <1>6, <1>7 DEF AuditSound
<1>9. a = audit'
    OBVIOUS
<1> QED BY <1>8, <1>9 DEF AuditSound

-----------------------------------------------------------------------------
(* The steps of the verifier *)

LEMMA NothingLost ==
    ASSUME CampaignInv, UNCHANGED vars
    PROVE  IInv' /\ TypeOK' /\ LedgersGrew
BY IInvStep, NextGrows DEF CampaignInv, IInv

LEMMA AuditMoves ==
    ASSUME CampaignInv, NEW b, AuditSound(b), audit' = b,
           UNCHANGED <<vars, surroundings, evidenceRows>>
    PROVE  CampaignInv'
<1>1. IInv' /\ TypeOK' /\ LedgersGrew
    BY NothingLost
<1>2. UNCHANGED <<ledgers, campaign, registry, verifications, breadth>>
    BY DEF vars, surroundings, evidenceRows
<1>3. RowsSound' /\ PassedRowAgrees' /\ FailureHasGround'
    BY <1>1, <1>2, RowsKept
<1>4. BreadthSound' /\ (breadth = [t \in Trials |-> breadth[t]])'
    BY <1>2, BreadthKept
<1>5. CampaignSound'
    BY <1>2 DEF CampaignInv, CampaignSound
<1>6. /\ Registered' = Registered /\ BlocksKept(registry)' = BlocksKept(registry)
      /\ Decided' = Decided /\ Survivors' = Survivors /\ Opened' = Opened
      /\ EmptyHasGround' <=> EmptyHasGround
      /\ outcomes' = outcomes
    BY <1>2, SameLedgers DEF Registered, BlocksKept, ledgers
<1>8. AuditSound(b)'
    BY <1>6 DEF AuditSound
<1>7. AuditSound(audit)'
    BY <1>8 DEF AuditSound
<1> QED BY <1>1, <1>3, <1>4, <1>5, <1>7 DEF CampaignInv

\* The blocks of the campaign are all those of its grid, so a registry that still
\* defines them alike lacks none.
LEMMA DependenciesDomain ==
    ASSUME NEW defined, NEW grid
    PROVE  DOMAIN Dependencies(defined, grid) = UsedBlocks(grid) \cap DOMAIN defined
BY DEF Dependencies, Restrict

\* The verifier's own checks hold, unless the blocks were redefined.
LEMMA BaseChecks ==
    ASSUME CampaignInv, campaign # None, BlocksKept(registry)
    PROVE  CampaignChecks
<1>1. BudgetRespected
    BY DEF CampaignInv, IInv
<1>2. GridRecord(campaign.grid.dimensions) = campaign.grid
    BY GridsAssumption DEF CampaignInv, CampaignSound
<1>3. UsedBlocks(campaign.grid) \subseteq DOMAIN registry
    BY DependenciesDomain DEF CampaignInv, CampaignSound, BlocksKept
<1> QED BY <1>1, <1>2, <1>3 DEF CampaignChecks, Recomputed, BudgetRespected, BlocksKept

LEMMA NoAuditSound == AuditSound(NoAudit)
<1>1. NoAudit \in AuditStates /\ NoAudit.step = "idle" /\ NoAudit.decided = {}
      /\ NoAudit.verdict = "NONE"
    BY DEF NoAudit, AuditStates
<1> QED BY <1>1 DEF AuditSound

\* It begins, and lists trials, openings, outcomes and the conclusion.
LEMMA ListingStep ==
    ASSUME CampaignInv,
           BeginAudit \/ ListTrials \/ ListOpenings \/ ListOutcomes \/ ReadConclusion
    PROVE  CampaignInv'
<1>1. UNCHANGED <<vars, surroundings, evidenceRows>>
    BY DEF BeginAudit, ListTrials, ListOpenings, ListOutcomes, ReadConclusion, Audit
<1>2. TypeOK /\ VerdictHasGround /\ audit \in AuditStates /\ AuditSound(audit)
    BY DEF CampaignInv, IInv, AuditSound
<1>3. CASE BeginAudit
    <2>1. PICK b : b = [NoAudit EXCEPT !.base = CampaignChecks, !.step = "trials"]
        OBVIOUS
    <2>2. Registered /\ audit' = b
        BY <1>3, <2>1 DEF BeginAudit, Audit
    <2>3. CampaignChecks \in BOOLEAN
        BY DEF CampaignChecks
    <2>4. /\ b \in AuditStates /\ b.step = "trials" /\ b.decided = {} /\ b.verdict = "NONE"
          /\ b.base = CampaignChecks
        BY <2>1, <2>3, NoAuditSound DEF AuditSound, NoAudit, AuditStates
    <2>5. b.base \/ ~BlocksKept(registry)
        BY <2>2, <2>4, BaseChecks DEF Registered
    <2>6. AuditSound(b)
        BY <2>2, <2>4, <2>5 DEF AuditSound
    <2> QED BY <1>1, <2>2, <2>6, AuditMoves
<1>4. CASE ListTrials
    <2>1. PICK b : b = [audit EXCEPT !.survivors = Survivors, !.step = "openings"]
        OBVIOUS
    <2>2. audit.step = "trials" /\ audit' = b
        BY <1>4, <2>1 DEF ListTrials, Audit
    <2>3. b \in AuditStates /\ b.step = "openings" /\ b.base = audit.base
          /\ b.decided = audit.decided /\ b.verdict = audit.verdict
        BY <1>2, <2>1 DEF AuditStates, Survivors
    <2>4. AuditSound(b)
        BY <1>2, <2>2, <2>3 DEF AuditSound
    <2> QED BY <1>1, <2>2, <2>4, AuditMoves
<1>5. CASE ListOpenings
    <2>1. PICK b : b = [audit EXCEPT !.opened = Opened, !.step = "outcomes"]
        OBVIOUS
    <2>2. audit.step = "openings" /\ audit' = b
        BY <1>5, <2>1 DEF ListOpenings, Audit
    <2>3. b \in AuditStates /\ b.step = "outcomes" /\ b.base = audit.base
          /\ b.decided = audit.decided /\ b.verdict = audit.verdict
        BY <1>2, <2>1 DEF AuditStates, Opened
    <2>4. AuditSound(b)
        BY <1>2, <2>2, <2>3 DEF AuditSound
    <2> QED BY <1>1, <2>2, <2>4, AuditMoves
<1>6. CASE ListOutcomes
    <2>1. PICK b : b = [audit EXCEPT !.decided = Decided, !.step = "conclusion"]
        OBVIOUS
    <2>2. audit.step = "outcomes" /\ audit' = b
        BY <1>6, <2>1 DEF ListOutcomes, Audit
    <2>3. b \in AuditStates /\ b.step = "conclusion" /\ b.base = audit.base
          /\ b.decided = Decided /\ b.verdict = audit.verdict
        BY <1>2, <2>1 DEF AuditStates, Decided
    <2>4. AuditSound(b)
        BY <1>2, <2>2, <2>3 DEF AuditSound
    <2> QED BY <1>1, <2>2, <2>4, AuditMoves
<1>7. CASE ReadConclusion
    <2>1. PICK b : b = [audit EXCEPT !.verdict = conclusion, !.step = "assess trials"]
        OBVIOUS
    <2>2. audit.step = "conclusion" /\ audit' = b
        BY <1>7, <2>1 DEF ReadConclusion, Audit
    <2>3. b \in AuditStates /\ b.step = "assess trials" /\ b.base = audit.base
          /\ b.decided = audit.decided /\ b.verdict = conclusion
        BY <1>2, <2>1 DEF AuditStates, TypeOK
    <2>4. AuditSound(b)
        BY <1>2, <2>2, <2>3 DEF AuditSound, VerdictHasGround
    <2> QED BY <1>1, <2>2, <2>4, AuditMoves
<1> QED BY <1>3, <1>4, <1>5, <1>6, <1>7

\* Its assessment reads trials and outcomes once more: later than the conclusion it
\* compares with, so they show at least what that rests on.
LEMMA AssessmentStep ==
    ASSUME CampaignInv, AssessTrials \/ AssessOutcomes
    PROVE  CampaignInv'
<1>1. UNCHANGED <<vars, surroundings, evidenceRows>>
    BY DEF AssessTrials, AssessOutcomes, Audit
<1>2. TypeOK /\ audit \in AuditStates /\ AuditSound(audit)
    BY DEF CampaignInv, IInv, AuditSound
<1>3. CASE AssessTrials
    <2>1. PICK b : b = [audit EXCEPT !.read.complete = Complete, !.read.survivors = (Survivors # {}),
                                     !.step = "assess outcomes"]
        OBVIOUS
    <2>2. audit.step = "assess trials" /\ audit' = b
        BY <1>3, <2>1 DEF AssessTrials, Audit, Complete
    <2>3. b \in AuditStates /\ b.step = "assess outcomes" /\ b.base = audit.base
          /\ b.decided = audit.decided /\ b.verdict = audit.verdict
          /\ b.read.complete = Complete /\ b.read.survivors = (Survivors # {})
        BY <1>2, <2>1 DEF AuditStates, Complete
    <2>4. AuditSound(b)
        BY <1>2, <2>2, <2>3 DEF AuditSound, EmptyHasGround
    <2> QED BY <1>1, <2>2, <2>4, AuditMoves
<1>4. CASE AssessOutcomes
    <2>1. PICK b : b = [audit EXCEPT !.read.decisions = {outcomes[t] : t \in Decided},
                                     !.step = "materialize"]
        OBVIOUS
    <2>2. audit.step = "assess outcomes" /\ audit' = b
        BY <1>4, <2>1 DEF AssessOutcomes, Audit
    <2>3. {outcomes[t] : t \in Decided} \in SUBSET Decisions
        BY <1>2 DEF TypeOK, Decided
    <2>4. b \in AuditStates /\ b.step = "materialize" /\ b.base = audit.base
          /\ b.decided = audit.decided /\ b.verdict = audit.verdict
          /\ b.read.complete = audit.read.complete /\ b.read.survivors = audit.read.survivors
          /\ b.read.decisions = {outcomes[t] : t \in Decided}
        BY <1>2, <2>1, <2>3 DEF AuditStates
    <2>5. /\ \A t \in b.decided : outcomes[t] \in b.read.decisions
          /\ "PASS" \in b.read.decisions => \E t \in Trials : outcomes[t] = "PASS"
          /\ b.verdict = "EDGE_CANDIDATE_FOUND" => "PASS" \in b.read.decisions
        BY <1>2, <2>4 DEF AuditSound, Decided
    <2>6. b.verdict = "NO_EDGE_FOUND" =>
              \/ ~b.read.survivors \/ b.read.decisions # {} \/ Cardinality(Opened) >= Budget
        <3>1. Decided # {} => b.read.decisions # {}
            BY <2>4
        <3> QED BY <1>2, <2>2, <2>4, <3>1 DEF AuditSound, EmptyHasGround
    <2>7. AuditSound(b)
        BY <1>2, <2>2, <2>4, <2>5, <2>6 DEF AuditSound
    <2> QED BY <1>1, <2>2, <2>7, AuditMoves
<1> QED BY <1>3, <1>4

\* What it has read decides the row: the argument of both PassedRowAgrees and
\* FailureHasGround.
LEMMA RowRead ==
    ASSUME CampaignInv, audit.step = "materialize"
    PROVE  /\ ChainChecks(audit) /\ audit.verdict = "NO_EDGE_FOUND" =>
                  \A t \in audit.decided : outcomes[t] # "PASS"
           /\ \/ ChainChecks(audit)
              \/ ~BlocksKept(registry)
              \/ audit.decided \cap promoted # {}
              \/ audit.verdict = "NO_EDGE_FOUND" /\ \E t \in Trials : outcomes[t] = "PASS"
              \/ ~(audit.decided \subseteq audit.opened \cap audit.survivors)
<1> DEFINE a == audit
<1>1. /\ a \in AuditStates /\ AuditSound(a) /\ a.step = "materialize"
      /\ OutcomeHasEvidence
    BY DEF CampaignInv, IInv, AuditSound
<1> HIDE DEF a
<1>2. /\ a.decided \subseteq Decided
      /\ a.base \/ ~BlocksKept(registry)
      /\ \A t \in a.decided : outcomes[t] \in a.read.decisions
      /\ "PASS" \in a.read.decisions => \E t \in Trials : outcomes[t] = "PASS"
      /\ a.verdict = "EDGE_CANDIDATE_FOUND" => "PASS" \in a.read.decisions
      /\ a.verdict \in Verdicts \cup {"NONE"}
    BY <1>1 DEF AuditSound, AuditStates
<1>3. a.verdict = "NO_EDGE_FOUND" =>
          "PASS" \in a.read.decisions \/ NoEdge(a.read, Cardinality(Opened))
    BY <1>1 DEF AuditSound, NoEdge
<1>4. /\ "PASS" \in a.read.decisions <=> Assessed(a.read) = "EDGE_CANDIDATE_FOUND"
      /\ "PASS" \notin a.read.decisions /\ NoEdge(a.read, Cardinality(Opened))
            => Assessed(a.read) = "NO_EDGE_FOUND"
    BY DEF Assessed, NoEdge
<1>5. ASSUME ChainChecks(a), a.verdict = "NO_EDGE_FOUND", NEW t \in a.decided
      PROVE  outcomes[t] # "PASS"
    <2>1. Assessed(a.read) = "NO_EDGE_FOUND"
        BY <1>5 DEF ChainChecks
    <2> QED BY <2>1, <1>2, <1>4
<1>6. ASSUME BlocksKept(registry), a.decided \cap promoted = {},
             a.decided \subseteq a.opened \cap a.survivors, ~ChainChecks(a)
      PROVE  a.verdict = "NO_EDGE_FOUND" /\ \E t \in Trials : outcomes[t] = "PASS"
    <2>1. a.verdict \notin {"NONE", Assessed(a.read)}
        <3>1. \A t \in a.decided : \E version \in BOOLEAN : evidence[t][version] = outcomes[t]
            BY <1>1, <1>2 DEF OutcomeHasEvidence
        <3> QED BY <3>1, <1>2, <1>6 DEF ChainChecks
    <2>2. a.verdict = "NO_EDGE_FOUND"
        BY <2>1, <1>2, <1>4 DEF Verdicts
    <2> QED BY <2>1, <2>2, <1>2, <1>3, <1>4
<1> QED BY <1>5, <1>6 DEF a

\* The row is stored, or is there already.
LEMMA MaterializeStep ==
    ASSUME CampaignInv, MaterializeVerification
    PROVE  CampaignInv'
<1>1. /\ UNCHANGED <<vars, surroundings, breadth>> /\ audit' = NoAudit
      /\ audit.step = "materialize"
    BY DEF MaterializeVerification
<1>2. IInv' /\ TypeOK' /\ LedgersGrew
    BY <1>1, NothingLost
<1>3. UNCHANGED <<ledgers, campaign, registry, breadth>>
    BY <1>1 DEF vars, surroundings
<1>4. PICK row :
          /\ row = [passed |-> ChainChecks(audit), survivors |-> audit.survivors,
                    opened |-> audit.opened, decided |-> audit.decided, verdict |-> audit.verdict,
                    promoted |-> audit.decided \cap promoted, registry |-> registry]
          /\ verifications' = verifications \cup {row}
    BY DEF MaterializeVerification
<1>5. /\ audit \in AuditStates /\ AuditSound(audit) /\ Registered
      /\ audit.decided \subseteq Decided
    BY <1>1 DEF CampaignInv, AuditSound
<1>6. Registered' /\ Decided' = Decided /\ outcomes' = outcomes
    BY <1>3, <1>5, SameLedgers DEF Registered, ledgers
<1>7. RowsSound'
    BY <1>4, <1>5, <1>6 DEF CampaignInv, RowsSound
<1>8. PassedRowAgrees'
    <2>1. row.passed /\ row.verdict = "NO_EDGE_FOUND" => \A t \in row.decided : outcomes[t] # "PASS"
        BY <1>1, <1>4, RowRead
    <2> QED BY <2>1, <1>4, <1>6 DEF CampaignInv, PassedRowAgrees
<1>9. FailureHasGround'
    <2>1. \/ row.passed
          \/ Dependencies(row.registry, campaign.grid) # campaign.dependencies
          \/ row.promoted # {}
          \/ row.verdict = "NO_EDGE_FOUND" /\ \E t \in Trials : outcomes[t] = "PASS"
          \/ ~(row.decided \subseteq row.opened \cap row.survivors)
        BY <1>1, <1>4, RowRead DEF BlocksKept
    <2> QED BY <2>1, <1>3, <1>4, <1>6 DEF CampaignInv, FailureHasGround
<1>10. AuditSound(audit)'
    <2>1. NoAudit \in AuditStates /\ NoAudit.step = "idle" /\ NoAudit.decided = {}
          /\ NoAudit.verdict = "NONE"
        BY DEF NoAudit, AuditStates
    <2> QED BY <2>1, <1>1 DEF AuditSound
<1>11. CampaignSound'
    BY <1>3 DEF CampaignInv, CampaignSound
<1>12. BreadthSound' /\ (breadth = [t \in Trials |-> breadth[t]])'
    BY <1>3, BreadthKept
<1> QED BY <1>2, <1>7, <1>8, <1>9, <1>10, <1>11, <1>12 DEF CampaignInv

-----------------------------------------------------------------------------
(* The other steps of a campaign *)

\* Nothing of a campaign exists before it is registered.
LEMMA BeforeRegistration ==
    ASSUME CampaignInv, ~Registered,
           UNCHANGED <<vars, registry, promoted, evidenceRows, audit>>, CampaignSound'
    PROVE  CampaignInv'
<1>1. IInv' /\ TypeOK' /\ LedgersGrew
    BY NothingLost
<1>2. UNCHANGED <<ledgers, registry, verifications, breadth, audit>>
    BY DEF vars, evidenceRows
<1>3. /\ RowsSound' /\ PassedRowAgrees' /\ FailureHasGround' /\ BreadthSound'
      /\ (breadth = [t \in Trials |-> breadth[t]])'
    BY <1>1, <1>2, RowsKept, BreadthKept
<1>4. AuditSound(audit)'
    BY <1>1, <1>2, AuditKept
<1> QED BY <1>1, <1>3, <1>4 DEF CampaignInv

LEMMA ValidateStep ==
    ASSUME CampaignInv, NEW payload \in Payloads, ValidatePayload(payload)
    PROVE  CampaignInv'
<1> DEFINE d == payload.dimensions
           grid == GridRecord(d)
           points == Points(d)
<1>1. /\ campaign = None
      /\ campaign' = [recorded |-> FALSE, dataset |-> grown, grid |-> grid,
                      dependencies |-> Dependencies(registry, grid)]
      /\ WellDeclared(d)
      /\ \A point \in Range(points) : Blocks(Contract(point)) \subseteq DOMAIN registry
    BY DEF ValidatePayload, Ready, Executable
<1>2. grid \in Grids
    BY <1>1 DEF Grids
<1>3. UsedBlocks(grid) \subseteq DOMAIN registry
    <2>1. /\ DOMAIN grid.trials = DOMAIN points
          /\ \A i \in DOMAIN points : grid.trials[i].contract = Contract(points[i])
        BY DEF GridRecord
    <2>2. \A i \in DOMAIN points : points[i] \in Range(points)
        BY DEF Range
    <2> HIDE DEF grid, points, d
    <2> QED BY <2>1, <2>2, <1>1 DEF UsedBlocks
<1>4. DOMAIN Dependencies(registry, grid) = UsedBlocks(grid)
    BY <1>3, DependenciesDomain
<1> HIDE DEF grid, points, d
<1>5. PICK c : c = [recorded |-> FALSE, dataset |-> grown, grid |-> grid,
                    dependencies |-> Dependencies(registry, grid)]
    OBVIOUS
<1>6. CampaignSound'
    <2>1. /\ c = [recorded |-> c.recorded, dataset |-> c.dataset, grid |-> c.grid,
                  dependencies |-> c.dependencies]
          /\ c.recorded = FALSE /\ c.grid \in Grids
          /\ DOMAIN c.dependencies = UsedBlocks(c.grid)
        BY <1>2, <1>4, <1>5
    <2> QED BY <2>1, <1>1, <1>5 DEF CampaignSound
<1>7. ~Registered
    BY <1>1 DEF Registered
<1> QED BY <1>6, <1>7, BeforeRegistration DEF ValidatePayload

LEMMA RegisterStep ==
    ASSUME CampaignInv, RegisterCampaign
    PROVE  CampaignInv'
<1>1. campaign # None /\ ~Registered /\ campaign' = [campaign EXCEPT !.recorded = TRUE]
    BY DEF RegisterCampaign, Registered
<1>2. PICK c : c = campaign
    OBVIOUS
<1>3. /\ c = [recorded |-> c.recorded, dataset |-> c.dataset, grid |-> c.grid,
              dependencies |-> c.dependencies]
      /\ c.grid \in Grids /\ DOMAIN c.dependencies = UsedBlocks(c.grid)
    BY <1>1, <1>2 DEF CampaignInv, CampaignSound
<1>4. campaign' = [recorded |-> TRUE, dataset |-> c.dataset, grid |-> c.grid,
                   dependencies |-> c.dependencies]
    BY <1>1, <1>2, <1>3
<1>5. CampaignSound'
    BY <1>3, <1>4 DEF CampaignSound
<1> QED BY <1>1, <1>5, BeforeRegistration DEF RegisterCampaign

\* Sweeps, openings, conclusions and the growing dataset move the ledgers alone.
LEMMA LedgersStep ==
    ASSUME CampaignInv, [Next]_vars, UNCHANGED <<surroundings, evidenceRows, audit>>
    PROVE  CampaignInv'
<1>1. IInv /\ IInv' /\ TypeOK' /\ LedgersGrew
    BY IInvStep, NextGrows DEF CampaignInv, IInv
<1>2. UNCHANGED <<campaign, registry, verifications, breadth, audit>>
    BY DEF surroundings, evidenceRows
<1>3. /\ RowsSound' /\ PassedRowAgrees' /\ FailureHasGround' /\ BreadthSound'
      /\ (breadth = [t \in Trials |-> breadth[t]])'
    BY <1>1, <1>2, RowsKept, BreadthKept
<1>4. AuditSound(audit)'
    BY <1>1, <1>2, AuditKept
<1>5. CampaignSound'
    BY <1>2 DEF CampaignInv, CampaignSound
<1> QED BY <1>1, <1>3, <1>4, <1>5 DEF CampaignInv

\* A strategy of the campaign is promoted elsewhere.
LEMMA PromoteStep ==
    ASSUME CampaignInv, NEW t \in Trials, PromoteStrategy(t)
    PROVE  CampaignInv'
<1>1. UNCHANGED <<vars, ledgers, campaign, registry, verifications, breadth, audit>>
    BY DEF PromoteStrategy, evidenceRows, vars
<1>2. IInv' /\ TypeOK' /\ LedgersGrew
    BY <1>1, NothingLost
<1>3. /\ RowsSound' /\ PassedRowAgrees' /\ FailureHasGround' /\ BreadthSound'
      /\ (breadth = [u \in Trials |-> breadth[u]])'
    BY <1>1, <1>2, RowsKept, BreadthKept
<1>4. AuditSound(audit)'
    BY <1>1, <1>2, AuditKept
<1>5. CampaignSound'
    BY <1>1 DEF CampaignInv, CampaignSound
<1> QED BY <1>2, <1>3, <1>4, <1>5 DEF CampaignInv

\* A measured row agrees with every row of the same span and blocks.
LEMMA BreadthStep ==
    ASSUME CampaignInv, NEW t \in Trials, MeasureBreadth(t)
    PROVE  CampaignInv'
<1>1. /\ UNCHANGED <<vars, surroundings, verifications, audit>> /\ Registered
    BY DEF MeasureBreadth
<1>2. UNCHANGED <<ledgers, campaign, registry, verifications, audit>>
    BY <1>1 DEF surroundings, vars
<1>3. IInv' /\ TypeOK' /\ LedgersGrew
    BY <1>1, NothingLost
<1>4. RowsSound' /\ PassedRowAgrees' /\ FailureHasGround'
    BY <1>2, <1>3, RowsKept
<1>5. AuditSound(audit)'
    BY <1>2, <1>3, AuditKept
<1>6. CampaignSound'
    BY <1>2 DEF CampaignInv, CampaignSound
<1>7. PICK row :
          /\ row.span = campaign.dataset
          /\ \A r \in breadth[t] : r.span = row.span /\ r.blocks = row.blocks => r.within = row.within
          /\ breadth' = [breadth EXCEPT ![t] = @ \cup {row}]
    BY DEF MeasureBreadth, RecordedSpan
<1>8. breadth = [u \in Trials |-> breadth[u]] /\ BreadthSound
    BY DEF CampaignInv
<1>9. \A u \in Trials : breadth'[u] = IF u = t THEN breadth[t] \cup {row} ELSE breadth[u]
    BY <1>7, <1>8
<1>10. (breadth = [u \in Trials |-> breadth[u]])'
    BY <1>7, <1>8
<1>11. BreadthSound'
    <2>1. Registered' /\ campaign' = campaign
        BY <1>1, <1>2 DEF Registered
    <2>2. ASSUME NEW u \in Trials, NEW r \in breadth'[u], NEW s \in breadth'[u]
          PROVE  r.span = campaign.dataset /\ (r.blocks = s.blocks => r.within = s.within)
        <3>1. CASE u # t
            BY <3>1, <1>8, <1>9, <2>2 DEF BreadthSound
        <3>2. CASE u = t
            <4>1. r \in breadth[t] \cup {row} /\ s \in breadth[t] \cup {row}
                BY <3>2, <1>9, <2>2
            <4>2. \A x \in breadth[t] : x.span = campaign.dataset
                BY <1>8 DEF BreadthSound
            <4>3. \A x, y \in breadth[t] : x.blocks = y.blocks => x.within = y.within
                BY <1>8 DEF BreadthSound
            <4> QED BY <4>1, <4>2, <4>3, <1>7
        <3> QED BY <3>1, <3>2
    <2> QED BY <2>1, <2>2 DEF BreadthSound
<1> QED BY <1>3, <1>4, <1>5, <1>6, <1>10, <1>11 DEF CampaignInv

\* A restart forgets requests and a campaign not yet committed, and may bring a
\* registry in which blocks of the campaign mean something else.
LEMMA RestartStep ==
    ASSUME CampaignInv, Restart
    PROVE  CampaignInv'
<1>1. /\ audit' = NoAudit /\ campaign' = IF Registered THEN campaign ELSE None
      /\ UNCHANGED <<ledgers, grown, promoted, verifications, breadth>>
    BY DEF Restart, evidenceRows
<1>2. IInv' /\ TypeOK' /\ LedgersGrew
    <2>1. [Next]_vars /\ IInv
        BY CampaignStep DEF CampaignInv, CampaignNext
    <2> QED BY <2>1, IInvStep, NextGrows DEF IInv
<1>3. /\ RowsSound' /\ PassedRowAgrees' /\ FailureHasGround' /\ BreadthSound'
      /\ (breadth = [t \in Trials |-> breadth[t]])'
    BY <1>1, <1>2, RowsKept, BreadthKept
<1>4. AuditSound(audit)'
    <2>1. NoAudit \in AuditStates /\ NoAudit.step = "idle" /\ NoAudit.decided = {}
          /\ NoAudit.verdict = "NONE"
        BY DEF NoAudit, AuditStates
    <2> QED BY <2>1, <1>1 DEF AuditSound
<1>5. CampaignSound'
    BY <1>1 DEF CampaignInv, CampaignSound
<1> QED BY <1>2, <1>3, <1>4, <1>5 DEF CampaignInv

LEMMA CampaignInitInv == CampaignInit => CampaignInv
<1> SUFFICES ASSUME CampaignInit PROVE CampaignInv
    OBVIOUS
<1>1. IInv
    BY InitIInv DEF CampaignInit
<1>2. campaign = None /\ verifications = {} /\ breadth = [t \in Trials |-> {}] /\ audit = NoAudit
    BY DEF CampaignInit
<1>3. AuditSound(audit)
    BY <1>2, NoAuditSound
<1>4. CampaignSound /\ RowsSound /\ BreadthSound /\ PassedRowAgrees /\ FailureHasGround
    BY <1>2 DEF CampaignSound, RowsSound, BreadthSound, PassedRowAgrees, FailureHasGround
<1> QED BY <1>1, <1>2, <1>3, <1>4 DEF CampaignInv

LEMMA CampaignInvStep == CampaignInv /\ [CampaignNext]_allVars => CampaignInv'
<1> SUFFICES ASSUME CampaignInv, [CampaignNext]_allVars PROVE CampaignInv'
    OBVIOUS
<1>1. IInv /\ [Next]_vars
    BY CampaignStep DEF CampaignInv
<1>2. CASE Run \/ Grow \/ UNCHANGED allVars
    BY <1>1, <1>2, LedgersStep DEF Run, Grow, allVars
<1>3. CASE AuditStep
    BY <1>3, ListingStep, AssessmentStep, MaterializeStep DEF AuditStep
<1>4. CASE RegisterCampaign \/ \E payload \in Payloads : ValidatePayload(payload)
    BY <1>4, ValidateStep, RegisterStep
<1>5. CASE \E t \in Trials : MeasureBreadth(t) \/ PromoteStrategy(t)
    BY <1>5, BreadthStep, PromoteStep
<1> QED BY <1>2, <1>3, <1>4, <1>5, RestartStep DEF CampaignNext

-----------------------------------------------------------------------------
(* Theorems about the campaign *)

\* The ledgers, the verifier's reads and rows, and the breadth rows agree, whatever
\* requests, releases, promotions and restarts come between.
THEOREM RegisteredCampaign == CampaignSpec => []CampaignInv
BY CampaignInitInv, CampaignInvStep, PTL DEF CampaignSpec

\* A pre-registered, verified and measured campaign is a run of EdgeSearch: what is
\* proved of it holds of the campaign.
THEOREM CampaignImplementsSearch == CampaignSpec => Spec
<1>1. CampaignInit => Init
    BY DEF CampaignInit
<1>2. CampaignInv /\ [CampaignNext]_allVars => [Next]_vars
    BY CampaignStep DEF CampaignInv
<1> QED BY <1>1, <1>2, RegisteredCampaign, PTL DEF CampaignSpec, Spec

\* A PASSED verification never carries an empty verdict beside a gate that passed.
THEOREM PassedRowSafety == CampaignSpec => []PassedRowAgrees
<1>1. CampaignInv => PassedRowAgrees
    BY DEF CampaignInv
<1> QED BY <1>1, RegisteredCampaign, PTL

\* A FAILED verification has a ground in the world it read.
THEOREM FailureSafety == CampaignSpec => []FailureHasGround
<1>1. CampaignInv => FailureHasGround
    BY DEF CampaignInv
<1> QED BY <1>1, RegisteredCampaign, PTL

\* However often the breadth of the survivors was measured, and on which growth of
\* the dataset: one selection follows.
THEOREM SelectionSafety == CampaignSpec => []SelectionIsDetermined
<1>1. CampaignInv => SelectionIsDetermined
    <2> SUFFICES ASSUME CampaignInv,
                        \A t \in Trials : \A r, s \in breadth[t] : r.blocks = s.blocks
                 PROVE  Cardinality(Selections) = 1
        BY DEF SelectionIsDetermined
    <2>1. \A t \in Trials : \A r, s \in breadth[t] : r.within = s.within
        BY DEF CampaignInv, BreadthSound
    <2> DEFINE rows == UNION {breadth[t] : t \in Trials}
               choices == {f \in [Measured -> rows] : \A t \in Measured : f[t] \in breadth[t]}
               first == [t \in Measured |-> CHOOSE r \in breadth[t] : TRUE]
               picked == {t \in Measured : first[t].within}
    <2>2. Measured \subseteq Trials /\ \A t \in Measured : breadth[t] # {}
        BY DEF Measured, Survivors
    <2>3. first \in choices
        BY <2>2
    <2>4. \A f \in choices : \A t \in Measured : f[t].within = first[t].within
        BY <2>1, <2>2, <2>3
    <2>5. \A f \in choices : {t \in Measured : f[t].within} = picked
        BY <2>4
    <2>6. Selections = {{t \in Measured : f[t].within} : f \in choices}
        BY DEF Selections
    <2>7. Selections = {picked}
        <3> HIDE DEF choices, picked
        <3> QED BY <2>3, <2>5, <2>6
    <2> QED BY <2>7, FS_Singleton
<1> QED BY <1>1, RegisteredCampaign, PTL
=============================================================================
