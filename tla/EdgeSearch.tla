----------------------------- MODULE EdgeSearch -----------------------------
(***************************************************************************)
(* One pre-registered edge-search campaign: the bounded sweep of its grid  *)
(* (edge_search_execution.py), the rationed openings of final OOS          *)
(* (open_final_oos, open_and_evaluate) and its verdict (assess_conclusion, *)
(* record_conclusion).  Every table is append-only; exclusion comes from   *)
(* the unique constraints alone.                                           *)
(*                                                                         *)
(* A lookup followed by an INSERT whose IntegrityError returns the winner  *)
(* has the effect of one atomic "record unless recorded" and is one step.  *)
(* Counting the openings and inserting the next one are two.               *)
(***************************************************************************)
EXTENDS Integers, FiniteSets

CONSTANTS
    TrialCount, \* points of the frozen grid, in trial_index order
    Budget,     \* final_oos_budget
    Workers     \* requests the service can have in flight

ASSUME GridAssumption == TrialCount \in Nat /\ Budget \in Nat

VARIABLES
    trials,     \* recorded result of each grid point
    openings,   \* sequence number of the trial's opening, 0 if unopened
    evidence,   \* committed OosValidation of a trial, per dataset version
    outcomes,   \* gate decision of the trial's outcome
    conclusion, \* the recorded verdict
    grown,      \* the registered dataset has changed since pre-registration
    req         \* the request each worker is serving

ledgers == <<trials, openings, evidence, outcomes, conclusion>>
vars == <<ledgers, grown, req>>

Trials == 1..TrialCount
Sequences == 1..Budget

\* NO_SURVIVOR stands for EXECUTED without a holdout survivor and for
\* INSUFFICIENT_EVIDENCE; the decision FAIL for INSUFFICIENT_EVIDENCE too.
Results == {"SURVIVOR", "NO_SURVIVOR", "FAILED"}
Decisions == {"PASS", "FAIL"}
Verdicts == {"EDGE_CANDIDATE_FOUND", "NO_EDGE_FOUND"}

Opened == {t \in Trials : openings[t] # 0}
Survivors == {t \in Trials : trials[t] = "SURVIVOR"}
Decided == {t \in Trials : outcomes[t] # "NONE"}

\* todo: grid points left to a sweep.  trial, sequence: an opening.
\* complete, survivors, decisions: what the request has read so far.
Idle == [step |-> "idle", todo |-> {}, trial |-> 0, sequence |-> 0,
         complete |-> FALSE, survivors |-> FALSE, decisions |-> {}]

OpeningSteps == {"lookup", "count", "spend", "evaluate", "record"}
RequestStates ==
    [step : {"idle", "sweep", "replay", "outcomes", "consumed",
             "conclude-pass", "conclude-none"} \cup OpeningSteps,
     todo : SUBSET Trials, trial : 0..TrialCount, sequence : 0..Budget,
     complete : BOOLEAN, survivors : BOOLEAN, decisions : SUBSET Decisions]

-----------------------------------------------------------------------------
Begin(w, fields) == req[w].step = "idle" /\ req' = [req EXCEPT ![w] = fields]

Goto(w, from, to) == req[w].step = from /\ req' = [req EXCEPT ![w].step = to]

Respond(w, from) == req[w].step = from /\ req' = [req EXCEPT ![w] = Idle]

-----------------------------------------------------------------------------
(* execute: pending grid points in frozen order *)

\* max_trials keeps a prefix of the pending points.
BeginSweep(w) ==
    /\ \E last \in Trials :
          Begin(w, [Idle EXCEPT !.step = "sweep",
                    !.todo = {t \in 1..last : trials[t] = "PENDING"}])
    /\ UNCHANGED <<ledgers, grown>>

\* The dataset still matches the campaign; the next point is replayed.
StartTrial(w) ==
    /\ req[w].todo # {} /\ ~grown
    /\ Goto(w, "sweep", "replay")
    /\ UNCHANGED <<ledgers, grown>>

\* Slip: a point recorded as FAILED is tried again.
RecordTrialAgain(w) ==
    /\ req[w].step = "replay"
    /\ \E t \in req[w].todo, result \in Results :
          /\ \A u \in req[w].todo : t <= u
          /\ trials' = IF trials[t] \in {"PENDING", "FAILED"}
                          THEN [trials EXCEPT ![t] = result] ELSE trials
          /\ req' = [req EXCEPT ![w] = [req[w] EXCEPT !.step = "sweep",
                                                 !.todo = @ \ {t}]]
    /\ UNCHANGED <<openings, evidence, outcomes, conclusion, grown>>

\* What the replay over train and holdout gave is recorded, an exception
\* included; a point that another sweep recorded keeps its result.
RecordTrial(w) ==
    /\ req[w].step = "replay"
    /\ \E t \in req[w].todo, result \in Results :
          /\ \A u \in req[w].todo : t <= u
          /\ trials' = IF trials[t] = "PENDING"
                          THEN [trials EXCEPT ![t] = result] ELSE trials
          /\ req' = [req EXCEPT ![w] = [req[w] EXCEPT !.step = "sweep",
                                                 !.todo = @ \ {t}]]
    /\ UNCHANGED <<openings, evidence, outcomes, conclusion, grown>>

\* Nothing is left, or the dataset's fingerprint no longer matches.
EndSweep(w) ==
    /\ req[w].todo = {} \/ grown
    /\ Respond(w, "sweep")
    /\ UNCHANGED <<ledgers, grown>>

-----------------------------------------------------------------------------
(* open_and_evaluate *)

\* Authorized for a survivor without an outcome; its candidate and version
\* are materialized idempotently.
BeginOpen(w, t) ==
    /\ trials[t] = "SURVIVOR" /\ outcomes[t] = "NONE"
    /\ Begin(w, [Idle EXCEPT !.step = "lookup", !.trial = t])
    /\ UNCHANGED <<ledgers, grown>>

\* An opening of the trial is reused and costs nothing more.
LookupOpening(w) ==
    /\ Goto(w, "lookup", IF req[w].trial \in Opened THEN "evaluate" ELSE "count")
    /\ UNCHANGED <<ledgers, grown>>

CountBudget(w) ==
    /\ req[w].step = "count"
    /\ Cardinality(Opened) < Budget
    /\ req' = [req EXCEPT ![w] = [@ EXCEPT !.step = "spend",
                                           !.sequence = Cardinality(Opened) + 1]]
    /\ UNCHANGED <<ledgers, grown>>

BudgetExhausted(w) ==
    /\ Cardinality(Opened) >= Budget
    /\ Respond(w, "count")
    /\ UNCHANGED <<ledgers, grown>>

\* Slip: no unique constraint on (campaign, sequence).
SpendUnitUnchecked(w) ==
    /\ Goto(w, "spend", "evaluate")
    /\ req[w].trial \notin Opened
    /\ openings' = [openings EXCEPT ![req[w].trial] = req[w].sequence]
    /\ UNCHANGED <<trials, evidence, outcomes, conclusion, grown>>

\* Both unique constraints hold.
SpendUnit(w) ==
    /\ Goto(w, "spend", "evaluate")
    /\ req[w].trial \notin Opened
    /\ \A t \in Trials : openings[t] # req[w].sequence
    /\ openings' = [openings EXCEPT ![req[w].trial] = req[w].sequence]
    /\ UNCHANGED <<trials, evidence, outcomes, conclusion, grown>>

\* IntegrityError: the trial's own opening is the winner.
SpendLosesTrial(w) ==
    /\ req[w].trial \in Opened
    /\ Goto(w, "spend", "evaluate")
    /\ UNCHANGED <<ledgers, grown>>

\* IntegrityError: another trial took the sequence number; the request fails.
SpendLosesSequence(w) ==
    /\ req[w].trial \notin Opened
    /\ \E t \in Trials : openings[t] = req[w].sequence
    /\ Respond(w, "spend")
    /\ UNCHANGED <<ledgers, grown>>

\* The accepted gate over all three splits: evidence of this strategy on this
\* dataset is computed once, and found again by its fingerprint.
EvaluateGate(w) ==
    /\ req[w].step = "evaluate"
    /\ \E decision \in Decisions :
          /\ evidence[req[w].trial][grown] \in {"NONE", decision}
          /\ evidence' = [evidence EXCEPT ![req[w].trial][grown] = decision]
          /\ req' = [req EXCEPT ![w] = [@ EXCEPT !.step = "record",
                                               !.decisions = {decision}]]
    /\ UNCHANGED <<trials, openings, outcomes, conclusion, grown>>

EvaluationFails(w) ==
    /\ Respond(w, "evaluate")
    /\ UNCHANGED <<ledgers, grown>>

\* One outcome per opening; the loser answers with the winner's.
RecordOutcome(w) ==
    /\ Respond(w, "record")
    /\ \E decision \in req[w].decisions :
          outcomes' = IF outcomes[req[w].trial] = "NONE"
                         THEN [outcomes EXCEPT ![req[w].trial] = decision]
                         ELSE outcomes
    /\ UNCHANGED <<trials, openings, evidence, conclusion, grown>>

-----------------------------------------------------------------------------
(* assess_conclusion and record_conclusion: one query after another *)

\* The trials are read.
BeginConclude(w) ==
    /\ Begin(w, [Idle EXCEPT !.step = "outcomes",
                  !.complete = \A t \in Trials : trials[t] # "PENDING",
                  !.survivors = (Survivors # {})])
    /\ UNCHANGED <<ledgers, grown>>

ReadOutcomes(w) ==
    /\ req[w].step = "outcomes"
    /\ req' = [req EXCEPT ![w] = [@ EXCEPT !.step = "consumed",
                                  !.decisions = {outcomes[t] : t \in Decided}]]
    /\ UNCHANGED <<ledgers, grown>>

\* NO_EDGE_FOUND, given what the request has read.
NoEdge(r, consumed) ==
    /\ "PASS" \notin r.decisions
    /\ r.complete
    /\ ~r.survivors \/ r.decisions # {} \/ consumed >= Budget

Assess(w) ==
    /\ req[w].step = "consumed"
    /\ req' = [req EXCEPT ![w] =
          IF "PASS" \in req[w].decisions THEN [@ EXCEPT !.step = "conclude-pass"]
          ELSE IF NoEdge(req[w], Cardinality(Opened))
                  THEN [@ EXCEPT !.step = "conclude-none"]
                  ELSE Idle]
    /\ UNCHANGED <<ledgers, grown>>

\* One conclusion per campaign; the first recorded is answered for ever.
Conclude(w, from, verdict) ==
    /\ Respond(w, from)
    /\ conclusion' = IF conclusion = "NONE" THEN verdict ELSE conclusion
    /\ UNCHANGED <<trials, openings, evidence, outcomes, grown>>

RecordConclusion(w) ==
    \/ Conclude(w, "conclude-pass", "EDGE_CANDIDATE_FOUND")
    \/ Conclude(w, "conclude-none", "NO_EDGE_FOUND")

-----------------------------------------------------------------------------
\* A market-data sync appends bars to the dataset (bounded: once).
DatasetGrows ==
    /\ ~grown /\ grown' = TRUE
    /\ UNCHANGED <<ledgers, req>>

\* The service restarts; committed rows stay.
Crash ==
    /\ \E w \in Workers : req[w] # Idle
    /\ req' = [w \in Workers |-> Idle]
    /\ UNCHANGED <<ledgers, grown>>

Init ==
    /\ trials = [t \in Trials |-> "PENDING"]
    /\ openings = [t \in Trials |-> 0]
    /\ evidence = [t \in Trials |-> [version \in BOOLEAN |-> "NONE"]]
    /\ outcomes = [t \in Trials |-> "NONE"]
    /\ conclusion = "NONE"
    /\ grown = FALSE
    /\ req = [w \in Workers |-> Idle]

Sweep(w) == BeginSweep(w) \/ StartTrial(w) \/ RecordTrial(w) \/ EndSweep(w)

Open(w) ==
    \/ \E t \in Trials : BeginOpen(w, t)
    \/ LookupOpening(w) \/ CountBudget(w) \/ BudgetExhausted(w)
    \/ SpendUnit(w) \/ SpendLosesTrial(w) \/ SpendLosesSequence(w)
    \/ EvaluateGate(w) \/ EvaluationFails(w) \/ RecordOutcome(w)

Verdict(w) == BeginConclude(w) \/ ReadOutcomes(w) \/ Assess(w) \/ RecordConclusion(w)

Next ==
    \/ \E w \in Workers : Sweep(w) \/ Open(w) \/ Verdict(w)
    \/ DatasetGrows
    \/ Crash

Spec == Init /\ [][Next]_vars

-----------------------------------------------------------------------------
(* Safety *)

\* Every variable holds a value of its type.
TypeOK ==
    /\ trials \in [Trials -> Results \cup {"PENDING"}]
    /\ openings \in [Trials -> 0..Budget]
    /\ evidence \in [Trials -> [BOOLEAN -> Decisions \cup {"NONE"}]]
    /\ outcomes \in [Trials -> Decisions \cup {"NONE"}]
    /\ conclusion \in Verdicts \cup {"NONE"}
    /\ grown \in BOOLEAN
    /\ req \in [Workers -> RequestStates]

\* The budget ledger of verify: no more openings than the budget, numbered
\* 1..n without a gap or a repetition, however many requests count and insert
\* at the same time.
BudgetRespected ==
    /\ Cardinality(Opened) <= Budget
    /\ {openings[t] : t \in Opened} = 1..Cardinality(Opened)

\* Final OOS is read only for a holdout survivor whose unit is spent already
\* ("a crash after this point must still cost a unit").
FinalOosIsPaidFor ==
    \A t \in Trials :
        (\E version \in BOOLEAN : evidence[t][version] # "NONE") \/ outcomes[t] # "NONE"
            => t \in Opened \cap Survivors

\* The ledgers allow an empty verdict, and allow it for ever: the grid is complete,
\* and it has no survivor, or one was evaluated, or none can be any more.
Complete == \A t \in Trials : trials[t] # "PENDING"
EmptyHasGround ==
    /\ Complete
    /\ Survivors = {} \/ Decided # {} \/ Cardinality(Opened) >= Budget

\* A verdict has its ground in the ledgers, although it is drawn from three reads
\* of them: a candidate is a recorded PASS, an empty result what the ledgers allow.
VerdictHasGround ==
    /\ conclusion = "EDGE_CANDIDATE_FOUND" => \E t \in Trials : outcomes[t] = "PASS"
    /\ conclusion = "NO_EDGE_FOUND" => EmptyHasGround

\* A recorded outcome is what the gate found on some version of the dataset.
OutcomeHasEvidence ==
    \A t \in Decided : \E version \in BOOLEAN : evidence[t][version] = outcomes[t]

\* What each step of an opening, and of an assessment, can rely on.
OpeningSound(r) ==
    /\ r.step \in OpeningSteps => r.trial \in Survivors
    /\ r.step \in {"evaluate", "record"} => r.trial \in Opened
    /\ r.step = "spend" => r.sequence \in 1..(Cardinality(Opened) + 1)
    /\ r.step = "record" => \A decision \in r.decisions :
          \E version \in BOOLEAN : evidence[r.trial][version] = decision

AssessmentSound(r) ==
    /\ r.complete => Complete /\ (r.survivors <=> Survivors # {})
    /\ r.step \in {"consumed", "conclude-pass", "conclude-none"} =>
          \A decision \in r.decisions : \E t \in Trials : outcomes[t] = decision
    /\ r.step = "conclude-pass" => "PASS" \in r.decisions
    /\ r.step = "conclude-none" => EmptyHasGround

NoRepeatedSequence == \A t, u \in Opened : openings[t] = openings[u] => t = u

\* The conjunction that every step preserves.
IInv ==
    /\ TypeOK
    /\ NoRepeatedSequence
    /\ BudgetRespected
    /\ FinalOosIsPaidFor
    /\ VerdictHasGround
    /\ OutcomeHasEvidence
    /\ \A w \in Workers : OpeningSound(req[w]) /\ AssessmentSound(req[w])

-----------------------------------------------------------------------------
(* Action properties *)

\* What a ledger records it keeps: no resumed sweep, retried opening or
\* concurrent writer replaces a result, an opening, a gate decision or a
\* verdict.
LedgersAreAppendOnly ==
    [][/\ \A t \in Trials :
             /\ trials[t] # "PENDING" => trials'[t] = trials[t]
             /\ t \in Opened => openings'[t] = openings[t]
             /\ outcomes[t] # "NONE" => outcomes'[t] = outcomes[t]
       /\ conclusion # "NONE" => conclusion' = conclusion]_vars
=============================================================================
