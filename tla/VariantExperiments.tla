------------------------- MODULE VariantExperiments -------------------------
(***************************************************************************)
(* One confirmed variant experiment: the train run over its frozen matrix  *)
(* (variant_train_runs.py), the holdout run with its selection lock        *)
(* (variant_holdout_runs.py), the Owner-confirmed final OOS of the         *)
(* selected revision (variant_revision_lifecycle.py, oos_validation.py)    *)
(* and the materialized verification of the whole chain                    *)
(* (variant_experiment_verification.py).                                   *)
(*                                                                         *)
(* Each stage has one row, found by its fingerprint and held by a lease: a *)
(* claim takes the row over when its last heartbeat is 30 minutes old, a   *)
(* verification when it was claimed 10 minutes ago.                        *)
(* Claims decide under SELECT ... FOR UPDATE; the writes of a worker that  *)
(* claimed the row go to its primary key and check nothing, also when its  *)
(* lease ran out and another worker took the row over.  The registered     *)
(* dataset grows underneath all of this.                                   *)
(***************************************************************************)
EXTENDS Integers

CONSTANTS
    Rows,             \* row counts the registered M1 asset can have, never 0
    Declared,         \* its row count when the experiment was confirmed
    Matrix,           \* variants of the frozen matrix, in ordinal order
    Baseline,         \* ordinal of the immutable baseline
    Workers           \* requests the service can have in flight

ASSUME ExperimentAssumption ==
    /\ Rows \subseteq Nat \ {0} /\ Declared \in Rows
    /\ Matrix \in Nat /\ Baseline \in 1..Matrix

VARIABLES
    rows,      \* current row count of the asset
    row,       \* VariantTrainRun, VariantHoldoutRun,
               \* VariantRevisionConfirmation, VariantExperimentVerification
    lock,      \* VariantSelectionLock of the holdout run
    revision,  \* StrategyVersion with the selected contract's checksum
    evidence,  \* gate decision of the revision's OosValidation, per row count
    verdict,   \* result of the completed verification
    req,       \* the request each worker is serving
    overtaken  \* a worker has lost its row while it was still at work

tables == <<row, lock, revision, evidence, verdict>>
vars == <<rows, tables, req, overtaken>>

Kinds == {"train", "holdout", "confirm", "verify"}
Finished == {"COMPLETED", "OOS_REVIEWED", "VALIDATED"}
\* INSUFFICIENT_EVIDENCE is treated like FAIL everywhere.
Decisions == {"PASS", "FAIL"}
Verdicts == {"NONE", "PASSED", "FAILED"}

\* at: the row count whose partition the recorded evidence is about.
RunRows == [status : {"ABSENT", "RUNNING", "FAILED"} \cup Finished,
            result : {"none", "progress", "evidence", "error"},
            fresh : BOOLEAN, at : Rows]
Absent == [status |-> "ABSENT", result |-> "none", fresh |-> FALSE,
           at |-> Declared]

\* lineage: whose selection the version names.  validated: the row count of
\* the evidence it is validated by, 0 while it is CONTRACT_VALID.
Revisions == [lineage : {"absent", "selected", "foreign"},
              validated : {0} \cup Rows]

Idle == [step |-> "idle", kind |-> "train", at |-> Declared, done |-> 0,
         verdict |-> "NONE"]
HoldingSteps == {"bounds", "evaluate", "finish"}
Requests == [step : {"idle", "claim", "insert"} \cup HoldingSteps,
             kind : Kinds, at : Rows, done : 0..Matrix, verdict : Verdicts]

Holds(w, k) == req[w].step \in HoldingSteps /\ req[w].kind = k

-----------------------------------------------------------------------------
(* split_bounds: the train, holdout and final-OOS partitions of n rows *)

TrainEnd(n) == (n * 60) \div 100
HoldoutEnd(n) == (n * 80) \div 100

\* A result carries its index range, so two replays agree exactly when their
\* range and the range the regimes were calibrated on do.
SameTrain(n) == TrainEnd(n) = TrainEnd(Declared)
SameHoldout(n) == SameTrain(n) /\ HoldoutEnd(n) = HoldoutEnd(Declared)

-----------------------------------------------------------------------------
Goto(w, step) == req' = [req EXCEPT ![w].step = step]

Respond(w) == req' = [req EXCEPT ![w] = Idle]

Write(k, fields) == row' = [row EXCEPT ![k] = fields]

\* What a stage demands before it looks for its row.  The contract's
\* fingerprint binds the dataset it was confirmed on; the later stages ask
\* for the complete evidence of the stage before.
Ready(k) ==
    \/ k = "train" /\ rows = Declared
    \/ k = "holdout" /\ row["train"].status = "COMPLETED"
                     /\ row["train"].result = "evidence"
    \/ k = "confirm" /\ lock = "SELECTED"
                     /\ row["holdout"].status = "COMPLETED"
                     /\ row["holdout"].result = "evidence"
    \/ k = "verify" /\ row["train"].status = "COMPLETED"
                    /\ row["holdout"].status = "COMPLETED" /\ lock # "NONE"

Begin(w, k) ==
    /\ req[w].step = "idle" /\ Ready(k)
    /\ req' = [req EXCEPT ![w] = [Idle EXCEPT !.step = "claim", !.kind = k]]
    /\ UNCHANGED <<rows, tables, overtaken>>

-----------------------------------------------------------------------------
(* The lease: _claim, and the claim of confirm_and_run *)

\* Slip: a running row is taken over whatever its age.
RecoverableAlways(r) == r.status \in {"FAILED", "RUNNING"}

Recoverable(r) == r.status = "FAILED" \/ (r.status = "RUNNING" /\ ~r.fresh)

Running(r) == [r EXCEPT !.status = "RUNNING", !.result = "progress",
                        !.fresh = TRUE]

\* A finished row is reused, a fresh one is a conflict; so is a selected
\* contract that is registered under another lineage.
ClaimRefused(w) ==
    LET k == req[w].kind IN
    /\ req[w].step = "claim"
    /\ \/ row[k].status # "ABSENT" /\ ~Recoverable(row[k])
       \/ row[k].status = "ABSENT" /\ k = "confirm"
                                   /\ revision.lineage = "foreign"
    /\ Respond(w)
    /\ UNCHANGED <<rows, tables, overtaken>>

ClaimAbsent(w) ==
    LET k == req[w].kind IN
    /\ req[w].step = "claim" /\ row[k].status = "ABSENT"
    /\ ~(k = "confirm" /\ revision.lineage = "foreign")
    /\ Goto(w, "insert")
    /\ UNCHANGED <<rows, tables, overtaken>>

\* The age of the last heartbeat says nothing of the worker: it may be alive.
Overtakes(k) == ~row[k].fresh /\ \E v \in Workers : Holds(v, k)

TakeOver(w) ==
    LET k == req[w].kind IN
    /\ req[w].step = "claim" /\ Recoverable(row[k])
    /\ Write(k, Running(row[k]))
    /\ Goto(w, "bounds")
    /\ overtaken' = (overtaken \/ Overtakes(k))
    /\ UNCHANGED <<rows, lock, revision, evidence, verdict>>

\* The confirmation and its revision are inserted in one transaction.
InsertRun(w) ==
    LET k == req[w].kind IN
    /\ req[w].step = "insert" /\ row[k].status = "ABSENT"
    /\ k = "confirm" => revision.lineage = "absent"
    /\ Write(k, Running(row[k]))
    /\ revision' = IF k = "confirm"
                      THEN [revision EXCEPT !.lineage = "selected"]
                      ELSE revision
    /\ Goto(w, "bounds")
    /\ UNCHANGED <<rows, lock, evidence, verdict, overtaken>>

\* A unique index refuses the row or the revision.
InsertLoses(w) ==
    LET k == req[w].kind IN
    /\ req[w].step = "insert"
    /\ row[k].status # "ABSENT" \/ (k = "confirm" /\ revision.lineage # "absent")
    /\ Respond(w)
    /\ UNCHANGED <<rows, tables, overtaken>>

-----------------------------------------------------------------------------
(* Evaluation *)

\* The asset is loaded again after the claim was committed.  The final OOS
\* of these rows may already be evaluated; it is then reused.
ReadBounds(w) ==
    /\ req[w].step = "bounds" /\ req[w].kind # "verify"
    /\ req' = [req EXCEPT ![w].at = rows,
               ![w].step = IF req[w].kind = "confirm" /\ evidence[rows] # "NONE"
                              THEN "finish" ELSE "evaluate"]
    /\ UNCHANGED <<rows, tables, overtaken>>

\* The matrix is generated behind the claim and outside the handler of errors:
\* when it raises, the row stays RUNNING until its lease expires.
AbandonTrain(w) ==
    /\ req[w].step = "bounds" /\ req[w].kind = "train"
    /\ Respond(w)
    /\ UNCHANGED <<rows, tables, overtaken>>

\* One variant is replayed and the heartbeat committed.  A train run whose
\* baseline does not reproduce the stored evidence can only fail.
EvaluateVariant(w) ==
    LET k == req[w].kind n == req[w].done + 1 IN
    /\ req[w].step = "evaluate" /\ k \in {"train", "holdout"} /\ n <= Matrix
    /\ k = "train" /\ n = Baseline => SameTrain(req[w].at)
    /\ Write(k, [row[k] EXCEPT !.result = "progress", !.fresh = TRUE])
    /\ req' = [req EXCEPT ![w].done = n]
    /\ UNCHANGED <<rows, lock, revision, evidence, verdict, overtaken>>

Complete(w, k, status) ==
    /\ Write(k, [row[k] EXCEPT !.status = status, !.result = "evidence",
                               !.fresh = TRUE, !.at = req[w].at])
    /\ Respond(w)

CompleteTrain(w) ==
    /\ req[w].step = "evaluate" /\ req[w].kind = "train"
    /\ req[w].done = Matrix
    /\ Complete(w, "train", "COMPLETED")
    /\ UNCHANGED <<rows, lock, revision, evidence, verdict, overtaken>>

\* Slip: a holdout run may be given a second selection lock.
CompleteHoldoutAgain(w) ==
    /\ req[w].step = "evaluate" /\ req[w].kind = "holdout"
    /\ req[w].done = Matrix /\ SameHoldout(req[w].at)
    /\ lock' \in {"SELECTED", "NO_ELIGIBLE_VARIANT"}
    /\ Complete(w, "holdout", "COMPLETED")
    /\ UNCHANGED <<rows, revision, evidence, verdict, overtaken>>

\* Parity of the baseline, then the selection lock and the evidence in one
\* transaction; uq_variant_selection_lock_holdout_run refuses a second lock.
CompleteHoldout(w) ==
    /\ req[w].step = "evaluate" /\ req[w].kind = "holdout"
    /\ req[w].done = Matrix /\ SameHoldout(req[w].at)
    /\ lock = "NONE" /\ lock' \in {"SELECTED", "NO_ELIGIBLE_VARIANT"}
    /\ Complete(w, "holdout", "COMPLETED")
    /\ UNCHANGED <<rows, revision, evidence, verdict, overtaken>>

\* oos_validation.run for the revision: its evidence is unique per dataset.
StoreEvidence(w) ==
    LET n == req[w].at IN
    /\ req[w].step = "evaluate" /\ req[w].kind = "confirm"
    /\ evidence[n] = "NONE"
    /\ \E decision \in Decisions :
          evidence' = [evidence EXCEPT ![n] = decision]
    /\ Goto(w, "finish")
    /\ UNCHANGED <<rows, row, lock, revision, verdict, overtaken>>

\* The evidence must repeat the selected variant's holdout result; only PASS
\* validates the revision.
FinishConfirm(w) ==
    LET n == req[w].at passed == evidence[n] = "PASS" IN
    /\ req[w].step = "finish" /\ req[w].kind = "confirm" /\ SameHoldout(n)
    /\ revision' = IF passed THEN [revision EXCEPT !.validated = n] ELSE revision
    /\ Complete(w, "confirm", IF passed THEN "VALIDATED" ELSE "OOS_REVIEWED")
    /\ UNCHANGED <<rows, lock, evidence, verdict, overtaken>>

\* verify recomputes the chain from what is stored; the partitions are those
\* of the row count the baseline evidence states.
SelectionPasses ==
    /\ row["train"].status = "COMPLETED" /\ row["train"].result = "evidence"
    /\ SameTrain(row["train"].at)
    /\ row["holdout"].status = "COMPLETED" /\ row["holdout"].result = "evidence"
    /\ SameHoldout(row["holdout"].at)
    /\ lock # "NONE"

RevisionPasses ==
    LET c == row["confirm"] IN
    \/ c.status = "ABSENT" /\ revision.lineage # "selected"
    \/ lock = "SELECTED" /\ c.result = "evidence" /\ SameHoldout(c.at)
       /\ \/ c.status = "VALIDATED" /\ evidence[c.at] = "PASS"
                                    /\ revision.validated = c.at
          \/ c.status = "OOS_REVIEWED" /\ evidence[c.at] = "FAIL"
                                       /\ revision.validated = 0

ReadChain(w) ==
    /\ req[w].step = "bounds" /\ req[w].kind = "verify"
    /\ req' = [req EXCEPT ![w].step = "finish",
               ![w].verdict = IF SelectionPasses /\ RevisionPasses
                                 THEN "PASSED" ELSE "FAILED"]
    /\ UNCHANGED <<rows, tables, overtaken>>

FinishVerify(w) ==
    /\ req[w].step = "finish" /\ req[w].kind = "verify"
    /\ Complete(w, "verify", "COMPLETED")
    /\ verdict' = req[w].verdict
    /\ UNCHANGED <<rows, lock, revision, evidence, overtaken>>

\* Lost parity, a unique index, or any exception of the replay.  A holdout
\* replay without the train run's thresholds may or may not reach parity.
FailRun(w) ==
    LET k == req[w].kind IN
    /\ req[w].step \in {"evaluate", "finish"}
    /\ Write(k, [row[k] EXCEPT !.status = "FAILED", !.result = "error",
                               !.fresh = TRUE])
    /\ Respond(w)
    /\ UNCHANGED <<rows, lock, revision, evidence, verdict, overtaken>>

-----------------------------------------------------------------------------
(* Environment *)

\* Thirty minutes since the last heartbeat of a running row: its worker died, or
\* the replay of one variant, or of the final OOS, took that long.
LeaseExpires(k) ==
    /\ row[k].status = "RUNNING" /\ row[k].fresh
    /\ Write(k, [row[k] EXCEPT !.fresh = FALSE])
    /\ UNCHANGED <<rows, lock, revision, evidence, verdict, req, overtaken>>

DatasetGrows ==
    /\ rows' \in {n \in Rows : n > rows}
    /\ UNCHANGED <<tables, req, overtaken>>

\* The same contract is registered through its research candidate.
RegisterElsewhere ==
    /\ revision.lineage = "absent"
    /\ revision' = [revision EXCEPT !.lineage = "foreign"]
    /\ UNCHANGED <<rows, row, lock, evidence, verdict, req, overtaken>>

\* The process is restarted; rows and leases stay.
Crash ==
    /\ req' = [w \in Workers |-> Idle]
    /\ UNCHANGED <<rows, tables, overtaken>>

-----------------------------------------------------------------------------
Init ==
    /\ rows = Declared
    /\ row = [k \in Kinds |-> Absent]
    /\ lock = "NONE"
    /\ revision = [lineage |-> "absent", validated |-> 0]
    /\ evidence = [n \in Rows |-> "NONE"]
    /\ verdict = "NONE"
    /\ req = [w \in Workers |-> Idle]
    /\ overtaken = FALSE

Claim(w) ==
    ClaimRefused(w) \/ ClaimAbsent(w) \/ TakeOver(w) \/ InsertRun(w)
    \/ InsertLoses(w)

Evaluate(w) ==
    ReadBounds(w) \/ AbandonTrain(w) \/ EvaluateVariant(w) \/ CompleteTrain(w)
    \/ CompleteHoldout(w) \/ StoreEvidence(w) \/ FinishConfirm(w)
    \/ ReadChain(w) \/ FinishVerify(w) \/ FailRun(w)

Next ==
    \/ \E w \in Workers : (\E k \in Kinds : Begin(w, k)) \/ Claim(w) \/ Evaluate(w)
    \/ \E k \in Kinds : LeaseExpires(k)
    \/ DatasetGrows \/ RegisterElsewhere \/ Crash

Spec == Init /\ [][Next]_vars

-----------------------------------------------------------------------------
(* Properties *)

TypeOK ==
    /\ rows \in Rows
    /\ row \in [Kinds -> RunRows]
    /\ lock \in {"NONE", "SELECTED", "NO_ELIGIBLE_VARIANT"}
    /\ revision \in Revisions
    /\ evidence \in [Rows -> {"NONE"} \cup Decisions]
    /\ verdict \in Verdicts
    /\ req \in [Workers -> Requests]
    /\ overtaken \in BOOLEAN

\* Nothing that was decided is ever undone, not even by a worker that was
\* overtaken and writes last: the selection, the evidence it was locked with
\* (which may be lost, but never replaced by other evidence), the outcome of a
\* final OOS, the validation of the revision.  Until a worker is overtaken no
\* finished row changes at all, neither its status nor its evidence; from then
\* on its heartbeat and its error do rewrite finished rows
\* (variant_train_runs.py:269-274 and 308-320).
DecisionsSurviveLostLeases ==
    [][/\ lock # "NONE" =>
             /\ lock' = lock
             /\ row'["holdout"].result = "evidence" => row'["holdout"] = row["holdout"]
       /\ \A n \in Rows : evidence[n] # "NONE" => evidence'[n] = evidence[n]
       /\ revision.validated # 0 => revision'.validated # 0
       /\ ~overtaken' =>
             \A k \in Kinds : row[k].status \in Finished => row'[k] = row[k]]_vars

(* Whether or not a worker was overtaken *)

\* Final OOS is read only for a selected variant, after the Owner's
\* confirmation and the revision of its own lineage are recorded.
FinalOosAfterConfirmation ==
    (\/ \E n \in Rows : evidence[n] # "NONE"
     \/ \E w \in Workers : Holds(w, "confirm"))
    => /\ lock = "SELECTED"
       /\ row["confirm"].status # "ABSENT"
       /\ revision.lineage = "selected"

\* Whatever the dataset has grown to and whoever wrote it, evidence in a row is
\* about the train and holdout partitions the experiment was confirmed on.
EvidenceIsOnFrozenSplit ==
    /\ row["train"].result = "evidence" => SameTrain(row["train"].at)
    /\ \A k \in {"holdout", "confirm"} :
          row[k].result = "evidence" => SameHoldout(row[k].at)

\* A revision is validated only by passing evidence that repeats the frozen
\* holdout result, and a confirmation that says so names such evidence.
ValidationIsEarned ==
    LET passes(n) == evidence[n] = "PASS" /\ SameHoldout(n) IN
    /\ revision.validated # 0 => passes(revision.validated)
    /\ row["confirm"].status = "VALIDATED" => revision.validated # 0
    /\ row["confirm"].result = "evidence" =>
          /\ evidence[row["confirm"].at] # "NONE"
          /\ row["confirm"].status = "VALIDATED" <=> passes(row["confirm"].at)

\* "Completed holdout run is missing its immutable selection lock" is never
\* raised, and evidence is only ever that of a run that completed.
RowsSound ==
    /\ row["holdout"].status = "COMPLETED" => lock # "NONE"
    /\ \A k \in Kinds : row[k].result = "evidence" => row[k].status \in Finished
    /\ row["confirm"].status # "ABSENT" <=> revision.lineage = "selected"
    /\ row["confirm"].status # "ABSENT" => lock = "SELECTED"
    /\ \A n \in Rows : evidence[n] # "NONE" => row["confirm"].status # "ABSENT"
    /\ verdict # "NONE" => lock # "NONE"

\* A worker past its claim has a row; a train run past its baseline is on the
\* frozen partition; the later stages rest on a lock that stays.
RequestSound(r) ==
    /\ r.step \in HoldingSteps => row[r.kind].status # "ABSENT"
    /\ r.done = 0 \/ (r.step = "evaluate" /\ r.kind \in {"train", "holdout"})
    /\ r.step # "idle" /\ r.kind = "confirm" => lock = "SELECTED"
    /\ r.step # "idle" /\ r.kind = "verify" => lock # "NONE"
    /\ r.kind = "train" /\ r.done >= Baseline => SameTrain(r.at)
    /\ r.step = "finish" /\ r.kind = "confirm" => evidence[r.at] # "NONE"

(* Until a worker is overtaken *)

\* A lock belongs to a completed run, and a finished run has its evidence.
FinishedWithEvidence ==
    /\ lock # "NONE" => row["holdout"].status = "COMPLETED"
    /\ \A k \in {"train", "holdout", "confirm"} :
          row[k].status \in Finished => row[k].result = "evidence"

\* The revision is validated exactly when its confirmation says so, by the
\* evidence the confirmation names.
ConfirmationTellsRevision ==
    LET n == revision.validated IN
    n # 0 => row["confirm"].status = "VALIDATED" /\ row["confirm"].at = n

\* A verdict is about a completed selection that still passes, and only a
\* confirmation that has begun can make it negative.
VerdictHasGround ==
    /\ verdict # "NONE" => SelectionPasses
    /\ verdict = "FAILED" => row["confirm"].status # "ABSENT"

\* A row that a worker holds is running and held by nobody else.
LeaseIsKept ==
    \A w \in Workers, k \in Kinds : Holds(w, k) =>
        /\ row[k].status = "RUNNING"
        /\ \A v \in Workers : Holds(v, k) => v = w

\* What a verification has seen is still so.
VerifierSound(r) ==
    /\ r.step # "idle" /\ r.kind = "verify" => SelectionPasses
    /\ r.verdict = "FAILED" => row["confirm"].status # "ABSENT"

TablesSound == FinishedWithEvidence /\ ConfirmationTellsRevision /\ VerdictHasGround

Undisturbed ==
    TablesSound /\ LeaseIsKept /\ \A w \in Workers : VerifierSound(req[w])

\* The inductive invariant behind the properties of one experiment.
IInv ==
    /\ TypeOK
    /\ RowsSound /\ EvidenceIsOnFrozenSplit /\ ValidationIsEarned
    /\ \A w \in Workers : RequestSound(req[w])
    /\ ~overtaken => Undisturbed
=============================================================================
