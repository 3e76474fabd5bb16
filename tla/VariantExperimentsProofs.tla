---------------------- MODULE VariantExperimentsProofs ----------------------
(***************************************************************************)
(* IInv is inductive: for every matrix, every set of row counts and any    *)
(* number of requests.  What it says of all states, that a decision is     *)
(* made once and on the frozen partitions, needs no lease; what it says of *)
(* the rows until a worker is overtaken is what leases are for.            *)
(* The experiment that decides by the rules of VariantSelection implements *)
(* the machine that chooses, and so has the properties proved of it.       *)
(* Its ranking is a strict order of the variants, so the first is          *)
(* unbeaten.                                                               *)
(***************************************************************************)
EXTENDS DeclaredExperiment, FiniteSetTheorems, FunctionTheorems, TLAPS

\* What the tables owe to one another in every state.
RecordsSound == RowsSound /\ EvidenceIsOnFrozenSplit /\ ValidationIsEarned

\* What a request relies on stays true of the tables.
Growing ==
    /\ lock # "NONE" => lock' = lock
    /\ \A n \in Rows : evidence[n] # "NONE" => evidence'[n] # "NONE"
    /\ \A k \in Kinds : row[k].status # "ABSENT" => row'[k].status # "ABSENT"

StillPasses == SelectionPasses => SelectionPasses'

-----------------------------------------------------------------------------
\* No other request can take away what a request relies on.
LEMMA RequestKept ==
    ASSUME NEW r \in Requests, RequestSound(r), Growing
    PROVE  RequestSound(r)'
<1>1. r.at \in Rows /\ r.kind \in Kinds
  BY DEF Requests
<1> QED  BY <1>1 DEF RequestSound, Growing

\* Nor, without an overtaken worker, what a verification has seen.
LEMMA VerifierKept ==
    ASSUME NEW r \in Requests, VerifierSound(r), Growing, StillPasses
    PROVE  VerifierSound(r)'
<1>1. "confirm" \in Kinds
  BY DEF Kinds
<1> QED  BY <1>1 DEF VerifierSound, Growing, StillPasses

\* A worker without a request relies on nothing and holds nothing.
LEMMA IdleSound ==
    /\ Idle \in Requests /\ Idle.step = "idle" /\ Idle.step \notin HoldingSteps
    /\ RequestSound(Idle) /\ RequestSound(Idle)'
    /\ VerifierSound(Idle) /\ VerifierSound(Idle)'
<1>1. Idle \in Requests
  BY ExperimentAssumption DEF Idle, Requests, Kinds, Verdicts
<1>2. ~(0 >= Baseline)
  BY ExperimentAssumption
<1>3. /\ Idle.step = "idle" /\ Idle.kind = "train"
      /\ Idle.done = 0 /\ Idle.verdict = "NONE" /\ "idle" \notin HoldingSteps
  BY DEF Idle, HoldingSteps
<1> QED  BY <1>1, <1>2, <1>3 DEF RequestSound, VerifierSound

\* A step that leaves the tables alone and moves one request on.
LEMMA RequestStep ==
    ASSUME IInv, NEW w \in Workers, NEW r \in Requests, RequestSound(r),
           ~overtaken => VerifierSound(r),
           req' = [req EXCEPT ![w] = r], UNCHANGED <<rows, tables, overtaken>>,
           r.step \in HoldingSteps => Holds(w, r.kind)
    PROVE  IInv'
<1> USE DEF tables
<1>1. \A v \in Workers : req'[v] = IF v = w THEN r ELSE req[v]
  BY DEF IInv, TypeOK
<1>2. TypeOK'
  BY DEF IInv, TypeOK
<1>3. RowsSound' /\ EvidenceIsOnFrozenSplit' /\ ValidationIsEarned'
  BY DEF IInv, RowsSound, EvidenceIsOnFrozenSplit, ValidationIsEarned
<1>4. \A v \in Workers : RequestSound(req[v])'
  BY <1>1 DEF IInv, RequestSound
<1>5. ASSUME ~overtaken'
      PROVE  Undisturbed'
  <2>1. Undisturbed
    BY <1>5 DEF IInv
  <2>2. TablesSound'
    BY <2>1 DEF Undisturbed, TablesSound, FinishedWithEvidence,
       ConfirmationTellsRevision, VerdictHasGround, SelectionPasses
  <2>3. \A v \in Workers, k \in Kinds : Holds(v, k)' => Holds(v, k)
    BY <1>1 DEF Holds
  <2>4. LeaseIsKept'
    BY <2>1, <2>3 DEF Undisturbed, LeaseIsKept
  <2>5. \A v \in Workers : VerifierSound(req[v])'
    BY <1>1, <1>5, <2>1 DEF Undisturbed, VerifierSound, SelectionPasses
  <2> QED  BY <2>2, <2>4, <2>5 DEF Undisturbed
<1> QED  BY <1>2, <1>3, <1>4, <1>5 DEF IInv

\* What a step leaves of the requests besides its own.
LEMMA OtherRequests ==
    ASSUME IInv, NEW w \in Workers, NEW r \in Requests,
           req' = [req EXCEPT ![w] = r], Growing, RequestSound(r)'
    PROVE  \A v \in Workers : RequestSound(req[v])'
<1> SUFFICES ASSUME NEW v \in Workers
             PROVE  RequestSound(req[v])'
  OBVIOUS
<1>1. req'[v] = IF v = w THEN r ELSE req[v]
  BY DEF IInv, TypeOK
<1>2. CASE v = w
  BY <1>1, <1>2 DEF RequestSound
<1>3. CASE v # w
  <2>1. PICK q \in Requests : q = req[v]
    BY DEF IInv, TypeOK
  <2>2. RequestSound(q)
    BY <2>1 DEF IInv
  <2>3. RequestSound(q)' /\ req'[v] = q
    BY <1>1, <1>3, <2>1, <2>2, RequestKept
  <2> QED  BY <2>3 DEF RequestSound
<1> QED  BY <1>2, <1>3

\* What a step that writes the row of one stage keeps of leases and verifiers.
QuietWrite(w, k, s, r) ==
    /\ TablesSound' /\ StillPasses /\ VerifierSound(r)'
    /\ \A v \in Workers : Holds(v, k) => v = w
    /\ r.step \in HoldingSteps => r.kind = k /\ s.status = "RUNNING"

LEMMA QuietStep ==
    ASSUME IInv, Undisturbed, NEW w \in Workers, NEW k \in Kinds, NEW s \in RunRows,
           NEW r \in Requests,
           row' = [row EXCEPT ![k] = s], req' = [req EXCEPT ![w] = r],
           Growing, QuietWrite(w, k, s, r)
    PROVE  Undisturbed'
<1>1. \A v \in Workers : req'[v] = IF v = w THEN r ELSE req[v]
  BY DEF IInv, TypeOK
<1>2. \A j \in Kinds : row'[j] = IF j = k THEN s ELSE row[j]
  BY DEF IInv, TypeOK
<1>3. ASSUME NEW v \in Workers, NEW j \in Kinds, Holds(v, j)'
      PROVE  /\ row'[j].status = "RUNNING"
             /\ \A u \in Workers : Holds(u, j)' => u = v
  <2>1. ASSUME NEW u \in Workers, Holds(u, j)'
        PROVE  IF u = w THEN j = k ELSE Holds(u, j)
    BY <1>1, <2>1 DEF Holds, QuietWrite
  <2>2. j = k => v = w
    BY <1>3, <2>1 DEF QuietWrite
  <2>3. CASE j = k
    BY <1>1, <1>2, <1>3, <2>1, <2>2, <2>3 DEF Holds, QuietWrite
  <2>4. CASE j # k
    <3>1. v # w /\ Holds(v, j)
      BY <1>3, <2>1, <2>4
    <3> QED  BY <1>2, <2>1, <2>4, <3>1 DEF Undisturbed, LeaseIsKept
  <2> QED  BY <2>3, <2>4
<1>4. LeaseIsKept'
  BY <1>3 DEF LeaseIsKept
<1>5. ASSUME NEW v \in Workers
      PROVE  VerifierSound(req[v])'
  <2>1. CASE v = w
    BY <1>1, <2>1 DEF QuietWrite, VerifierSound
  <2>2. CASE v # w
    <3>1. PICK q \in Requests : q = req[v]
      BY DEF IInv, TypeOK
    <3>2. VerifierSound(q)
      BY <3>1 DEF Undisturbed
    <3>3. VerifierSound(q)' /\ req'[v] = q
      BY <1>1, <2>2, <3>1, <3>2, VerifierKept DEF QuietWrite
    <3> QED  BY <3>3 DEF VerifierSound
  <2> QED  BY <2>1, <2>2
<1> QED  BY <1>4, <1>5 DEF Undisturbed, QuietWrite

\* A step that writes the row of one stage and moves one request on.
LEMMA RowStep ==
    ASSUME IInv, NEW w \in Workers, NEW k \in Kinds, NEW s \in RunRows,
           NEW r \in Requests,
           row' = [row EXCEPT ![k] = s], req' = [req EXCEPT ![w] = r],
           TypeOK', RecordsSound', Growing, RequestSound(r)',
           ~overtaken' => ~overtaken /\ QuietWrite(w, k, s, r)
    PROVE  IInv'
<1>1. \A v \in Workers : RequestSound(req[v])'
  BY OtherRequests
<1>2. ASSUME ~overtaken'
      PROVE  Undisturbed'
  <2>1. Undisturbed /\ QuietWrite(w, k, s, r)
    BY <1>2 DEF IInv
  <2> QED  BY <2>1, QuietStep
<1> QED  BY <1>1, <1>2 DEF IInv, RecordsSound

\* Until a worker is overtaken it is alone with a running row.
LEMMA HolderAlone ==
    ASSUME IInv, ~overtaken, NEW w \in Workers, NEW k \in Kinds, Holds(w, k)
    PROVE  /\ Undisturbed
           /\ row[k].status = "RUNNING"
           /\ \A v \in Workers : Holds(v, k) => v = w
<1>1. Undisturbed
  BY DEF IInv
<1> QED  BY <1>1 DEF Undisturbed, LeaseIsKept

-----------------------------------------------------------------------------
(* Requests: the tables stay *)

\* A stage begins when the stages before it are complete.
LEMMA RequestBegins ==
    ASSUME IInv, NEW w \in Workers, NEW k \in Kinds, Begin(w, k)
    PROVE  IInv'
<1> DEFINE r == [Idle EXCEPT !.step = "claim", !.kind = k]
<1>1. r \in Requests
  BY IdleSound DEF Requests
<1>2. /\ r.step = "claim" /\ r.kind = k
      /\ r.done = 0 /\ r.verdict = "NONE"
  BY DEF Idle
<1>3. ~(0 >= Baseline)
  BY ExperimentAssumption
<1>4. /\ k = "verify" => lock # "NONE"
      /\ k = "confirm" => lock = "SELECTED"
  BY DEF Begin, Ready
<1>5. ASSUME ~overtaken, k = "verify"
      PROVE  SelectionPasses
  <2>1. FinishedWithEvidence
    BY <1>5 DEF IInv, Undisturbed, TablesSound
  <2> QED  BY <1>5, <2>1 DEF Begin, Ready, IInv, EvidenceIsOnFrozenSplit,
              FinishedWithEvidence, SelectionPasses, Finished
<1>6. r.step \notin HoldingSteps
  BY <1>2 DEF HoldingSteps
<1>7. RequestSound(r) /\ (~overtaken => VerifierSound(r))
  BY <1>2, <1>3, <1>4, <1>5, <1>6 DEF RequestSound, VerifierSound
<1> HIDE DEF r
<1> QED  BY <1>1, <1>6, <1>7, RequestStep DEF Begin, r

\* A request that is answered without a write.
LEMMA RequestAnswered ==
    ASSUME IInv, NEW w \in Workers, Respond(w), UNCHANGED <<rows, tables, overtaken>>
    PROVE  IInv'
BY IdleSound, RequestStep DEF Respond

\* A claim that found no row goes on to insert one.
LEMMA ClaimFindsNone ==
    ASSUME IInv, NEW w \in Workers, ClaimAbsent(w)
    PROVE  IInv'
<1> DEFINE r == [req[w] EXCEPT !.step = "insert"]
<1>1. /\ req[w] \in Requests /\ RequestSound(req[w])
      /\ ~overtaken => VerifierSound(req[w])
  BY DEF IInv, TypeOK, Undisturbed
<1>2. r \in Requests
  BY <1>1 DEF Requests
<1>3. /\ r.step = "insert" /\ r.kind = req[w].kind /\ r.at = req[w].at
      /\ r.done = req[w].done /\ r.verdict = req[w].verdict
  BY <1>1 DEF Requests
<1>4. /\ RequestSound(r) /\ r.step \notin HoldingSteps
      /\ ~overtaken => VerifierSound(r)
  BY <1>1, <1>3 DEF RequestSound, VerifierSound, ClaimAbsent, HoldingSteps
<1>5. req' = [req EXCEPT ![w] = r]
  BY DEF ClaimAbsent, Goto
<1> HIDE DEF r
<1> QED  BY <1>2, <1>4, <1>5, RequestStep DEF ClaimAbsent

\* The row count is read after the claim.
LEMMA BoundsAreRead ==
    ASSUME IInv, NEW w \in Workers, ReadBounds(w)
    PROVE  IInv'
<1> DEFINE q == req[w]
<1>1. /\ q \in Requests /\ RequestSound(q) /\ rows \in Rows
      /\ ~overtaken => VerifierSound(q)
  BY DEF IInv, TypeOK, Undisturbed
<1>2. PICK step : /\ step = IF q.kind = "confirm" /\ evidence[rows] # "NONE"
                               THEN "finish" ELSE "evaluate"
                  /\ req' = [req EXCEPT ![w] =
                               [q EXCEPT !.at = rows, !.step = step]]
  BY <1>1 DEF ReadBounds, IInv, TypeOK, Requests
<1> DEFINE r == [q EXCEPT !.at = rows, !.step = step]
<1>3. r \in Requests
  BY <1>1, <1>2 DEF Requests, HoldingSteps
<1>4. /\ r.step = step /\ r.kind = q.kind /\ r.at = rows
      /\ r.done = q.done /\ r.verdict = q.verdict
  BY <1>1 DEF Requests
<1>5. /\ q.done = 0 /\ q.step = "bounds" /\ q.kind # "verify"
      /\ step \in HoldingSteps /\ step # "idle"
  BY <1>1, <1>2 DEF RequestSound, ReadBounds, HoldingSteps
<1>6. ~(0 >= Baseline)
  BY ExperimentAssumption
<1>7. RequestSound(r) /\ (~overtaken => VerifierSound(r))
  BY <1>1, <1>2, <1>4, <1>5, <1>6 DEF RequestSound, VerifierSound, HoldingSteps
<1>8. Holds(w, r.kind)
  BY <1>4, <1>5 DEF Holds, HoldingSteps
<1>9. req' = [req EXCEPT ![w] = r] /\ UNCHANGED <<rows, tables, overtaken>>
  BY <1>2 DEF ReadBounds
<1> HIDE DEF r
<1> QED  BY <1>3, <1>7, <1>8, <1>9, RequestStep

\* What a verification finds wrong is a confirmation that has begun, unless a
\* worker was overtaken.
LEMMA ChainIsRead ==
    ASSUME IInv, NEW w \in Workers, ReadChain(w)
    PROVE  IInv'
<1> DEFINE q == req[w]
<1>1. /\ q \in Requests /\ RequestSound(q)
      /\ ~overtaken => VerifierSound(q)
  BY DEF IInv, TypeOK, Undisturbed
<1>2. PICK found : /\ found = IF SelectionPasses /\ RevisionPasses
                                 THEN "PASSED" ELSE "FAILED"
                   /\ req' = [req EXCEPT ![w] =
                                [q EXCEPT !.step = "finish", !.verdict = found]]
  BY <1>1 DEF ReadChain, IInv, TypeOK, Requests
<1> DEFINE r == [q EXCEPT !.step = "finish", !.verdict = found]
<1>3. r \in Requests
  BY <1>1, <1>2 DEF Requests, HoldingSteps, Verdicts
<1>4. /\ r.step = "finish" /\ r.kind = q.kind /\ r.at = q.at
      /\ r.done = q.done /\ r.verdict = found
  BY <1>1 DEF Requests
<1>5. q.step = "bounds" /\ q.kind = "verify"
  BY DEF ReadChain
<1>6. ~overtaken /\ found = "FAILED" => row["confirm"].status # "ABSENT"
  BY <1>1, <1>2, <1>5 DEF VerifierSound, RevisionPasses, IInv, RowsSound
<1>7. RequestSound(r)
  BY <1>1, <1>4, <1>5 DEF RequestSound, HoldingSteps
<1>8. ~overtaken => VerifierSound(r)
  BY <1>1, <1>4, <1>5, <1>6 DEF VerifierSound
<1>9. Holds(w, r.kind)
  BY <1>4, <1>5 DEF Holds, HoldingSteps
<1>10. req' = [req EXCEPT ![w] = r] /\ UNCHANGED <<rows, tables, overtaken>>
  BY <1>2 DEF ReadChain
<1> HIDE DEF r
<1> QED  BY <1>3, <1>7, <1>8, <1>9, <1>10, RequestStep

-----------------------------------------------------------------------------
(* Rows that are not finished *)

\* Both functions keep their type when one row and one request are written.
LEMMA WriteTypes ==
    ASSUME TypeOK, NEW k \in Kinds, NEW s \in RunRows,
           NEW w \in Workers, NEW r \in Requests,
           row' = [row EXCEPT ![k] = s], req' = [req EXCEPT ![w] = r]
    PROVE  row' \in [Kinds -> RunRows] /\ req' \in [Workers -> Requests]
  BY DEF TypeOK

\* What a heartbeat, a claim or a failure writes carries no evidence and says
\* of no run that it finished.
LEMMA UnfinishedRow ==
    ASSUME IInv, NEW k \in Kinds, NEW s \in RunRows,
           row[k].status # "ABSENT", s.result # "evidence",
           s.status \in {"RUNNING", "FAILED", row[k].status},
           row' = [row EXCEPT ![k] = s],
           UNCHANGED <<lock, revision, evidence, verdict>>
    PROVE  RecordsSound' /\ Growing
<1>1. \A j \in Kinds : row'[j] = IF j = k THEN s ELSE row[j]
  BY DEF IInv, TypeOK
<1>2. {"train", "holdout", "confirm"} \subseteq Kinds
  BY DEF Kinds
<1>3. \A j \in Kinds : row'[j].status = "ABSENT" <=> row[j].status = "ABSENT"
  BY <1>1
<1>4. RowsSound'
  BY <1>1, <1>2, <1>3 DEF IInv, RowsSound
<1>5. EvidenceIsOnFrozenSplit'
  BY <1>1, <1>2 DEF IInv, EvidenceIsOnFrozenSplit
<1>6. ValidationIsEarned'
  BY <1>1, <1>2 DEF IInv, ValidationIsEarned
<1> QED  BY <1>3, <1>4, <1>5, <1>6 DEF RecordsSound, Growing

\* Nothing rests on the row of a stage that has begun and is not finished.
LEMMA QuietRow ==
    ASSUME IInv, Undisturbed, NEW k \in Kinds, NEW s \in RunRows,
           row[k].status \in {"RUNNING", "FAILED"},
           s.status \in {"RUNNING", "FAILED"},
           row' = [row EXCEPT ![k] = s],
           UNCHANGED <<lock, revision, evidence, verdict>>
    PROVE  TablesSound' /\ StillPasses
<1>1. \A j \in Kinds : row'[j] = IF j = k THEN s ELSE row[j]
  BY DEF IInv, TypeOK
<1>2. {"train", "holdout", "confirm"} \subseteq Kinds
  BY DEF Kinds
<1>3. SelectionPasses => SelectionPasses'
  BY <1>1, <1>2 DEF SelectionPasses
<1>4. VerdictHasGround'
  BY <1>1, <1>2, <1>3 DEF Undisturbed, TablesSound, VerdictHasGround
<1>5. FinishedWithEvidence'
  BY <1>1, <1>2 DEF Undisturbed, TablesSound, FinishedWithEvidence, Finished
<1>6. ConfirmationTellsRevision'
  BY <1>1, <1>2 DEF Undisturbed, TablesSound, ConfirmationTellsRevision
<1> QED  BY <1>3, <1>4, <1>5, <1>6 DEF TablesSound, StillPasses

\* A lease that ran out is taken over: from a worker that is gone, or the
\* worker is overtaken.
LEMMA LeaseTakenOver ==
    ASSUME IInv, NEW w \in Workers, TakeOver(w)
    PROVE  IInv'
<1> DEFINE q == req[w]
           k == q.kind
           s == Running(row[k])
<1>1. q \in Requests /\ RequestSound(q) /\ k \in Kinds /\ row[k] \in RunRows
  BY DEF IInv, TypeOK, Requests
<1>2. s \in RunRows /\ s.status = "RUNNING" /\ s.result = "progress"
  BY <1>1 DEF RunRows, Running
<1>3. [q EXCEPT !.step = "bounds"] \in Requests
  BY <1>1 DEF Requests, HoldingSteps
<1>4. PICK r \in Requests : r = [q EXCEPT !.step = "bounds"]
  BY <1>3
<1>5. /\ r.step = "bounds" /\ r.kind = k /\ r.at = q.at
      /\ r.done = q.done /\ r.verdict = q.verdict
  BY <1>1, <1>4 DEF Requests
<1>6. /\ row' = [row EXCEPT ![k] = s] /\ req' = [req EXCEPT ![w] = r]
      /\ UNCHANGED <<rows, lock, revision, evidence, verdict>>
      /\ overtaken' = (overtaken \/ Overtakes(k))
  BY <1>4 DEF TakeOver, Write, Goto
<1>7. q.step = "claim" /\ row[k].status \in {"FAILED", "RUNNING"}
      /\ ~(row[k].status = "RUNNING" /\ row[k].fresh)
  BY <1>1 DEF TakeOver, Recoverable, RunRows
<1> HIDE DEF s
<1>8. TypeOK'
  BY <1>1, <1>2, <1>5, <1>6, WriteTypes DEF IInv, TypeOK
<1>9. RecordsSound' /\ Growing
  BY <1>1, <1>2, <1>6, <1>7, UnfinishedRow
<1>10. RequestSound(r)
  BY <1>1, <1>5, <1>7 DEF RequestSound
<1>11. RequestSound(r)'
  BY <1>9, <1>10, RequestKept
<1>12. ASSUME ~overtaken'
       PROVE  ~overtaken /\ QuietWrite(w, k, s, r)
  <2>1. ~overtaken /\ ~Overtakes(k) /\ Undisturbed
    BY <1>6, <1>12 DEF IInv, TypeOK
  <2>2. \A v \in Workers : ~Holds(v, k)
    BY <1>1, <1>7, <2>1 DEF Undisturbed, LeaseIsKept, Overtakes
  <2>3. TablesSound' /\ StillPasses
    BY <1>1, <1>2, <1>6, <1>7, <2>1, QuietRow
  <2>4. VerifierSound(r)
    BY <1>5, <1>7, <2>1 DEF Undisturbed, VerifierSound
  <2>5. VerifierSound(r)'
    BY <1>9, <2>3, <2>4, VerifierKept
  <2> QED  BY <1>2, <1>5, <2>1, <2>2, <2>3, <2>5 DEF QuietWrite
<1> QED  BY <1>1, <1>2, <1>6, <1>8, <1>9, <1>11, <1>12, RowStep

\* A variant is replayed on the partition the request has read; behind the
\* baseline that is the frozen one.
LEMMA VariantEvaluated ==
    ASSUME IInv, NEW w \in Workers, EvaluateVariant(w)
    PROVE  IInv'
<1> DEFINE q == req[w]
           k == q.kind
           n == q.done + 1
           s == [row[k] EXCEPT !.result = "progress", !.fresh = TRUE]
<1>1. q \in Requests /\ RequestSound(q) /\ k \in Kinds /\ row[k] \in RunRows
  BY DEF IInv, TypeOK, Requests
<1>2. /\ q.step = "evaluate" /\ k \in {"train", "holdout"} /\ n <= Matrix
      /\ k = "train" /\ n = Baseline => SameTrain(q.at)
      /\ row' = [row EXCEPT ![k] = s]
      /\ req' = [req EXCEPT ![w] = [q EXCEPT !.done = n]]
      /\ UNCHANGED <<rows, lock, revision, evidence, verdict, overtaken>>
  BY <1>1 DEF EvaluateVariant, Write, IInv, TypeOK, Requests
<1>3. Holds(w, k) /\ row[k].status # "ABSENT"
  BY <1>1, <1>2 DEF Holds, HoldingSteps, RequestSound
<1>4. s \in RunRows /\ s.status = row[k].status /\ s.result = "progress"
  BY <1>1 DEF RunRows
<1>5. q.done \in Nat /\ n \in 0..Matrix /\ Baseline \in Nat
  BY <1>1, <1>2, ExperimentAssumption DEF Requests
<1>6. [q EXCEPT !.done = n] \in Requests
  BY <1>1, <1>5 DEF Requests
<1>7. PICK r \in Requests : r = [q EXCEPT !.done = n]
  BY <1>6
<1>8. /\ r.step = "evaluate" /\ r.kind = k /\ r.at = q.at
      /\ r.done = n /\ r.verdict = q.verdict
  BY <1>1, <1>2, <1>7 DEF Requests
<1> HIDE DEF s
<1>9. TypeOK'
  BY <1>1, <1>2, <1>4, <1>7, WriteTypes DEF IInv, TypeOK
<1>10. RecordsSound' /\ Growing
  BY <1>1, <1>2, <1>3, <1>4, UnfinishedRow
<1>11. n >= Baseline => n = Baseline \/ q.done >= Baseline
  BY <1>5
<1>12. RequestSound(r)
  BY <1>1, <1>2, <1>3, <1>8, <1>11 DEF RequestSound
<1>13. RequestSound(r)'
  BY <1>10, <1>12, RequestKept
<1>14. ASSUME ~overtaken'
       PROVE  ~overtaken /\ QuietWrite(w, k, s, r)
  <2>1. /\ Undisturbed /\ row[k].status = "RUNNING"
        /\ \A v \in Workers : Holds(v, k) => v = w
    BY <1>1, <1>2, <1>3, <1>14, HolderAlone
  <2>2. TablesSound' /\ StillPasses
    BY <1>1, <1>2, <1>4, <2>1, QuietRow
  <2>3. VerifierSound(r)
    BY <1>2, <1>8, <2>1 DEF Undisturbed, VerifierSound
  <2>4. VerifierSound(r)'
    BY <1>10, <2>2, <2>3, VerifierKept
  <2> QED  BY <1>2, <1>4, <1>8, <1>14, <2>1, <2>2, <2>4 DEF QuietWrite
<1> QED  BY <1>1, <1>2, <1>4, <1>7, <1>9, <1>10, <1>13, <1>14, RowStep

\* A run that fails says so in its row, whatever the row said.
LEMMA RunFails ==
    ASSUME IInv, NEW w \in Workers, FailRun(w)
    PROVE  IInv'
<1> DEFINE k == req[w].kind
           s == [row[k] EXCEPT !.status = "FAILED", !.result = "error", !.fresh = TRUE]
<1>1. /\ row' = [row EXCEPT ![k] = s] /\ req' = [req EXCEPT ![w] = Idle]
      /\ UNCHANGED <<rows, lock, revision, evidence, verdict, overtaken>>
      /\ Holds(w, k)
  BY DEF FailRun, Write, Respond, Holds, HoldingSteps
<1>2. k \in Kinds /\ row[k] \in RunRows /\ row[k].status # "ABSENT"
  BY <1>1 DEF IInv, TypeOK, Requests, RequestSound, Holds
<1>3. s \in RunRows /\ s.status = "FAILED" /\ s.result # "evidence"
  BY <1>2 DEF RunRows
<1> HIDE DEF s
<1>4. TypeOK'
  BY <1>1, <1>2, <1>3, IdleSound, WriteTypes DEF IInv, TypeOK
<1>5. RecordsSound' /\ Growing
  BY <1>1, <1>2, <1>3, UnfinishedRow
<1>6. ASSUME ~overtaken'
      PROVE  ~overtaken /\ QuietWrite(w, k, s, Idle)
  <2>1. /\ Undisturbed /\ row[k].status = "RUNNING"
        /\ \A v \in Workers : Holds(v, k) => v = w
    BY <1>1, <1>2, <1>6, HolderAlone
  <2>2. TablesSound' /\ StillPasses
    BY <1>1, <1>2, <1>3, <2>1, QuietRow
  <2> QED  BY <1>1, <1>6, <2>1, <2>2, IdleSound DEF QuietWrite
<1> QED  BY <1>1, <1>2, <1>3, <1>4, <1>5, <1>6, IdleSound, RowStep

\* Time passes, for rows that are held as well.
LEMMA LeaseRunsOut ==
    ASSUME IInv, NEW k \in Kinds, LeaseExpires(k)
    PROVE  IInv'
<1> DEFINE s == [row[k] EXCEPT !.fresh = FALSE]
<1>1. /\ row' = [row EXCEPT ![k] = s] /\ row[k].status = "RUNNING"
      /\ UNCHANGED <<rows, lock, revision, evidence, verdict, req, overtaken>>
  BY DEF LeaseExpires, Write
<1>2. row[k] \in RunRows
  BY DEF IInv, TypeOK
<1>3. s \in RunRows /\ s.status = "RUNNING" /\ s.result = row[k].result
  BY <1>1, <1>2 DEF RunRows
<1>4. s.result # "evidence"
  BY <1>1, <1>3 DEF IInv, RowsSound, Finished
<1> HIDE DEF s
<1>5. TypeOK'
  BY <1>1, <1>3 DEF IInv, TypeOK
<1>6. RecordsSound' /\ Growing
  BY <1>1, <1>3, <1>4, UnfinishedRow
<1>7. ASSUME NEW w \in Workers
      PROVE  RequestSound(req[w])'
  <2>1. PICK q \in Requests : q = req[w]
    BY DEF IInv, TypeOK
  <2>2. RequestSound(q)
    BY <2>1 DEF IInv
  <2>3. RequestSound(q)' /\ req'[w] = q
    BY <1>1, <1>6, <2>1, <2>2, RequestKept
  <2> QED  BY <2>3 DEF RequestSound
<1>8. ASSUME ~overtaken'
      PROVE  Undisturbed'
  <2>1. Undisturbed
    BY <1>1, <1>8 DEF IInv
  <2>2. TablesSound' /\ StillPasses
    BY <1>1, <1>3, <2>1, QuietRow
  <2>3. \A j \in Kinds : row'[j].status = row[j].status
    BY <1>1, <1>3 DEF IInv, TypeOK
  <2>4. \A w \in Workers, j \in Kinds : Holds(w, j)' <=> Holds(w, j)
    BY <1>1 DEF Holds
  <2>5. LeaseIsKept'
    BY <2>1, <2>3, <2>4 DEF Undisturbed, LeaseIsKept
  <2>6. ASSUME NEW w \in Workers
        PROVE  VerifierSound(req[w])'
    <3>1. PICK q \in Requests : q = req[w]
      BY DEF IInv, TypeOK
    <3>2. VerifierSound(q)
      BY <2>1, <3>1 DEF Undisturbed
    <3>3. VerifierSound(q)' /\ req'[w] = q
      BY <1>1, <1>6, <2>2, <3>1, <3>2, VerifierKept
    <3> QED  BY <3>3 DEF VerifierSound
  <2> QED  BY <2>2, <2>5, <2>6 DEF Undisturbed
<1> QED  BY <1>5, <1>6, <1>7, <1>8 DEF IInv, RecordsSound

-----------------------------------------------------------------------------
(* Rows that are created or finished *)

\* The confirmation and the revision of its lineage appear together.
LEMMA RunInserted ==
    ASSUME IInv, NEW w \in Workers, InsertRun(w)
    PROVE  IInv'
<1> DEFINE q == req[w]
           k == q.kind
           s == Running(row[k])
<1>1. q \in Requests /\ RequestSound(q) /\ k \in Kinds /\ row[k] \in RunRows
  BY DEF IInv, TypeOK, Requests
<1>2. s \in RunRows /\ s.status = "RUNNING" /\ s.result = "progress"
  BY <1>1 DEF RunRows, Running
<1>3. [q EXCEPT !.step = "bounds"] \in Requests
  BY <1>1 DEF Requests, HoldingSteps
<1>4. PICK r \in Requests : r = [q EXCEPT !.step = "bounds"]
  BY <1>3
<1>5. /\ r.step = "bounds" /\ r.kind = k /\ r.at = q.at
      /\ r.done = q.done /\ r.verdict = q.verdict
  BY <1>1, <1>4 DEF Requests
<1>6. /\ row' = [row EXCEPT ![k] = s] /\ req' = [req EXCEPT ![w] = r]
      /\ UNCHANGED <<rows, lock, evidence, verdict, overtaken>>
      /\ q.step = "insert" /\ row[k].status = "ABSENT"
      /\ k = "confirm" => revision.lineage = "absent"
      /\ revision' = IF k = "confirm"
                        THEN [revision EXCEPT !.lineage = "selected"]
                        ELSE revision
  BY <1>4 DEF InsertRun, Write, Goto
<1>7. /\ revision \in Revisions /\ revision' \in Revisions
      /\ revision'.validated = revision.validated
      /\ k # "confirm" => revision' = revision
      /\ k = "confirm" => revision'.lineage = "selected"
  BY <1>6 DEF IInv, TypeOK, Revisions
<1> HIDE DEF s
<1>8. TypeOK'
  BY <1>1, <1>2, <1>6, <1>7, WriteTypes DEF IInv, TypeOK
<1>9. \A j \in Kinds : row'[j] = IF j = k THEN s ELSE row[j]
  BY <1>6 DEF IInv, TypeOK
<1>10. {"train", "holdout", "confirm"} \subseteq Kinds
  BY DEF Kinds
<1>11. k = "confirm" => lock = "SELECTED"
  BY <1>1, <1>6 DEF RequestSound
<1>12. (row["confirm"].status # "ABSENT" <=> revision.lineage = "selected")'
  BY <1>2, <1>6, <1>7, <1>9, <1>10 DEF IInv, RowsSound
<1>13. RowsSound'
  BY <1>2, <1>6, <1>9, <1>10, <1>11, <1>12 DEF IInv, RowsSound
<1>14. EvidenceIsOnFrozenSplit'
  BY <1>2, <1>9, <1>10 DEF IInv, EvidenceIsOnFrozenSplit
<1>15. ValidationIsEarned'
  BY <1>2, <1>6, <1>7, <1>9, <1>10 DEF IInv, ValidationIsEarned
<1>16. RecordsSound' /\ Growing
  BY <1>2, <1>6, <1>9, <1>13, <1>14, <1>15 DEF RecordsSound, Growing
<1>17. \A j \in Kinds : row[j].status # "ABSENT" => row'[j] = row[j]
  BY <1>6, <1>9
<1>18. RequestSound(r)'
  <2>1. row'[r.kind].status # "ABSENT"
    BY <1>1, <1>2, <1>5, <1>9
  <2> QED  BY <1>1, <1>5, <1>6, <2>1 DEF RequestSound
<1>19. ASSUME ~overtaken'
       PROVE  ~overtaken /\ QuietWrite(w, k, s, r)
  <2>1. ~overtaken /\ Undisturbed
    BY <1>6, <1>19 DEF IInv
  <2>2. \A v \in Workers : ~Holds(v, k)
    BY <1>1, <1>6, <2>1 DEF Undisturbed, LeaseIsKept
  <2>3. StillPasses
    BY <1>6, <1>10, <1>17 DEF SelectionPasses, StillPasses
  <2>4. FinishedWithEvidence'
    BY <1>2, <1>6, <1>9, <1>10, <2>1 DEF Undisturbed, TablesSound, FinishedWithEvidence,
       Finished
  <2>5. ConfirmationTellsRevision'
    BY <1>6, <1>7, <1>10, <1>17, <2>1 DEF Undisturbed, TablesSound, ConfirmationTellsRevision
  <2>6. VerdictHasGround'
    BY <1>6, <1>10, <1>16, <2>1, <2>3 DEF Undisturbed, TablesSound, VerdictHasGround,
       StillPasses, Growing
  <2>7. VerifierSound(r)
    BY <1>5, <1>6, <2>1 DEF Undisturbed, VerifierSound
  <2>8. VerifierSound(r)'
    BY <1>16, <2>3, <2>7, VerifierKept
  <2> QED  BY <1>2, <1>5, <2>1, <2>2, <2>3, <2>4, <2>5, <2>6, <2>8 DEF QuietWrite, TablesSound
<1> QED  BY <1>1, <1>2, <1>4, <1>6, <1>8, <1>16, <1>18, <1>19, RowStep

\* What a finishing step has in common: the worker writes its evidence, and
\* until a worker is overtaken it writes it over a running row.
LEMMA Finishing ==
    ASSUME IInv, NEW w \in Workers, NEW k \in Kinds, NEW status \in Finished,
           Holds(w, k), Complete(w, k, status)
    PROVE  \E s \in RunRows :
             /\ s.status = status /\ s.result = "evidence" /\ s.at = req[w].at
             /\ s.status # "ABSENT"
             /\ row' = [row EXCEPT ![k] = s]
             /\ \A j \in Kinds : row'[j] = IF j = k THEN s ELSE row[j]
             /\ req' = [req EXCEPT ![w] = Idle]
<1> DEFINE s == [row[k] EXCEPT !.status = status, !.result = "evidence",
                               !.fresh = TRUE, !.at = req[w].at]
<1>1. row[k] \in RunRows /\ req[w] \in Requests
  BY DEF IInv, TypeOK
<1>2. /\ s \in RunRows
      /\ s.status = status /\ s.result = "evidence" /\ s.at = req[w].at
  BY <1>1 DEF RunRows, Requests
<1>3. row' = [row EXCEPT ![k] = s] /\ req' = [req EXCEPT ![w] = Idle]
  BY DEF Complete, Write, Respond
<1>4. s.status # "ABSENT"
  BY <1>2 DEF Finished
<1> HIDE DEF s
<1>5. \A j \in Kinds : row'[j] = IF j = k THEN s ELSE row[j]
  BY <1>3 DEF IInv, TypeOK
<1> QED  BY <1>2, <1>3, <1>4, <1>5

\* Once a stage is finished and the tables agree, the invariant holds again.
LEMMA FinishedStep ==
    ASSUME IInv, NEW w \in Workers, NEW k \in Kinds, NEW s \in RunRows, Holds(w, k),
           row' = [row EXCEPT ![k] = s], req' = [req EXCEPT ![w] = Idle],
           overtaken' = overtaken, TypeOK', RecordsSound', Growing,
           Undisturbed /\ row[k].status = "RUNNING" => TablesSound' /\ StillPasses
    PROVE  IInv'
<1>1. ASSUME ~overtaken'
      PROVE  ~overtaken /\ QuietWrite(w, k, s, Idle)
  BY <1>1, HolderAlone, IdleSound DEF QuietWrite
<1> QED  BY <1>1, IdleSound, RowStep

\* A train run finishes on the partition its baseline was reproduced on.
LEMMA TrainCompletes ==
    ASSUME IInv, NEW w \in Workers, CompleteTrain(w)
    PROVE  IInv'
<1> DEFINE n == req[w].at
<1>1. /\ req[w].step = "evaluate" /\ req[w].kind = "train" /\ req[w].done = Matrix
      /\ Complete(w, "train", "COMPLETED")
      /\ UNCHANGED <<rows, lock, revision, evidence, verdict, overtaken>>
  BY DEF CompleteTrain
<1>2. {"train", "holdout", "confirm"} \subseteq Kinds /\ "COMPLETED" \in Finished
  BY DEF Kinds, Finished
<1>3. Holds(w, "train")
  BY <1>1 DEF Holds, HoldingSteps
<1>4. PICK s \in RunRows :
        /\ s.status = "COMPLETED" /\ s.result = "evidence" /\ s.at = n
        /\ row' = [row EXCEPT !["train"] = s]
        /\ \A j \in Kinds : row'[j] = IF j = "train" THEN s ELSE row[j]
        /\ req' = [req EXCEPT ![w] = Idle]
  BY <1>1, <1>2, <1>3, Finishing
<1>5. SameTrain(n)
  BY <1>1, ExperimentAssumption DEF IInv, RequestSound
<1>6. TypeOK'
  BY <1>1, <1>2, <1>4, IdleSound, WriteTypes DEF IInv, TypeOK
<1>7. RowsSound' /\ EvidenceIsOnFrozenSplit' /\ ValidationIsEarned'
  BY <1>1, <1>2, <1>4, <1>5 DEF IInv, RowsSound, EvidenceIsOnFrozenSplit, ValidationIsEarned
<1>8. RecordsSound' /\ Growing
  BY <1>1, <1>4, <1>7 DEF RecordsSound, Growing
<1>9. ASSUME Undisturbed, row["train"].status = "RUNNING"
      PROVE  TablesSound' /\ StillPasses
  <2>1. ~SelectionPasses
    BY <1>9 DEF SelectionPasses
  <2> QED  BY <1>1, <1>2, <1>4, <1>9, <2>1 DEF Undisturbed, TablesSound, FinishedWithEvidence,
              ConfirmationTellsRevision, VerdictHasGround, StillPasses
<1> QED  BY <1>1, <1>2, <1>3, <1>4, <1>6, <1>8, <1>9, FinishedStep

\* The lock and the holdout evidence are committed together.
LEMMA HoldoutCompletes ==
    ASSUME IInv, NEW w \in Workers, CompleteHoldout(w)
    PROVE  IInv'
<1> DEFINE n == req[w].at
<1>1. /\ req[w].step = "evaluate" /\ req[w].kind = "holdout" /\ SameHoldout(n)
      /\ lock = "NONE" /\ lock' \in {"SELECTED", "NO_ELIGIBLE_VARIANT"}
      /\ Complete(w, "holdout", "COMPLETED")
      /\ UNCHANGED <<rows, revision, evidence, verdict, overtaken>>
  BY DEF CompleteHoldout
<1>2. {"train", "holdout", "confirm"} \subseteq Kinds /\ "COMPLETED" \in Finished
  BY DEF Kinds, Finished
<1>3. Holds(w, "holdout")
  BY <1>1 DEF Holds, HoldingSteps
<1>4. PICK s \in RunRows :
        /\ s.status = "COMPLETED" /\ s.result = "evidence" /\ s.at = n
        /\ row' = [row EXCEPT !["holdout"] = s]
        /\ \A j \in Kinds : row'[j] = IF j = "holdout" THEN s ELSE row[j]
        /\ req' = [req EXCEPT ![w] = Idle]
  BY <1>1, <1>2, <1>3, Finishing
<1>5. TypeOK'
  BY <1>1, <1>2, <1>4, IdleSound, WriteTypes DEF IInv, TypeOK
<1>6. RowsSound' /\ EvidenceIsOnFrozenSplit' /\ ValidationIsEarned'
  BY <1>1, <1>2, <1>4 DEF IInv, RowsSound, EvidenceIsOnFrozenSplit, ValidationIsEarned
<1>7. RecordsSound' /\ Growing
  BY <1>1, <1>4, <1>6 DEF RecordsSound, Growing
<1>8. ASSUME Undisturbed, row["holdout"].status = "RUNNING"
      PROVE  TablesSound' /\ StillPasses
  <2>1. ~SelectionPasses
    BY <1>8 DEF SelectionPasses
  <2> QED  BY <1>1, <1>2, <1>4, <1>8, <2>1 DEF Undisturbed, TablesSound, FinishedWithEvidence,
              ConfirmationTellsRevision, VerdictHasGround, StillPasses
<1> QED  BY <1>1, <1>2, <1>3, <1>4, <1>5, <1>7, <1>8, FinishedStep

\* Evidence of final OOS is stored by a worker of the confirmation.
LEMMA EvidenceStored ==
    ASSUME IInv, NEW w \in Workers, StoreEvidence(w)
    PROVE  IInv'
<1> DEFINE q == req[w]
           n == q.at
<1>1. q \in Requests /\ RequestSound(q) /\ n \in Rows
  BY DEF IInv, TypeOK, Requests
<1>2. PICK d \in Decisions : evidence' = [evidence EXCEPT ![n] = d]
  BY DEF StoreEvidence
<1>3. [q EXCEPT !.step = "finish"] \in Requests
  BY <1>1 DEF Requests, HoldingSteps
<1>4. PICK r \in Requests : r = [q EXCEPT !.step = "finish"]
  BY <1>3
<1>5. /\ r.step = "finish" /\ r.kind = q.kind /\ r.at = n
      /\ r.done = q.done /\ r.verdict = q.verdict
  BY <1>1, <1>4 DEF Requests
<1>6. /\ q.step = "evaluate" /\ q.kind = "confirm" /\ evidence[n] = "NONE"
      /\ req' = [req EXCEPT ![w] = r]
      /\ UNCHANGED <<rows, row, lock, revision, verdict, overtaken>>
  BY <1>4 DEF StoreEvidence, Goto
<1>7. Holds(w, "confirm") /\ "confirm" \in Kinds /\ row["confirm"].status # "ABSENT"
  BY <1>1, <1>6 DEF Holds, HoldingSteps, Kinds, RequestSound
<1>8. PICK s \in RunRows : s = row["confirm"] /\ row' = [row EXCEPT !["confirm"] = s]
  BY <1>6, <1>7 DEF IInv, TypeOK
<1>9. \A m \in Rows : evidence'[m] = IF m = n THEN d ELSE evidence[m]
  BY <1>1, <1>2 DEF IInv, TypeOK
<1>10. d # "NONE"
  BY <1>2 DEF Decisions
<1>11. TypeOK'
  BY <1>1, <1>2, <1>6 DEF IInv, TypeOK
<1>12. RowsSound' /\ EvidenceIsOnFrozenSplit'
  BY <1>6, <1>7, <1>9 DEF IInv, RowsSound, EvidenceIsOnFrozenSplit
<1>13. ValidationIsEarned'
  <2>1. revision.validated \in {0} \cup Rows /\ row["confirm"].at \in Rows
    BY <1>7 DEF IInv, TypeOK, Revisions, RunRows
  <2> QED  BY <1>6, <1>9, <2>1 DEF IInv, ValidationIsEarned
<1>14. RecordsSound' /\ Growing
  BY <1>6, <1>9, <1>10, <1>12, <1>13 DEF RecordsSound, Growing
<1>15. evidence'[r.at] # "NONE"
  BY <1>1, <1>5, <1>9, <1>10
<1>16. RequestSound(r)'
  BY <1>1, <1>5, <1>6, <1>7, <1>15, ExperimentAssumption DEF RequestSound, Requests
<1>17. ASSUME ~overtaken'
       PROVE  ~overtaken /\ QuietWrite(w, "confirm", s, r)
  <2>1. /\ ~overtaken /\ Undisturbed /\ row["confirm"].status = "RUNNING"
        /\ \A v \in Workers : Holds(v, "confirm") => v = w
    BY <1>6, <1>7, <1>17, HolderAlone
  <2>2. TablesSound' /\ StillPasses
    BY <1>6, <2>1 DEF Undisturbed, TablesSound, FinishedWithEvidence,
       ConfirmationTellsRevision, VerdictHasGround, SelectionPasses, StillPasses
  <2>3. VerifierSound(r)'
    BY <1>5, <1>6, <1>7 DEF VerifierSound
  <2> QED  BY <1>5, <1>6, <1>8, <2>1, <2>2, <2>3 DEF QuietWrite
<1> QED
  BY <1>4, <1>6, <1>7, <1>8, <1>11, <1>14, <1>16, <1>17, RowStep

\* The revision is validated by passing evidence that repeats the holdout.
LEMMA ConfirmationFinishes ==
    ASSUME IInv, NEW w \in Workers, FinishConfirm(w)
    PROVE  IInv'
<1> DEFINE n == req[w].at
           passed == evidence[n] = "PASS"
           status == IF passed THEN "VALIDATED" ELSE "OOS_REVIEWED"
<1>1. /\ req[w].step = "finish" /\ req[w].kind = "confirm" /\ SameHoldout(n)
      /\ revision' = IF passed THEN [revision EXCEPT !.validated = n] ELSE revision
      /\ Complete(w, "confirm", status)
      /\ UNCHANGED <<rows, lock, evidence, verdict, overtaken>>
  BY DEF FinishConfirm
<1>2. /\ {"train", "holdout", "confirm"} \subseteq Kinds
      /\ status \in Finished /\ status # "ABSENT"
  BY DEF Kinds, Finished
<1>3. Holds(w, "confirm")
  BY <1>1 DEF Holds, HoldingSteps
<1>4. PICK s \in RunRows :
        /\ s.status = status /\ s.result = "evidence" /\ s.at = n
        /\ row' = [row EXCEPT !["confirm"] = s]
        /\ \A j \in Kinds : row'[j] = IF j = "confirm" THEN s ELSE row[j]
        /\ req' = [req EXCEPT ![w] = Idle]
  BY <1>1, <1>2, <1>3, Finishing
<1>5. n \in Rows /\ n # 0
  BY ExperimentAssumption DEF IInv, TypeOK, Requests
<1>6. row["confirm"].status # "ABSENT" /\ revision.lineage = "selected" /\ lock = "SELECTED"
  BY <1>1 DEF IInv, RequestSound, RowsSound, HoldingSteps
<1>7. /\ revision' \in Revisions
      /\ revision'.lineage = "selected"
      /\ revision'.validated = IF passed THEN n ELSE revision.validated
  BY <1>1, <1>5, <1>6 DEF IInv, TypeOK, Revisions
<1>8. TypeOK'
  BY <1>1, <1>2, <1>4, <1>7, IdleSound, WriteTypes DEF IInv, TypeOK
<1>9. RowsSound' /\ EvidenceIsOnFrozenSplit'
  BY <1>1, <1>2, <1>4, <1>6, <1>7 DEF IInv, RowsSound, EvidenceIsOnFrozenSplit
<1>10. ValidationIsEarned'
  <2>1. row'["confirm"] = s /\ (s.status = "VALIDATED" <=> passed)
    BY <1>2, <1>4
  <2>2. evidence[n] # "NONE"
    BY <1>1 DEF IInv, RequestSound
  <2> QED  BY <1>1, <1>4, <1>5, <1>7, <2>1, <2>2 DEF IInv, ValidationIsEarned
<1>11. RecordsSound' /\ Growing
  BY <1>1, <1>2, <1>4, <1>9, <1>10 DEF RecordsSound, Growing
<1>12. ASSUME Undisturbed, row["confirm"].status = "RUNNING"
       PROVE  TablesSound' /\ StillPasses
  <2>1. revision.validated = 0
    BY <1>12 DEF Undisturbed, TablesSound, ConfirmationTellsRevision
  <2>2. row'["train"] = row["train"] /\ row'["holdout"] = row["holdout"] /\ row'["confirm"] = s
    BY <1>2, <1>4
  <2>3. StillPasses
    BY <1>1, <2>2 DEF SelectionPasses, StillPasses
  <2>4. FinishedWithEvidence'
    BY <1>1, <1>4, <1>12, <2>2 DEF Undisturbed, TablesSound, FinishedWithEvidence
  <2>5. ConfirmationTellsRevision'
    BY <1>4, <1>7, <2>1, <2>2 DEF ConfirmationTellsRevision
  <2>6. VerdictHasGround'
    BY <1>1, <1>2, <1>4, <1>12, <2>2, <2>3 DEF Undisturbed, TablesSound, VerdictHasGround,
       StillPasses
  <2> QED  BY <2>3, <2>4, <2>5, <2>6 DEF TablesSound
<1> QED  BY <1>1, <1>2, <1>3, <1>4, <1>8, <1>11, <1>12, FinishedStep

\* A verdict is recorded about the chain its request has read.
LEMMA VerificationFinishes ==
    ASSUME IInv, NEW w \in Workers, FinishVerify(w)
    PROVE  IInv'
<1> DEFINE q == req[w]
<1>1. /\ q.step = "finish" /\ q.kind = "verify"
      /\ Complete(w, "verify", "COMPLETED") /\ verdict' = q.verdict
      /\ UNCHANGED <<rows, lock, revision, evidence, overtaken>>
  BY DEF FinishVerify
<1>2. /\ {"train", "holdout", "confirm"} \subseteq Kinds \ {"verify"}
      /\ "verify" \in Kinds /\ "COMPLETED" \in Finished
  BY DEF Kinds, Finished
<1>3. Holds(w, "verify")
  BY <1>1 DEF Holds, HoldingSteps
<1>4. PICK s \in RunRows :
        /\ s.status = "COMPLETED" /\ s.result = "evidence" /\ s.at = q.at
        /\ row' = [row EXCEPT !["verify"] = s]
        /\ \A j \in Kinds : row'[j] = IF j = "verify" THEN s ELSE row[j]
        /\ req' = [req EXCEPT ![w] = Idle]
  BY <1>1, <1>2, <1>3, Finishing
<1>5. /\ row'["train"] = row["train"] /\ row'["holdout"] = row["holdout"]
      /\ row'["confirm"] = row["confirm"]
  BY <1>2, <1>4
<1>6. q \in Requests /\ RequestSound(q)
  BY DEF IInv, TypeOK
<1>7. TypeOK'
  BY <1>1, <1>2, <1>4, <1>6, IdleSound, WriteTypes DEF IInv, TypeOK, Requests
<1>8. lock # "NONE"
  BY <1>1, <1>6 DEF RequestSound
<1>9. RowsSound' /\ EvidenceIsOnFrozenSplit' /\ ValidationIsEarned'
  BY <1>1, <1>2, <1>4, <1>5, <1>8 DEF IInv, RowsSound, EvidenceIsOnFrozenSplit,
     ValidationIsEarned
<1>10. RecordsSound' /\ Growing
  BY <1>1, <1>4, <1>9 DEF RecordsSound, Growing
<1>11. ASSUME Undisturbed, row["verify"].status = "RUNNING"
       PROVE  TablesSound' /\ StillPasses
  <2>1. SelectionPasses' <=> SelectionPasses
    BY <1>1, <1>5 DEF SelectionPasses
  <2>2. FinishedWithEvidence' /\ ConfirmationTellsRevision'
    BY <1>1, <1>5, <1>11 DEF Undisturbed, TablesSound, FinishedWithEvidence,
       ConfirmationTellsRevision
  <2>3. VerifierSound(q)
    BY <1>11 DEF Undisturbed
  <2>4. VerdictHasGround'
    BY <1>1, <1>5, <2>1, <2>3 DEF VerdictHasGround, VerifierSound
  <2> QED  BY <2>1, <2>2, <2>4 DEF TablesSound, StillPasses
<1> QED  BY <1>1, <1>2, <1>3, <1>4, <1>7, <1>10, <1>11, FinishedStep

-----------------------------------------------------------------------------
(* The environment *)

\* The row count is no part of what was recorded.
LEMMA DatasetGrowsStep ==
    ASSUME IInv, DatasetGrows
    PROVE  IInv'
<1> USE DEF tables
<1>1. TypeOK' /\ UNCHANGED <<tables, req, overtaken>>
  BY DEF IInv, TypeOK, DatasetGrows
<1>2. RowsSound' /\ EvidenceIsOnFrozenSplit' /\ ValidationIsEarned'
  BY <1>1 DEF IInv, RowsSound, EvidenceIsOnFrozenSplit, ValidationIsEarned
<1>3. \A w \in Workers : RequestSound(req[w])'
  BY <1>1 DEF IInv, RequestSound
<1>4. ASSUME ~overtaken'
      PROVE  Undisturbed'
  BY <1>1, <1>4 DEF IInv, Undisturbed, TablesSound, FinishedWithEvidence,
     ConfirmationTellsRevision, VerdictHasGround, SelectionPasses, LeaseIsKept, Holds,
     VerifierSound
<1> QED  BY <1>1, <1>2, <1>3, <1>4 DEF IInv

\* A foreign registration comes before the confirmation or not at all.
LEMMA RegistrationStep ==
    ASSUME IInv, RegisterElsewhere
    PROVE  IInv'
<1>1. /\ UNCHANGED <<rows, row, lock, evidence, verdict, req, overtaken>>
      /\ revision.lineage = "absent"
      /\ revision' = [revision EXCEPT !.lineage = "foreign"]
  BY DEF RegisterElsewhere
<1>2. /\ revision' \in Revisions /\ revision'.lineage = "foreign"
      /\ revision'.validated = revision.validated
  BY <1>1 DEF IInv, TypeOK, Revisions
<1>3. TypeOK'
  BY <1>1, <1>2 DEF IInv, TypeOK
<1>4. RowsSound' /\ EvidenceIsOnFrozenSplit' /\ ValidationIsEarned'
  BY <1>1, <1>2 DEF IInv, RowsSound, EvidenceIsOnFrozenSplit, ValidationIsEarned
<1>5. \A w \in Workers : RequestSound(req[w])'
  BY <1>1 DEF IInv, RequestSound
<1>6. ASSUME ~overtaken'
      PROVE  Undisturbed'
  BY <1>1, <1>2, <1>6 DEF IInv, Undisturbed, TablesSound, FinishedWithEvidence,
     ConfirmationTellsRevision, VerdictHasGround, SelectionPasses, LeaseIsKept, Holds,
     VerifierSound
<1> QED  BY <1>3, <1>4, <1>5, <1>6 DEF IInv

\* A restart leaves rows running that nobody holds.
LEMMA CrashStep ==
    ASSUME IInv, Crash
    PROVE  IInv'
<1> USE DEF tables
<1>1. /\ UNCHANGED <<rows, tables, overtaken>>
      /\ \A w \in Workers : req'[w] = Idle
  BY DEF Crash
<1>2. TypeOK'
  BY <1>1, IdleSound DEF IInv, TypeOK, Crash
<1>3. RowsSound' /\ EvidenceIsOnFrozenSplit' /\ ValidationIsEarned'
  BY <1>1 DEF IInv, RowsSound, EvidenceIsOnFrozenSplit, ValidationIsEarned
<1>4. \A w \in Workers : RequestSound(req[w])' /\ VerifierSound(req[w])'
  BY <1>1, IdleSound DEF RequestSound, VerifierSound
<1>5. ASSUME ~overtaken'
      PROVE  Undisturbed'
  <2>1. TablesSound'
    BY <1>1, <1>5 DEF IInv, Undisturbed, TablesSound, FinishedWithEvidence,
       ConfirmationTellsRevision, VerdictHasGround, SelectionPasses
  <2>2. LeaseIsKept'
    BY <1>1 DEF LeaseIsKept, Holds, Idle, HoldingSteps
  <2> QED  BY <1>4, <2>1, <2>2 DEF Undisturbed
<1> QED  BY <1>2, <1>3, <1>4, <1>5 DEF IInv

-----------------------------------------------------------------------------
\* Every step keeps the invariant.
LEMMA StepKeepsInvariant ==
    ASSUME IInv, [Next]_vars
    PROVE  IInv'
<1>1. ASSUME NEW w \in Workers, NEW k \in Kinds, Begin(w, k)
      PROVE  IInv'
  BY <1>1, RequestBegins
<1>2. ASSUME NEW w \in Workers, Claim(w)
      PROVE  IInv'
  BY <1>2, RequestAnswered, ClaimFindsNone, LeaseTakenOver, RunInserted
     DEF Claim, ClaimRefused, InsertLoses
<1>3. ASSUME NEW w \in Workers, Evaluate(w)
      PROVE  IInv'
  BY <1>3, BoundsAreRead, RequestAnswered, VariantEvaluated, TrainCompletes, HoldoutCompletes,
     EvidenceStored, ConfirmationFinishes, ChainIsRead, VerificationFinishes,
     RunFails DEF Evaluate, AbandonTrain
<1>4. ASSUME NEW k \in Kinds, LeaseExpires(k)
      PROVE  IInv'
  BY <1>4, LeaseRunsOut
<1>5. CASE DatasetGrows \/ RegisterElsewhere \/ Crash
  BY <1>5, DatasetGrowsStep, RegistrationStep, CrashStep
<1>6. CASE UNCHANGED vars
  BY <1>6 DEF vars, tables, IInv, TypeOK, RowsSound, EvidenceIsOnFrozenSplit,
     ValidationIsEarned, RequestSound, Undisturbed, TablesSound, FinishedWithEvidence,
     ConfirmationTellsRevision, VerdictHasGround, SelectionPasses, LeaseIsKept, Holds,
     VerifierSound
<1> QED  BY <1>1, <1>2, <1>3, <1>4, <1>5, <1>6 DEF Next

\* An experiment begins without rows.
LEMMA InitialState ==
    ASSUME Init
    PROVE  IInv
<1> USE DEF Init
<1>1. /\ \A k \in Kinds : row[k] = Absent
      /\ \A n \in Rows : evidence[n] = "NONE"
      /\ \A w \in Workers : req[w] = Idle
      /\ revision.lineage = "absent" /\ revision.validated = 0
  OBVIOUS
<1>2. Absent \in RunRows /\ Absent.status = "ABSENT" /\ Absent.result = "none"
  BY ExperimentAssumption DEF Absent, RunRows
<1>3. TypeOK
  BY <1>2, IdleSound, ExperimentAssumption DEF TypeOK, Revisions, Verdicts
<1>4. {"train", "holdout", "confirm"} \subseteq Kinds
  BY DEF Kinds
<1>5. RowsSound /\ EvidenceIsOnFrozenSplit /\ ValidationIsEarned
  BY <1>1, <1>2, <1>4 DEF RowsSound, EvidenceIsOnFrozenSplit, ValidationIsEarned
<1>6. TablesSound
  BY <1>1, <1>2, <1>4 DEF TablesSound, FinishedWithEvidence, Finished,
     ConfirmationTellsRevision, VerdictHasGround
<1>7. LeaseIsKept
  BY <1>1 DEF LeaseIsKept, Holds, Idle, HoldingSteps
<1>8. \A w \in Workers : RequestSound(req[w]) /\ VerifierSound(req[w])
  BY <1>1, IdleSound
<1> QED  BY <1>3, <1>5, <1>6, <1>7, <1>8 DEF IInv, Undisturbed

\* The invariant holds in any matrix, dataset and number of requests, whichever
\* leases run out.
THEOREM ExperimentInvariant == Spec => []IInv
<1>1. Init => IInv
  BY InitialState
<1>2. IInv /\ [Next]_vars => IInv'
  BY StepKeepsInvariant
<1> QED  BY <1>1, <1>2, PTL DEF Spec

\* A completed holdout run has its lock (_finish_completed); until a worker is
\* overtaken a lock has its completed run, and the run its evidence.
THEOREM LockSafety ==
    Spec => [](/\ row["holdout"].status = "COMPLETED" => lock # "NONE"
               /\ ~overtaken /\ lock # "NONE" =>
                     row["holdout"].status = "COMPLETED" /\ row["holdout"].result = "evidence")
<1>1. IInv => /\ row["holdout"].status = "COMPLETED" => lock # "NONE"
              /\ ~overtaken /\ lock # "NONE" =>
                    row["holdout"].status = "COMPLETED" /\ row["holdout"].result = "evidence"
  BY DEF IInv, RowsSound, Undisturbed, TablesSound, FinishedWithEvidence, Finished
<1> QED  BY <1>1, ExperimentInvariant, PTL

\* Evidence is about the partitions the experiment was confirmed on, whatever
\* the dataset has grown to and whoever wrote it.
THEOREM FrozenSplitSafety == Spec => []EvidenceIsOnFrozenSplit
<1>1. IInv => EvidenceIsOnFrozenSplit
  BY DEF IInv
<1> QED  BY <1>1, ExperimentInvariant, PTL

\* Final OOS is read only behind a lock and the Owner's confirmation.
THEOREM FinalOosSafety == Spec => []FinalOosAfterConfirmation
<1>1. IInv => FinalOosAfterConfirmation
  <2> SUFFICES ASSUME IInv,
                      \/ \E n \in Rows : evidence[n] # "NONE"
                      \/ \E w \in Workers : Holds(w, "confirm")
               PROVE  row["confirm"].status # "ABSENT"
    BY DEF FinalOosAfterConfirmation, IInv, RowsSound
  <2>1. CASE \E n \in Rows : evidence[n] # "NONE"
    BY <2>1 DEF IInv, RowsSound
  <2>2. CASE \E w \in Workers : Holds(w, "confirm")
    BY <2>2 DEF IInv, RequestSound, Holds
  <2> QED  BY <2>1, <2>2
<1> QED  BY <1>1, ExperimentInvariant, PTL

\* A revision is validated by evidence that passes on the frozen holdout, and
\* until a worker is overtaken by the evidence its confirmation names.
THEOREM ConfirmationSafety ==
    Spec => [](ValidationIsEarned /\ (~overtaken => ConfirmationTellsRevision))
<1>1. IInv => ValidationIsEarned /\ (~overtaken => ConfirmationTellsRevision)
  BY DEF IInv, Undisturbed, TablesSound
<1> QED  BY <1>1, ExperimentInvariant, PTL

\* Until a worker is overtaken, a verdict has its ground in the chain.
THEOREM VerdictSafety == Spec => [](~overtaken => VerdictHasGround)
<1>1. IInv => (~overtaken => VerdictHasGround)
  BY DEF IInv, Undisturbed, TablesSound
<1> QED  BY <1>1, ExperimentInvariant, PTL

-----------------------------------------------------------------------------
(* Decisions *)

\* Every step writes at most the row of one stage: a request its own, and only
\* the completion of a holdout run writes evidence into that stage's row.
RowWritten(k, s) ==
    /\ row' = [row EXCEPT ![k] = s]
    /\ ~overtaken' => row[k].status \notin Finished
    /\ k = "holdout" /\ lock # "NONE" => s.result # "evidence"

\* A worker holds no finished row until a worker is overtaken.
LEMMA HeldIsUnfinished ==
    ASSUME IInv, NEW w \in Workers, NEW k \in Kinds, Holds(w, k), ~overtaken
    PROVE  row[k].status \notin Finished
BY HolderAlone DEF Finished

LEMMA StepWritesRow ==
    ASSUME IInv, [Next]_vars
    PROVE  row' = row \/ \E k \in Kinds, s \in RunRows : RowWritten(k, s)
<1> USE DEF tables
<1> DEFINE Goal == row' = row \/ \E k \in Kinds, s \in RunRows : RowWritten(k, s)
<1>1. /\ \A w \in Workers : req[w] \in Requests /\ req[w].kind \in Kinds
      /\ \A k \in Kinds : row[k] \in RunRows
  BY DEF IInv, TypeOK, Requests
<1>2. \A k \in Kinds : Running(row[k]) \in RunRows /\ Running(row[k]).result = "progress"
  BY <1>1 DEF Running, RunRows
<1>3. ASSUME NEW w \in Workers, NEW k \in Kinds, Begin(w, k)
      PROVE  Goal
  BY <1>3 DEF Begin
<1>4. ASSUME NEW w \in Workers, Claim(w)
      PROVE  Goal
  <2>1. CASE ClaimRefused(w) \/ ClaimAbsent(w) \/ InsertLoses(w)
    BY <2>1 DEF ClaimRefused, ClaimAbsent, InsertLoses
  <2>2. CASE TakeOver(w) \/ InsertRun(w)
    <3>1. PICK k \in Kinds : /\ row' = [row EXCEPT ![k] = Running(row[k])]
                             /\ row[k].status \notin Finished
      BY <1>1, <2>2 DEF TakeOver, InsertRun, Write, Recoverable, Finished
    <3> QED  BY <1>2, <3>1 DEF RowWritten
  <2> QED  BY <1>4, <2>1, <2>2 DEF Claim
<1>5. ASSUME NEW w \in Workers, Evaluate(w)
      PROVE  Goal
  <2>1. CASE ReadBounds(w) \/ AbandonTrain(w) \/ StoreEvidence(w) \/ ReadChain(w)
    BY <2>1 DEF ReadBounds, AbandonTrain, StoreEvidence, ReadChain
  <2>2. CASE EvaluateVariant(w) \/ FailRun(w)
    <3>1. PICK k \in Kinds, s \in RunRows :
             Holds(w, k) /\ row' = [row EXCEPT ![k] = s] /\ s.result # "evidence"
                         /\ overtaken' = overtaken
      <4>1. PICK k \in Kinds : k = req[w].kind
        BY <1>1
      <4>2. /\ [row[k] EXCEPT !.result = "progress", !.fresh = TRUE] \in RunRows
            /\ [row[k] EXCEPT !.result = "progress", !.fresh = TRUE].result = "progress"
            /\ [row[k] EXCEPT !.status = "FAILED", !.result = "error", !.fresh = TRUE] \in RunRows
            /\ [row[k] EXCEPT !.status = "FAILED", !.result = "error", !.fresh = TRUE].result = "error"
        BY <1>1 DEF RunRows
      <4>3. Holds(w, k) /\ overtaken' = overtaken
        BY <2>2, <4>1 DEF EvaluateVariant, FailRun, Holds, HoldingSteps
      <4> QED  BY <2>2, <4>1, <4>2, <4>3 DEF EvaluateVariant, FailRun, Write
    <3> QED  BY <3>1, HeldIsUnfinished DEF RowWritten
  <2>3. CASE \/ CompleteTrain(w) \/ CompleteHoldout(w)
             \/ FinishConfirm(w) \/ FinishVerify(w)
    <3>1. PICK k \in Kinds, status \in Finished :
             /\ Holds(w, k) /\ Complete(w, k, status) /\ overtaken' = overtaken
             /\ k = "holdout" => lock = "NONE"
      BY <2>3 DEF CompleteTrain, CompleteHoldout, FinishConfirm, FinishVerify,
                  Holds, HoldingSteps, Finished, Kinds
    <3>2. PICK s \in RunRows : row' = [row EXCEPT ![k] = s]
      BY <3>1, Finishing
    <3> QED  BY <3>1, <3>2, HeldIsUnfinished DEF RowWritten
  <2> QED  BY <1>5, <2>1, <2>2, <2>3 DEF Evaluate
<1>6. ASSUME NEW k \in Kinds, LeaseExpires(k)
      PROVE  Goal
  <2>1. PICK s \in RunRows : s = [row[k] EXCEPT !.fresh = FALSE]
    BY <1>1 DEF RunRows
  <2>2. row' = [row EXCEPT ![k] = s] /\ s.result = row[k].result /\ row[k].status = "RUNNING"
    BY <1>1, <1>6, <2>1 DEF LeaseExpires, Write, RunRows
  <2>3. row[k].result # "evidence" /\ row[k].status \notin Finished
    BY <2>2 DEF IInv, RowsSound, Finished
  <2> QED  BY <2>2, <2>3 DEF RowWritten
<1>7. CASE DatasetGrows \/ RegisterElsewhere \/ Crash \/ UNCHANGED vars
  BY <1>7 DEF DatasetGrows, RegisterElsewhere, Crash, vars
<1> QED  BY <1>3, <1>4, <1>5, <1>6, <1>7 DEF Next

\* A lock and the evidence of a final OOS are stored once, and a validation is
\* never taken back.
LEMMA StoredOnce ==
    ASSUME IInv, [Next]_vars
    PROVE  /\ lock # "NONE" => lock' = lock
           /\ \A n \in Rows : evidence[n] # "NONE" => evidence'[n] = evidence[n]
           /\ revision.validated # 0 => revision'.validated # 0
<1> USE DEF tables
<1>1. revision \in Revisions /\ evidence \in [Rows -> {"NONE"} \cup Decisions]
  BY DEF IInv, TypeOK
<1>2. CASE UNCHANGED <<lock, revision, evidence>>
  BY <1>2
<1>3. ASSUME NEW w \in Workers, InsertRun(w)
      PROVE  UNCHANGED <<lock, evidence>> /\ revision'.validated = revision.validated
  BY <1>1, <1>3 DEF InsertRun, Revisions
<1>4. ASSUME NEW w \in Workers, CompleteHoldout(w)
      PROVE  UNCHANGED <<revision, evidence>> /\ lock = "NONE"
  BY <1>4 DEF CompleteHoldout
<1>5. ASSUME NEW w \in Workers, StoreEvidence(w)
      PROVE  /\ UNCHANGED <<lock, revision>>
             /\ \A n \in Rows : evidence[n] # "NONE" => evidence'[n] = evidence[n]
  BY <1>1, <1>5 DEF StoreEvidence
<1>6. ASSUME NEW w \in Workers, FinishConfirm(w)
      PROVE  /\ UNCHANGED <<lock, evidence>>
             /\ revision.validated # 0 => revision'.validated # 0
  <2>1. req[w].at # 0
    BY ExperimentAssumption DEF IInv, TypeOK, Requests
  <2> QED  BY <1>1, <1>6, <2>1 DEF FinishConfirm, Revisions
<1>7. CASE RegisterElsewhere
  BY <1>1, <1>7 DEF RegisterElsewhere, Revisions
<1>8. \/ UNCHANGED <<lock, revision, evidence>> \/ RegisterElsewhere
      \/ \E w \in Workers : InsertRun(w) \/ CompleteHoldout(w) \/ StoreEvidence(w)
                            \/ FinishConfirm(w)
  BY DEF Next, Begin, Claim, ClaimRefused, ClaimAbsent, TakeOver, InsertLoses, Evaluate,
     ReadBounds, AbandonTrain, EvaluateVariant, CompleteTrain, ReadChain, FinishVerify,
     FailRun, LeaseExpires, DatasetGrows, Crash, vars
<1> QED  BY <1>2, <1>3, <1>4, <1>5, <1>6, <1>7, <1>8

\* Nothing that was decided is ever undone, whichever worker writes last.
THEOREM DecisionSafety == Spec => DecisionsSurviveLostLeases
<1> DEFINE A == /\ lock # "NONE" =>
                     /\ lock' = lock
                     /\ row'["holdout"].result = "evidence" => row'["holdout"] = row["holdout"]
                /\ \A n \in Rows : evidence[n] # "NONE" => evidence'[n] = evidence[n]
                /\ revision.validated # 0 => revision'.validated # 0
                /\ ~overtaken' =>
                     \A k \in Kinds : row[k].status \in Finished => row'[k] = row[k]
<1>1. ASSUME IInv, [Next]_vars
      PROVE  A
  <2>1. "holdout" \in Kinds
    BY DEF Kinds
  <2>2. CASE row' = row
    BY <1>1, <2>2, StoredOnce
  <2>3. CASE \E k \in Kinds, s \in RunRows : RowWritten(k, s)
    <3>1. PICK k \in Kinds, s \in RunRows : RowWritten(k, s)
      BY <2>3
    <3>2. \A j \in Kinds : row'[j] = IF j = k THEN s ELSE row[j]
      BY <1>1, <3>1 DEF RowWritten, IInv, TypeOK
    <3>3. lock # "NONE" =>
             (row'["holdout"].result = "evidence" => row'["holdout"] = row["holdout"])
      BY <2>1, <3>1, <3>2 DEF RowWritten
    <3>4. ~overtaken' => \A j \in Kinds : row[j].status \in Finished => row'[j] = row[j]
      BY <3>1, <3>2 DEF RowWritten
    <3> QED  BY <1>1, <3>3, <3>4, StoredOnce
  <2> QED  BY <1>1, <2>2, <2>3, StepWritesRow
<1>2. IInv /\ [Next]_vars => [A]_vars
  BY <1>1
<1> QED  BY <1>2, ExperimentInvariant, PTL DEF Spec, DecisionsSurviveLostLeases

-----------------------------------------------------------------------------
(* The experiment that decides by the rules *)

\* What was recorded recomputes from itself: the contract from the lineage it
\* names, the comparison and the selection from the replays stored with them.
RecordRecomputes ==
    /\ contract # None => ContractHolds
    /\ lock # "NONE" => CalculationsHold

\* Only the completion of the holdout run writes the lock.
LEMMA LockWrittenOnce ==
    ASSUME NEW w \in Workers, Serve(w) \/ GenerateMatrix(w) \/ MatrixRefused(w) \/ VerifyChain(w)
    PROVE  lock' = lock /\ UNCHANGED <<declared, holdout, decision>>
<1> USE DEF tables
<1>1. CASE Serve(w)
  <2>1. ASSUME NEW k \in Kinds, Begin(w, k)
        PROVE  lock' = lock
    BY <2>1 DEF Begin
  <2>2. ASSUME Claim(w)
        PROVE  lock' = lock
    BY <2>2 DEF Claim, ClaimRefused, ClaimAbsent, TakeOver, InsertRun, InsertLoses
  <2>3. ASSUME \/ EvaluateVariant(w) \/ CompleteTrain(w) \/ StoreEvidence(w)
               \/ FinishConfirm(w) \/ FinishVerify(w) \/ FailRun(w)
        PROVE  lock' = lock
    BY <2>3 DEF EvaluateVariant, CompleteTrain, StoreEvidence, FinishConfirm,
                FinishVerify, FailRun
  <2> QED  BY <1>1, <2>1, <2>2, <2>3 DEF Serve
<1>2. CASE GenerateMatrix(w)
  BY <1>2 DEF GenerateMatrix, ReadBounds
<1>3. CASE MatrixRefused(w)
  BY <1>3 DEF MatrixRefused, AbandonTrain
<1>4. CASE VerifyChain(w)
  BY <1>4 DEF VerifyChain
<1> QED  BY <1>1, <1>2, <1>3, <1>4

\* Evidence keeps the replays it was computed from.
LEMMA EvidenceKeepsReplays ==
    ASSUME NEW replays \in Replays
    PROVE  LET stored == Evidence(replays, Baseline) IN
           [i \in DOMAIN stored |-> stored[i].replay] = replays
<1> DEFINE stored == Evidence(replays, Baseline)
<1>1. replays = [i \in 1..Matrix |-> replays[i]]
  BY DeclaredAssumption
<1>2. DOMAIN stored = 1..Matrix /\ \A i \in 1..Matrix : stored[i].replay = replays[i]
  BY <1>1 DEF Evidence
<1> QED  BY <1>1, <1>2

LEMMA RecordStays ==
    ASSUME RecordRecomputes, UNCHANGED <<declared, holdout, decision>>, lock' = lock
    PROVE  RecordRecomputes'
BY DEF RecordRecomputes, declared, ContractHolds, CalculationsHold, RecordedLineage, Fingerprint

LEMMA RecordInit == DeclaredInit => RecordRecomputes
BY DEF DeclaredInit, Init, RecordRecomputes

LEMMA RecordNext == RecordRecomputes /\ [DeclaredNext]_allVars => RecordRecomputes'
<1> SUFFICES ASSUME RecordRecomputes, [DeclaredNext]_allVars
             PROVE  RecordRecomputes'
  OBVIOUS
<1> USE DEF tables
<1>1. ASSUME NEW raw \in Payloads, DeclareContract(raw)
      PROVE  RecordRecomputes'
  <2>1. lock' = lock /\ UNCHANGED <<strategy, holdout, decision>>
    BY <1>1 DEF DeclareContract, vars
  <2>2. ContractHolds'
    BY <1>1, <2>1 DEF DeclareContract, ContractHolds, RecordedLineage, Fingerprint, Lineage
  <2>3. lock # "NONE" => CalculationsHold'
    BY <2>1 DEF RecordRecomputes, CalculationsHold
  <2> QED  BY <2>1, <2>2, <2>3 DEF RecordRecomputes
<1>2. ASSUME NEW w \in Workers,
             Serve(w) \/ GenerateMatrix(w) \/ MatrixRefused(w) \/ VerifyChain(w)
      PROVE  RecordRecomputes'
  BY <1>2, LockWrittenOnce, RecordStays
<1>3. ASSUME NEW w \in Workers, SelectVariant(w)
      PROVE  RecordRecomputes'
  <2>1. PICK replays \in Replays : /\ holdout' = Evidence(replays, Baseline)
                                   /\ decision' = Selection(replays, Baseline)
    BY <1>3 DEF SelectVariant
  <2>2. CalculationsHold'
    BY <2>1, EvidenceKeepsReplays DEF CalculationsHold
  <2>3. contract # None => ContractHolds'
    BY <1>3 DEF SelectVariant, declared, RecordRecomputes, ContractHolds, RecordedLineage, Fingerprint
  <2> QED  BY <1>3, <2>2, <2>3 DEF RecordRecomputes, SelectVariant, declared
<1>4. ASSUME Surroundings
      PROVE  RecordRecomputes'
  <2>1. lock' = lock
    BY <1>4 DEF Surroundings, LeaseExpires, DatasetGrows, RegisterElsewhere, Crash
  <2> QED  BY <1>4, <2>1, RecordStays DEF Surroundings
<1>5. CASE UNCHANGED allVars
  BY <1>5, RecordStays DEF allVars, vars
<1> QED  BY <1>1, <1>2, <1>3, <1>4, <1>5 DEF DeclaredNext

\* A verifier that recomputes finds what the machine's verifier finds.
LEMMA RecomputationAgrees ==
    ASSUME RecordRecomputes, contract # None, NEW w \in Workers, VerifyChain(w)
    PROVE  ReadChain(w)
<1>1. SelectionPasses => ContractHolds /\ CalculationsHold
  BY DEF SelectionPasses, RecordRecomputes
<1> QED  BY <1>1 DEF VerifyChain, ReadChain

LEMMA StepImplements == RecordRecomputes /\ [DeclaredNext]_allVars => [Next]_vars
<1> SUFFICES ASSUME RecordRecomputes, [DeclaredNext]_allVars
             PROVE  [Next]_vars
  OBVIOUS
<1>1. ASSUME NEW raw \in Payloads, DeclareContract(raw)
      PROVE  UNCHANGED vars
  BY <1>1 DEF DeclareContract
<1>2. ASSUME NEW w \in Workers, Serve(w)
      PROVE  Next
  BY <1>2 DEF Serve, Next, Evaluate
<1>3. ASSUME NEW w \in Workers, GenerateMatrix(w) \/ MatrixRefused(w) \/ SelectVariant(w)
      PROVE  Next
  BY <1>3 DEF GenerateMatrix, MatrixRefused, SelectVariant, Next, Evaluate
<1>4. ASSUME contract # None, NEW w \in Workers, VerifyChain(w)
      PROVE  Next
  BY <1>4, RecomputationAgrees DEF Next, Evaluate
<1>5. ASSUME Surroundings
      PROVE  Next
  BY <1>5 DEF Surroundings, Next
<1>6. CASE UNCHANGED allVars
  BY <1>6 DEF allVars
<1> QED  BY <1>1, <1>2, <1>3, <1>4, <1>5, <1>6 DEF DeclaredNext

\* Whatever the dataset grows to after the declaration, what the experiment
\* recorded still recomputes (verify of variant_experiment_contracts.py and of
\* variant_holdout_runs.py).
THEOREM RecordRecomputesAlways == DeclaredSpec => []RecordRecomputes
BY RecordInit, RecordNext, PTL DEF DeclaredSpec

\* Deciding by the rules and verifying by recomputation adds nothing to the
\* machine: its verdict is that of the stored chain alone.
THEOREM DeclaredRefinement == DeclaredSpec => ImplementsExperiment
<1>1. DeclaredInit => Init
  BY DEF DeclaredInit
<1> QED
  BY <1>1, StepImplements, RecordRecomputesAlways, PTL
  DEF DeclaredSpec, Spec, ImplementsExperiment

\* The declared experiment keeps the machine's invariant.
THEOREM DeclaredSafety == DeclaredSpec => []IInv
BY DeclaredRefinement, ExperimentInvariant, PTL DEF ImplementsExperiment

\* Nor does it undo a decision.
THEOREM DeclaredDecisionSafety == DeclaredSpec => DecisionsSurviveLostLeases
BY DeclaredRefinement, DecisionSafety, PTL DEF ImplementsExperiment

-----------------------------------------------------------------------------
(* The ranking *)

\* The worst of two measurements.
LEMMA WorstOfTwo ==
    ASSUME NEW f, \A s \in Scenarios : f[s] \in Int
    PROVE  LET T == {f[s] : s \in Scenarios} IN
           /\ Min(T) \in Int /\ \A s \in Scenarios : Min(T) <= f[s]
           /\ \E s \in Scenarios : Min(T) = f[s]
<1> DEFINE T == {f[s] : s \in Scenarios}
<1>1. T = {f["baseline"], f["adverse_cost"]} /\ f["baseline"] \in Int /\ f["adverse_cost"] \in Int
    BY DEF Scenarios
<1>2. \E x \in T : \A y \in T : x =< y
    BY <1>1
<1>3. Min(T) \in T /\ \A y \in T : Min(T) =< y
    BY <1>2 DEF Min
<1> QED BY <1>1, <1>3

LEMMA MagnitudesAreIntegers ==
    ASSUME NEW n \in Int
    PROVE  Magnitude(n) \in Int
BY DEF Magnitude

LEMMA DeepestOfTwo ==
    ASSUME NEW f, \A s \in Scenarios : f[s] \in Int
    PROVE  Max({f[s] : s \in Scenarios}) \in Int
<1> DEFINE T == {f[s] : s \in Scenarios}
<1>1. T = {f["baseline"], f["adverse_cost"]} /\ f["baseline"] \in Int /\ f["adverse_cost"] \in Int
    BY DEF Scenarios
<1>2. \E x \in T : \A y \in T : x >= y
    BY <1>1
<1>3. Max(T) \in T
    BY <1>2 DEF Max
<1> QED BY <1>1, <1>3

LEMMA RankInputsTyped ==
    ASSUME NEW replays \in Replays, NEW i \in 1..Matrix
    PROVE  LET a == RankInputs(replays[i]) IN
           /\ a = [factor |-> a.factor, net |-> a.net, drawdown |-> a.drawdown]
           /\ a.factor \in Int /\ a.net \in Int /\ a.drawdown \in Int
           /\ \A s \in Scenarios : a.factor <= replays[i][s].factor
           /\ \E s \in Scenarios : a.factor = replays[i][s].factor
<1> DEFINE factors == [s \in Scenarios |-> replays[i][s].factor]
           nets == [s \in Scenarios |-> replays[i][s].net]
           depths == [s \in Scenarios |-> Magnitude(replays[i][s].drawdown)]
<1>1. \A s \in Scenarios : factors[s] \in Int /\ nets[s] \in Int /\ depths[s] \in Int
    BY DeclaredAssumption, MagnitudesAreIntegers
<1>2. /\ RankInputs(replays[i]).factor = Min({factors[s] : s \in Scenarios})
      /\ RankInputs(replays[i]).net = Min({nets[s] : s \in Scenarios})
      /\ RankInputs(replays[i]).drawdown = Max({depths[s] : s \in Scenarios})
      /\ RankInputs(replays[i]) = [factor |-> RankInputs(replays[i]).factor, net |-> RankInputs(replays[i]).net,
                                   drawdown |-> RankInputs(replays[i]).drawdown]
    <2>1. /\ {factors[s] : s \in Scenarios} = {replays[i][s].factor : s \in Scenarios}
          /\ {nets[s] : s \in Scenarios} = {replays[i][s].net : s \in Scenarios}
          /\ {depths[s] : s \in Scenarios} = {Magnitude(replays[i][s].drawdown) : s \in Scenarios}
        OBVIOUS
    <2> HIDE DEF factors, nets, depths
    <2> QED BY <2>1 DEF RankInputs
<1>3. /\ Min({factors[s] : s \in Scenarios}) \in Int /\ Min({nets[s] : s \in Scenarios}) \in Int
      /\ Max({depths[s] : s \in Scenarios}) \in Int
      /\ \A s \in Scenarios : Min({factors[z] : z \in Scenarios}) <= factors[s]
      /\ \E s \in Scenarios : Min({factors[z] : z \in Scenarios}) = factors[s]
    <2> HIDE DEF factors, nets, depths
    <2> QED BY <1>1, WorstOfTwo, DeepestOfTwo
<1> QED BY <1>2, <1>3

\* The ranking orders the variants: no two of them are equal in it.
LEMMA RanksAreOrdered ==
    ASSUME NEW replays \in Replays, NEW i \in 1..Matrix, NEW j \in 1..Matrix
    PROVE  /\ ~RanksBefore(replays, i, i)
           /\ i = j \/ RanksBefore(replays, i, j) \/ RanksBefore(replays, j, i)
           /\ \A k \in 1..Matrix : RanksBefore(replays, i, j) /\ RanksBefore(replays, j, k) => RanksBefore(replays, i, k)
<1> DEFINE key(n) == RankInputs(replays[n])
<1>1. \A n \in 1..Matrix :
         /\ key(n) = [factor |-> key(n).factor, net |-> key(n).net, drawdown |-> key(n).drawdown]
         /\ key(n).factor \in Int /\ key(n).net \in Int /\ key(n).drawdown \in Int /\ FingerprintRank[n] \in Int
    BY RankInputsTyped, DeclaredAssumption
<1>2. \A m, n \in 1..Matrix :
         RanksBefore(replays, m, n) <=>
            (\/ key(m).factor > key(n).factor
             \/ key(m).factor = key(n).factor /\ key(m).net > key(n).net
             \/ key(m).factor = key(n).factor /\ key(m).net = key(n).net /\ key(m).drawdown < key(n).drawdown
             \/ key(m) = key(n) /\ FingerprintRank[m] < FingerprintRank[n])
    BY DEF RanksBefore
<1>3. \A m, n \in 1..Matrix : FingerprintRank[m] = FingerprintRank[n] => m = n
    BY DeclaredAssumption
<1>4. \A m, n \in 1..Matrix :
         key(m) = key(n) <=> key(m).factor = key(n).factor /\ key(m).net = key(n).net /\ key(m).drawdown = key(n).drawdown
    <2>1. ASSUME NEW m \in 1..Matrix, NEW n \in 1..Matrix, key(m).factor = key(n).factor, key(m).net = key(n).net,
                 key(m).drawdown = key(n).drawdown
          PROVE  key(m) = key(n)
        <3> HIDE DEF key
        <3> QED BY <1>1, <2>1
    <2> QED BY <2>1
<1> HIDE DEF key
<1>5. ~RanksBefore(replays, i, i)
    BY <1>1, <1>2
<1>6. i = j \/ RanksBefore(replays, i, j) \/ RanksBefore(replays, j, i)
    BY <1>1, <1>2, <1>3, <1>4
<1>7. ASSUME NEW k \in 1..Matrix, RanksBefore(replays, i, j), RanksBefore(replays, j, k)
      PROVE  RanksBefore(replays, i, k)
    BY <1>1, <1>2, <1>4, <1>7
<1> QED BY <1>5, <1>6, <1>7

\* Of the variants of a set, each but the best has others ahead, and no two have
\* as many; so the ranking lists them all, each behind those that rank before it.
Ahead(replays, S, i) == {j \in S : RanksBefore(replays, j, i)}

LEMMA VariantSetsFinite ==
    ASSUME NEW S \in SUBSET (1..Matrix)
    PROVE  IsFiniteSet(S) /\ Cardinality(S) \in Nat
<1>1. 1 \in Int /\ Matrix \in Int
    BY ExperimentAssumption
<1>2. IsFiniteSet(1..Matrix)
    BY <1>1, FS_Interval
<1>3. IsFiniteSet(S)
    BY <1>2, FS_Subset
<1> QED BY <1>3, FS_CardinalityType

LEMMA AheadCounts ==
    ASSUME NEW replays \in Replays, NEW S \in SUBSET (1..Matrix), NEW i \in S, NEW j \in S, RanksBefore(replays, i, j)
    PROVE  Cardinality(Ahead(replays, S, i)) < Cardinality(Ahead(replays, S, j))
<1>1. IsFiniteSet(S)
    BY VariantSetsFinite
<1>2. Ahead(replays, S, i) \in SUBSET Ahead(replays, S, j)
    BY RanksAreOrdered DEF Ahead
<1>3. i \in Ahead(replays, S, j) /\ i \notin Ahead(replays, S, i)
    BY RanksAreOrdered DEF Ahead
<1>4. Ahead(replays, S, i) \in SUBSET S /\ Ahead(replays, S, j) \in SUBSET S
    BY DEF Ahead
<1>5. /\ IsFiniteSet(Ahead(replays, S, i)) /\ IsFiniteSet(Ahead(replays, S, j))
      /\ Cardinality(Ahead(replays, S, i)) \in Nat /\ Cardinality(Ahead(replays, S, j)) \in Nat
    BY <1>1, <1>4, FS_Subset, FS_CardinalityType
<1>6. /\ Cardinality(Ahead(replays, S, i)) <= Cardinality(Ahead(replays, S, j))
      /\ Cardinality(Ahead(replays, S, i)) # Cardinality(Ahead(replays, S, j))
    BY <1>2, <1>3, <1>5, FS_Subset
<1> QED BY <1>5, <1>6

LEMMA RankingIsSorted ==
    ASSUME NEW replays \in Replays, NEW S \in SUBSET (1..Matrix)
    PROVE  LET ranked == Ranking(replays, S) size == Cardinality(S) IN
           /\ size \in Nat /\ ranked \in [1..size -> S]
           /\ \A i \in S : \E n \in 1..size : ranked[n] = i
           /\ \A m, n \in 1..size : m < n => RanksBefore(replays, ranked[m], ranked[n])
<1> DEFINE size == Cardinality(S)
           ahead(i) == Ahead(replays, S, i)
           place == [i \in S |-> Cardinality(ahead(i)) + 1]
           ranked == Ranking(replays, S)
<1>1. IsFiniteSet(S) /\ size \in Nat
    BY VariantSetsFinite
<1>2. ASSUME NEW i \in S PROVE Cardinality(ahead(i)) \in 0 .. size - 1
    <2>1. ahead(i) \in SUBSET S /\ i \notin ahead(i)
        BY RanksAreOrdered DEF Ahead
    <2>2. IsFiniteSet(ahead(i)) /\ Cardinality(ahead(i)) \in Nat
        BY <1>1, <2>1, FS_Subset, FS_CardinalityType
    <2>3. Cardinality(ahead(i)) <= size /\ Cardinality(ahead(i)) # size
        <3> HIDE DEF ahead
        <3> QED BY <1>1, <2>1, FS_Subset
    <2> QED BY <1>1, <2>2, <2>3
<1>3. place \in [S -> 1..size]
    BY <1>1, <1>2
<1>4. \A i, j \in S : place[i] = place[j] => i = j
    <2>1. ASSUME NEW i \in S, NEW j \in S, i # j PROVE place[i] # place[j]
        <3>1. RanksBefore(replays, i, j) \/ RanksBefore(replays, j, i)
            BY <2>1, RanksAreOrdered
        <3>2. Cardinality(ahead(i)) # Cardinality(ahead(j))
            BY <1>1, <1>2, <3>1, AheadCounts
        <3> QED BY <1>1, <1>2, <3>2
    <2> QED BY <2>1
<1>5. \A n \in 1..size : \E i \in S : place[i] = n
    <2> HIDE DEF place
    <2>1. IsFiniteSet(1..size) /\ Cardinality(1..size) = size
        BY <1>1, FS_Interval
    <2>2. place \in Injection(S, 1..size)
        BY <1>3, <1>4, Fun_IsInj
    <2>3. place \in Surjection(S, 1..size)
        BY <1>1, <2>1, <2>2, FS_Injection
    <2> QED BY <2>3 DEF Surjection
<1>6. \A n \in 1..size : ranked[n] \in S /\ place[ranked[n]] = n
    <2>1. ASSUME NEW n \in 1..size PROVE ranked[n] \in S /\ place[ranked[n]] = n
        <3>1. ranked[n] = CHOOSE i \in S : Cardinality(ahead(i)) = n - 1
            BY <2>1 DEF Ranking, Ahead
        <3>2. PICK i \in S : place[i] = n
            BY <1>5, <2>1
        <3>3. Cardinality(ahead(i)) = n - 1
            BY <1>1, <1>2, <3>2
        <3>4. ranked[n] \in S /\ Cardinality(ahead(ranked[n])) = n - 1
            BY <3>1, <3>3
        <3> QED BY <1>1, <3>4
    <2> QED BY <2>1
<1>7. ranked \in [1..size -> S]
    BY <1>6 DEF Ranking
<1>8. \A i \in S : \E n \in 1..size : ranked[n] = i
    BY <1>3, <1>4, <1>6
<1>9. ASSUME NEW m \in 1..size, NEW n \in 1..size, m < n
      PROVE  RanksBefore(replays, ranked[m], ranked[n])
    <2>1. PICK i \in S, j \in S : i = ranked[m] /\ j = ranked[n]
        BY <1>6
    <2>2. Cardinality(ahead(i)) < Cardinality(ahead(j))
        <3>1. place[i] = m /\ place[j] = n
            BY <1>6, <2>1
        <3>2. Cardinality(ahead(i)) + 1 = m /\ Cardinality(ahead(j)) + 1 = n
            BY <3>1
        <3> HIDE DEF ahead
        <3> QED BY <1>1, <1>2, <1>9, <3>2
    <2>3. i # j /\ ~RanksBefore(replays, j, i)
        BY <1>1, <1>2, <2>2, AheadCounts
    <2> QED BY <2>1, <2>3, RanksAreOrdered
<1> QED BY <1>1, <1>7, <1>8, <1>9

\* The variant ranked first has the best worst case: no eligible one measured a
\* better factor than it in every scenario.
LEMMA FirstIsUnbeaten ==
    ASSUME NEW replays \in Replays,
           NEW S, S = {i \in DOMAIN replays : Eligible(i = Baseline, replays[i])}, S # {}
    PROVE  LET best == Ranking(replays, S)[1] IN
           /\ best \in S
           /\ \A i \in S : \E s \in Scenarios : replays[i][s].factor <= replays[best][s].factor
<1> DEFINE size == Cardinality(S)
           best == Ranking(replays, S)[1]
<1>1. DOMAIN replays = 1..Matrix /\ S \in SUBSET (1..Matrix)
    BY DeclaredAssumption
<1>2. /\ size \in Nat /\ Ranking(replays, S) \in [1..size -> S]
      /\ \A i \in S : \E n \in 1..size : Ranking(replays, S)[n] = i
      /\ \A m, n \in 1..size : m < n => RanksBefore(replays, Ranking(replays, S)[m], Ranking(replays, S)[n])
    BY <1>1, RankingIsSorted
<1>3. 1 \in 1..size /\ best \in S
    BY <1>2
<1>4. ASSUME NEW i \in S
      PROVE  \E s \in Scenarios : replays[i][s].factor <= replays[best][s].factor
    <2>1. best = i \/ RanksBefore(replays, best, i)
        <3>1. PICK n \in 1..size : Ranking(replays, S)[n] = i
            BY <1>2
        <3> QED BY <1>2, <1>3, <3>1
    <2>2. PICK b \in 1..Matrix, j \in 1..Matrix : b = best /\ j = i
        BY <1>1, <1>3
    <2>3. /\ RankInputs(replays[b]).factor \in Int /\ RankInputs(replays[j]).factor \in Int
          /\ \A s \in Scenarios : RankInputs(replays[b]).factor <= replays[b][s].factor
        BY RankInputsTyped
    <2>4. PICK s \in Scenarios : RankInputs(replays[j]).factor = replays[j][s].factor
        BY RankInputsTyped
    <2>5. RankInputs(replays[b]).factor >= RankInputs(replays[j]).factor
        BY <2>1, <2>2, <2>3 DEF RanksBefore
    <2>6. replays[b][s].factor \in Int
        BY DeclaredAssumption
    <2>7. replays[j][s].factor <= replays[b][s].factor
        BY <2>3, <2>4, <2>5, <2>6
    <2> QED BY <2>2, <2>7
<1> QED BY <1>3, <1>4

\* The stored selection is that of replays the experiment can measure, and its
\* status is the lock's.
SelectionStored ==
    lock # "NONE" =>
        \E replays \in Replays :
            /\ holdout = Evidence(replays, Baseline) /\ decision = Selection(replays, Baseline)
            /\ lock = decision.status

LEMMA SelectionStays ==
    ASSUME SelectionStored, UNCHANGED <<holdout, decision>>, lock' = lock
    PROVE  SelectionStored'
BY DEF SelectionStored

LEMMA StoredNext == SelectionStored /\ [DeclaredNext]_allVars => SelectionStored'
<1> SUFFICES ASSUME SelectionStored, [DeclaredNext]_allVars
             PROVE  SelectionStored'
  OBVIOUS
<1> USE DEF tables
<1>1. ASSUME NEW raw \in Payloads, DeclareContract(raw)
      PROVE  SelectionStored'
  BY <1>1, SelectionStays DEF DeclareContract, vars
<1>2. ASSUME NEW w \in Workers,
             Serve(w) \/ GenerateMatrix(w) \/ MatrixRefused(w) \/ VerifyChain(w)
      PROVE  SelectionStored'
  BY <1>2, LockWrittenOnce, SelectionStays
<1>3. ASSUME NEW w \in Workers, SelectVariant(w)
      PROVE  SelectionStored'
  BY <1>3 DEF SelectVariant, SelectionStored
<1>4. ASSUME Surroundings
      PROVE  SelectionStored'
  <2>1. lock' = lock
    BY <1>4 DEF Surroundings, LeaseExpires, DatasetGrows, RegisterElsewhere, Crash
  <2> QED  BY <1>4, <2>1, SelectionStays DEF Surroundings
<1>5. CASE UNCHANGED allVars
  BY <1>5, SelectionStays DEF allVars, vars
<1> QED  BY <1>1, <1>2, <1>3, <1>4, <1>5 DEF DeclaredNext

LEMMA StoredIsUnbeaten == SelectionStored => SelectedIsUnbeaten
<1> SUFFICES ASSUME SelectionStored, lock # "NONE"
             PROVE  SelectedIsUnbeaten
  BY DEF SelectedIsUnbeaten
<1>1. PICK replays \in Replays :
         /\ holdout = Evidence(replays, Baseline) /\ decision = Selection(replays, Baseline)
         /\ lock = decision.status
  BY DEF SelectionStored
<1> DEFINE passes(i) == i # Baseline /\ \A s \in Scenarios : PassesGate(holdout[i].replay[s])
<1>2. PICK S : S = {i \in DOMAIN replays : Eligible(i = Baseline, replays[i])}
  OBVIOUS
<1>3. /\ decision.status = IF S = {} THEN "NO_ELIGIBLE_VARIANT" ELSE "SELECTED"
      /\ S # {} => decision.selected = Ranking(replays, S)[1]
  BY <1>1, <1>2 DEF Selection
<1>4. /\ DOMAIN holdout = 1..Matrix /\ DOMAIN replays = 1..Matrix
      /\ \A i \in 1..Matrix : holdout[i].replay = replays[i]
  BY <1>1, DeclaredAssumption DEF Evidence
<1>5. \A i \in 1..Matrix : passes(i) <=> i \in S
  BY <1>2, <1>4 DEF Eligible
<1>6. CASE S = {}
  <2>1. lock = "NO_ELIGIBLE_VARIANT"
    BY <1>1, <1>3, <1>6
  <2> QED  BY <1>4, <1>5, <1>6, <2>1 DEF SelectedIsUnbeaten
<1>7. CASE S # {}
  <2>1. lock = "SELECTED" /\ decision.selected = Ranking(replays, S)[1]
    BY <1>1, <1>3, <1>7
  <2>2. PICK best : best = Ranking(replays, S)[1]
    OBVIOUS
  <2>3. /\ best \in S /\ best \in 1..Matrix
        /\ \A i \in S : \E s \in Scenarios : replays[i][s].factor <= replays[best][s].factor
    BY <1>2, <1>4, <1>7, <2>2, FirstIsUnbeaten
  <2>4. passes(best)
    BY <1>5, <2>3
  <2>5. \A i \in DOMAIN holdout : passes(i) =>
           \E s \in Scenarios : holdout[i].replay[s].factor <= holdout[best].replay[s].factor
    BY <1>4, <1>5, <2>3
  <2> QED  BY <2>1, <2>2, <2>4, <2>5 DEF SelectedIsUnbeaten
<1> QED  BY <1>6, <1>7

\* No variant that passes the gate in every cost scenario measured a better profit
\* factor than the selected one in all of them, whatever the replays measured; and
\* nothing is selected only when no variant passes.
THEOREM SelectionSafety == DeclaredSpec => []SelectedIsUnbeaten
<1>1. DeclaredInit => SelectionStored
  BY DEF DeclaredInit, Init, SelectionStored
<1> QED
  BY <1>1, StoredNext, StoredIsUnbeaten, PTL DEF DeclaredSpec
=============================================================================
