----------------------- MODULE GenericDemoChainProofs -----------------------
(***************************************************************************)
(* Proofs, for every number of workers, requests, publications and         *)
(* configurations, of the safety invariants of GenericDemoChain; and, for  *)
(* one worker, that the service implements PublicationLedger.              *)
(***************************************************************************)
EXTENDS GenericDemoChain, TLAPS

\* The blank records have the types of the records they blank.
LEMMA BlankTyped == NoRow \in Rows /\ Idle \in RequestStates
BY DEF NoRow, Rows, Statuses, Idle, RequestStates, Steps

\* Moving a request to another step changes nothing else.
LEMMA GotoEffect ==
    ASSUME req \in [Workers -> RequestStates], NEW w \in Workers,
           NEW from, NEW to \in Steps, Goto(w, from, to)
    PROVE  /\ req' \in [Workers -> RequestStates]
           /\ req[w].step = from
           /\ req'[w].step = to
           /\ req'[w].fingerprint = req[w].fingerprint
           /\ req'[w].publication = req[w].publication
           /\ req'[w].seen = req[w].seen
           /\ req'[w].reason = req[w].reason
           /\ \A v \in Workers : v # w => req'[v] = req[v]
BY DEF Goto, RequestStates

\* A worker that answers is idle again.
LEMMA RespondEffect ==
    ASSUME req \in [Workers -> RequestStates], NEW w \in Workers,
           NEW from, Respond(w, from)
    PROVE  /\ req' \in [Workers -> RequestStates]
           /\ req[w].step = from
           /\ req'[w] = Idle
           /\ \A v \in Workers : v # w => req'[v] = req[v]
BY BlankTyped DEF Respond

\* The record each kind of request begins with is well typed.
LEMMA BeginsTyped ==
    /\ \A f \in Fingerprints :
          [Idle EXCEPT !.step = "lookup", !.fingerprint = f] \in RequestStates
    /\ \A p \in PublicationIds, row \in Rows :
          /\ [Idle EXCEPT !.step = "scan", !.publication = p, !.seen = row] \in RequestStates
          /\ [Idle EXCEPT !.step = "lifecycle", !.publication = p, !.seen = row] \in RequestStates
          /\ \A r \in Reasons :
                [Idle EXCEPT !.step = "control", !.publication = p,
                             !.seen = row, !.reason = r] \in RequestStates
BY BlankTyped DEF Idle, RequestStates, Steps, PublishSteps, BlockSteps

\* A request that goes on to block entries is a request.
LEMMA ReconcileMove ==
    ASSUME NEW r \in RequestStates, NEW reason \in Reasons
    PROVE  [r EXCEPT !.step = "control", !.reason = reason] \in RequestStates
BY DEF RequestStates, Steps, BlockSteps

\* Replacing one row.
LEMMA RowUpdate ==
    ASSUME rows \in [PublicationIds -> Rows], NEW p \in PublicationIds,
           NEW row \in Rows, rows' = [rows EXCEPT ![p] = row]
    PROVE  /\ rows' \in [PublicationIds -> Rows]
           /\ rows'[p] = row
           /\ \A q \in PublicationIds : q # p => rows'[q] = rows[q]
OBVIOUS

\* Replacing one request.
LEMMA RequestUpdate ==
    ASSUME req \in [Workers -> RequestStates], NEW w \in Workers,
           NEW r \in RequestStates, req' = [req EXCEPT ![w] = r]
    PROVE  /\ req' \in [Workers -> RequestStates]
           /\ req'[w] = r
           /\ \A v \in Workers : v # w => req'[v] = req[v]
OBVIOUS

\* A step that only moves a request among the steps that neither hold the
\* lock nor a fingerprint preserves the invariant if the new step is sound.
LEMMA QuietStep ==
    ASSUME IInv, NEW w \in Workers, NEW r \in RequestStates,
           req' = [req EXCEPT ![w] = r],
           UNCHANGED <<files, rows, issued, validated, lock, engine, installed>>,
           req[w].step \notin PublishSteps \cup {"controlReadback"},
           r.step \notin PublishSteps \cup {"controlReadback"},
           RequestSound(w)'
    PROVE  IInv'
<1> DEFINE Stay == \A v \in Workers : v # w => req'[v] = req[v]
<1>1. /\ req' \in [Workers -> RequestStates] /\ req'[w] = r /\ Stay
  BY RequestUpdate DEF IInv, TypeOK, ServiceTypeOK
<1>2. TypeOK'
  BY <1>1 DEF IInv, TypeOK, ServiceTypeOK, FilesTypeOK, EngineTypeOK, files, engine, memory
<1>3. CommittedRowsSound'
  BY DEF IInv, CommittedRowsSound, Committed
<1>4. \A v \in Workers : RequestSound(v)'
  <2> SUFFICES ASSUME NEW v \in Workers, v # w PROVE RequestSound(v)'
    OBVIOUS
  <2> QED
    BY <1>1 DEF IInv, RequestSound, Publishing, Committed, ExactAck, files
<1>5. LockSound' /\ ReadbackSeesOwnWrite'
  BY <1>1 DEF IInv, LockSound, ReadbackSeesOwnWrite, OwnManifest, OwnControl,
              PublishSteps, files
<1>6. PublishersExclusive'
  BY <1>1 DEF IInv, PublishersExclusive, Publishing, Committed
<1>7. ManifestPointsToConfig' /\ LoadedSound'
  BY DEF IInv, ManifestPointsToConfig, LoadedSound, files, engine, memory
<1>8. AcknowledgedByOwnRow' /\ BlockedWasInstalled' /\ ControlRecorded'
  BY DEF IInv, AcknowledgedByOwnRow, BlockedWasInstalled, ControlRecorded, ExactAck, files
<1> QED
  BY <1>2, <1>3, <1>4, <1>5, <1>6, <1>7, <1>8 DEF IInv

\* Preflight, the answers that change nothing, and the reads of a row are
\* quiet steps.
LEMMA QuietActions ==
    ASSUME IInv, NEW w \in Workers, RecordInstalled, UNCHANGED engine,
           \/ \E f \in Fingerprints : Preflight(w, f)
           \/ ReuseExisting(w) \/ NoExisting(w) \/ InsertLoses(w)
           \/ \E p \in PublicationIds : BeginPoll(w, p)
           \/ NoAck(w)
           \/ \E p \in PublicationIds, reason \in Reasons : BeginBlock(w, p, reason)
           \/ \E p \in PublicationIds : BeginReconcile(w, p)
           \/ ReconcileReturns(w) \/ ReconcileBlocks(w)
    PROVE  IInv'
<1> USE GenericFilesAssumption, LifecycleAssumption
<1>1. /\ UNCHANGED <<files, rows, issued, validated, lock>>
      /\ req[w] \in RequestStates
      /\ req \in [Workers -> RequestStates]
  BY DEF IInv, TypeOK, ServiceTypeOK, Preflight, ReuseExisting, NoExisting,
         InsertLoses, BeginPoll, NoAck, BeginBlock, BeginReconcile,
         ReconcileReturns, ReconcileBlocks
<1>2. UNCHANGED installed
  <2>1. control # None => control.publication_id \in installed
    BY <1>1 DEF IInv, ControlRecorded
  <2> QED
    BY <1>1, <2>1 DEF RecordInstalled, files
<1>3. ASSUME NEW from, Respond(w, from),
             from \notin PublishSteps \cup {"controlReadback"}
      PROVE  IInv'
  <2>1. RequestSound(w)'
    BY <1>1, <1>3 DEF Respond, RequestSound, Publishing, Idle, NoRow, PublishSteps, BlockSteps
  <2> QED
    BY <1>1, <1>2, <1>3, <2>1, QuietStep, BlankTyped DEF Respond, Idle, PublishSteps
<1>4. ASSUME NEW f \in Fingerprints, Preflight(w, f) PROVE IInv'
  <2> DEFINE r == [Idle EXCEPT !.step = "lookup", !.fingerprint = f]
  <2>1. RequestSound(w)'
    BY <1>1, <1>4 DEF Preflight, Begin, RequestSound, Publishing, Idle, NoRow,
                      PublishSteps, BlockSteps
  <2> QED
    BY <1>1, <1>2, <1>4, <2>1, QuietStep, BeginsTyped
       DEF Preflight, Begin, Idle, PublishSteps
<1>5. CASE NoExisting(w)
  <2>1. RequestSound(w)'
    BY <1>1, <1>5 DEF NoExisting, Goto, IInv, RequestSound, Publishing,
                      RequestStates, PublishSteps, BlockSteps
  <2> DEFINE r == [req[w] EXCEPT !.step = "insert"]
  <2>2. r \in RequestStates /\ req' = [req EXCEPT ![w] = r] /\ r.step = "insert"
    BY <1>1, <1>5 DEF NoExisting, Goto, RequestStates, Steps
  <2> QED
    BY <1>1, <1>2, <1>5, <2>1, <2>2, QuietStep DEF NoExisting, Goto, PublishSteps
<1>6. ASSUME NEW p \in PublicationIds,
             BeginPoll(w, p) \/ BeginReconcile(w, p)
                \/ \E reason \in Reasons : BeginBlock(w, p, reason)
      PROVE  IInv'
  <2>1. rows[p] \in Rows /\ Committed(p)
    BY <1>6 DEF IInv, TypeOK, ServiceTypeOK, BeginPoll, BeginReconcile,
                BeginBlock, CanBlock, Committed
  <2>2. PICK r \in RequestStates :
            /\ req' = [req EXCEPT ![w] = r] /\ req[w].step = "idle"
            /\ r.step \in {"scan", "lifecycle", "control"}
            /\ r.publication = p /\ r.seen = rows[p]
            /\ r.step = "control" => r.reason \in Reasons
    <3> USE <2>1, BeginsTyped
    <3>1. CASE BeginPoll(w, p)
      <4> WITNESS [Idle EXCEPT !.step = "scan", !.publication = p, !.seen = rows[p]]
                    \in RequestStates
      <4> QED BY <3>1 DEF BeginPoll, Begin, Idle
    <3>2. CASE BeginReconcile(w, p)
      <4> WITNESS [Idle EXCEPT !.step = "lifecycle", !.publication = p, !.seen = rows[p]]
                    \in RequestStates
      <4> QED BY <3>2 DEF BeginReconcile, Begin, Idle
    <3>3. ASSUME NEW reason \in Reasons, BeginBlock(w, p, reason)
          PROVE  \E r \in RequestStates :
                    /\ req' = [req EXCEPT ![w] = r] /\ req[w].step = "idle"
                    /\ r.step \in {"scan", "lifecycle", "control"}
                    /\ r.publication = p /\ r.seen = rows[p]
                    /\ r.step = "control" => r.reason \in Reasons
      <4> WITNESS [Idle EXCEPT !.step = "control", !.publication = p, !.seen = rows[p],
                               !.reason = reason] \in RequestStates
      <4> QED BY <3>3 DEF BeginBlock, Begin, Idle
    <3> QED
      BY <1>6, <3>1, <3>2, <3>3
  <2>3. req'[w] = r
    BY <1>1, <2>2, RequestUpdate
  <2>4. RequestSound(w)'
    BY <1>1, <2>1, <2>2, <2>3 DEF IInv, RequestSound, Publishing, PublishSteps,
            BlockSteps, Committed, AcknowledgedByOwnRow, ExactAck, files
  <2> QED
    BY <1>1, <1>2, <2>2, <2>4, QuietStep DEF PublishSteps
<1>7. CASE ReconcileBlocks(w)
  <2>1. RequestSound(w)'
    BY <1>1, <1>7 DEF ReconcileBlocks, IInv, RequestSound, Publishing,
            RequestStates, PublishSteps, BlockSteps, Committed, ExactAck, files
  <2> DEFINE r == [req[w] EXCEPT !.step = "control", !.reason = Lifecycle]
  <2>2. r \in RequestStates /\ r.step = "control"
    BY <1>1, ReconcileMove DEF RequestStates
  <2> QED
    BY <1>1, <1>2, <1>7, <2>1, <2>2, QuietStep DEF ReconcileBlocks, PublishSteps
<1> QED
  BY <1>3, <1>4, <1>5, <1>6, <1>7
     DEF ReuseExisting, InsertLoses, NoAck, ReconcileReturns, PublishSteps

\* The part of the invariant that no step of one worker disturbs: the
\* terminal's memory, and what the growing files and identities support.
LEMMA Frame ==
    ASSUME IInv, UNCHANGED engine, issued \subseteq issued', configs \subseteq configs',
           configs' \subseteq Configs, UNCHANGED acknowledgements,
           manifest' = manifest \/ (manifest' \in Manifests
                /\ manifest'.publication_id \in issued
                /\ ConfigOf[manifest'.fingerprint] \in configs),
           control' = control \/ control' \in Controls, RecordInstalled
    PROVE  /\ FilesTypeOK' /\ EngineTypeOK' /\ (installed \subseteq PublicationIds)'
           /\ ManifestPointsToConfig' /\ LoadedSound' /\ ControlRecorded'
           /\ installed \subseteq installed'
<1> USE GenericFilesAssumption
<1>1. FilesTypeOK' /\ EngineTypeOK'
  BY DEF IInv, TypeOK, FilesTypeOK, EngineTypeOK, engine, memory
<1>2. (installed \subseteq PublicationIds)' /\ ControlRecorded' /\ installed \subseteq installed'
  BY DEF IInv, TypeOK, FilesTypeOK, RecordInstalled, ControlRecorded, Controls
<1>3. ManifestPointsToConfig' /\ LoadedSound'
  BY DEF IInv, ManifestPointsToConfig, LoadedSound, engine, memory
<1> QED
  BY <1>1, <1>2, <1>3

\* A flushed insert claims a fresh identity and a free fingerprint.
LEMMA InsertRowStep ==
    ASSUME IInv, NEW w \in Workers, InsertRow(w), RecordInstalled, UNCHANGED engine
    PROVE  IInv'
<1> USE GenericFilesAssumption
<1>0. PICK p \in PublicationIds \ issued :
        /\ issued' = issued \cup {p}
        /\ req' = [req EXCEPT ![w] = [req[w] EXCEPT !.step = "config", !.publication = p]]
  BY DEF InsertRow
<1>1. /\ req' \in [Workers -> RequestStates]
      /\ req[w].step = "insert" /\ req'[w].step = "config"
      /\ req'[w].fingerprint = req[w].fingerprint /\ req'[w].publication = p
      /\ \A v \in Workers : v # w => req'[v] = req[v]
  <2>1. req \in [Workers -> RequestStates] /\ req[w].step = "insert"
    BY DEF InsertRow, IInv, TypeOK, ServiceTypeOK
  <2> DEFINE s == [req[w] EXCEPT !.step = "config", !.publication = p]
  <2>2. /\ s \in RequestStates
        /\ s.step = "config" /\ s.publication = p
        /\ s.fingerprint = req[w].fingerprint
    BY <2>1 DEF RequestStates, Steps, PublishSteps
  <2>3. req' = [req EXCEPT ![w] = s]
    BY <1>0
  <2> HIDE DEF s
  <2> QED
    BY <2>1, <2>2, <2>3, RequestUpdate
<1>2. /\ UNCHANGED <<files, rows, validated, lock>>
      /\ IndexFree(req[w].fingerprint) /\ ~CommittedFor(req[w].fingerprint)
      /\ req[w].fingerprint \in Fingerprints
      /\ ~Committed(p)
      /\ \A v \in Workers : Publishing(v) => req[v].publication # p
  BY <1>0, <1>1 DEF InsertRow, IInv, RequestSound, CommittedRowsSound
<1>3. /\ FilesTypeOK' /\ EngineTypeOK' /\ (installed \subseteq PublicationIds)'
      /\ ManifestPointsToConfig' /\ LoadedSound' /\ ControlRecorded'
      /\ installed \subseteq installed'
  BY <1>0, <1>2, Frame DEF IInv, TypeOK, FilesTypeOK, files
<1>4. TypeOK'
  BY <1>0, <1>1, <1>2, <1>3 DEF IInv, TypeOK, ServiceTypeOK
<1>5. CommittedRowsSound'
  BY <1>0, <1>2 DEF IInv, CommittedRowsSound, Committed
<1>6. \A v \in Workers : RequestSound(v)'
  <2>1. RequestSound(w)'
    BY <1>0, <1>1, <1>2 DEF RequestSound, Publishing, Committed, PublishSteps, BlockSteps
  <2>2. ASSUME NEW v \in Workers, v # w PROVE RequestSound(v)'
    BY <1>0, <1>1, <1>2, <1>3, <2>2
       DEF IInv, RequestSound, Publishing, Committed, ExactAck, files
  <2> QED
    BY <2>1, <2>2
<1>7. LockSound' /\ ReadbackSeesOwnWrite'
  BY <1>1, <1>2 DEF IInv, LockSound, ReadbackSeesOwnWrite, OwnManifest, OwnControl, files
<1>8. PublishersExclusive'
  BY <1>1, <1>2 DEF IInv, PublishersExclusive, IndexFree, CommittedFor, Publishing,
                    Committed, PublishSteps
<1>9. AcknowledgedByOwnRow' /\ BlockedWasInstalled'
  BY <1>2, <1>3 DEF IInv, AcknowledgedByOwnRow, BlockedWasInstalled, ExactAck, files
<1> QED
  BY <1>3, <1>4, <1>5, <1>6, <1>7, <1>8, <1>9 DEF IInv

\* The configuration is on disk before the manifest is touched.
LEMMA WriteConfigStep ==
    ASSUME IInv, NEW w \in Workers, WriteConfig(w), RecordInstalled, UNCHANGED engine
    PROVE  IInv'
<1> USE GenericFilesAssumption, WorkersAssumption
<1>1. /\ req' \in [Workers -> RequestStates]
      /\ req[w].step = "config" /\ req'[w].step = "manifest"
      /\ req'[w].fingerprint = req[w].fingerprint
      /\ req'[w].publication = req[w].publication
      /\ \A v \in Workers : v # w => req'[v] = req[v]
  BY GotoEffect DEF WriteConfig, IInv, TypeOK, ServiceTypeOK, Steps, PublishSteps
<1>2. /\ lock = None /\ lock' = w
      /\ configs' = configs \cup {ConfigOf[req[w].fingerprint]}
      /\ req[w].fingerprint \in Fingerprints
      /\ UNCHANGED <<manifest, control, acknowledgements, rows, issued, validated>>
  BY <1>1 DEF WriteConfig, Acquire, IInv, RequestSound, PublishSteps
<1>3. /\ FilesTypeOK' /\ EngineTypeOK' /\ (installed \subseteq PublicationIds)'
      /\ ManifestPointsToConfig' /\ LoadedSound' /\ ControlRecorded'
      /\ installed \subseteq installed'
  <2>1. configs' \subseteq Configs
    BY <1>2 DEF IInv, TypeOK, FilesTypeOK
  <2> QED
    BY <1>2, <2>1, Frame
<1>4. TypeOK'
  BY <1>1, <1>2, <1>3 DEF IInv, TypeOK, ServiceTypeOK
<1>5. CommittedRowsSound'
  BY <1>2 DEF IInv, CommittedRowsSound, Committed
<1>6. \A v \in Workers : RequestSound(v)'
  <2>1. RequestSound(w)'
    BY <1>1, <1>2 DEF IInv, RequestSound, Publishing, Committed, PublishSteps, BlockSteps
  <2>2. ASSUME NEW v \in Workers, v # w PROVE RequestSound(v)'
    BY <1>1, <1>2, <1>3, <2>2 DEF IInv, RequestSound, Publishing, Committed, ExactAck
  <2> QED
    BY <2>1, <2>2
<1>7. LockSound' /\ ReadbackSeesOwnWrite'
  BY <1>1, <1>2 DEF IInv, LockSound, ReadbackSeesOwnWrite, OwnManifest, OwnControl
<1>8. PublishersExclusive'
  BY <1>1, <1>2 DEF IInv, PublishersExclusive, Publishing, Committed, PublishSteps
<1>9. AcknowledgedByOwnRow' /\ BlockedWasInstalled'
  BY <1>2, <1>3 DEF IInv, AcknowledgedByOwnRow, BlockedWasInstalled, ExactAck
<1> QED
  BY <1>3, <1>4, <1>5, <1>6, <1>7, <1>8, <1>9 DEF IInv

\* The manifest names the identity whose configuration is on disk.
LEMMA WriteManifestStep ==
    ASSUME IInv, NEW w \in Workers, WriteManifest(w), RecordInstalled, UNCHANGED engine
    PROVE  IInv'
<1> USE GenericFilesAssumption, WorkersAssumption
<1>1. /\ req' \in [Workers -> RequestStates]
      /\ req[w].step = "manifest" /\ req'[w].step = "manifestReadback"
      /\ req'[w].fingerprint = req[w].fingerprint
      /\ req'[w].publication = req[w].publication
      /\ \A v \in Workers : v # w => req'[v] = req[v]
  BY GotoEffect DEF WriteManifest, IInv, TypeOK, ServiceTypeOK, Steps, PublishSteps
<1>2. /\ manifest' = OwnManifest(w)
      /\ manifest' \in Manifests
      /\ manifest'.publication_id \in issued
      /\ ConfigOf[manifest'.fingerprint] \in configs
      /\ UNCHANGED <<configs, control, acknowledgements, rows, issued, validated, lock>>
  BY <1>1 DEF WriteManifest, OwnManifest, Manifests, IInv, RequestSound, Publishing,
              PublishSteps, TypeOK, ServiceTypeOK
<1>3. /\ FilesTypeOK' /\ EngineTypeOK' /\ (installed \subseteq PublicationIds)'
      /\ ManifestPointsToConfig' /\ LoadedSound' /\ ControlRecorded'
      /\ installed \subseteq installed'
  BY <1>2, Frame DEF IInv, TypeOK, FilesTypeOK
<1>4. TypeOK'
  BY <1>1, <1>2, <1>3 DEF IInv, TypeOK, ServiceTypeOK
<1>5. CommittedRowsSound'
  BY <1>2 DEF IInv, CommittedRowsSound, Committed
<1>6. \A v \in Workers : RequestSound(v)'
  <2>1. RequestSound(w)'
    BY <1>1, <1>2 DEF IInv, RequestSound, Publishing, Committed, PublishSteps, BlockSteps
  <2>2. ASSUME NEW v \in Workers, v # w PROVE RequestSound(v)'
    BY <1>1, <1>2, <1>3, <2>2 DEF IInv, RequestSound, Publishing, Committed, ExactAck
  <2> QED
    BY <2>1, <2>2
<1>7. LockSound' /\ ReadbackSeesOwnWrite'
  BY <1>1, <1>2 DEF IInv, LockSound, ReadbackSeesOwnWrite, OwnManifest, OwnControl
<1>8. PublishersExclusive'
  BY <1>1, <1>2 DEF IInv, PublishersExclusive, Publishing, Committed, PublishSteps
<1>9. AcknowledgedByOwnRow' /\ BlockedWasInstalled'
  BY <1>2, <1>3 DEF IInv, AcknowledgedByOwnRow, BlockedWasInstalled, ExactAck
<1> QED
  BY <1>3, <1>4, <1>5, <1>6, <1>7, <1>8, <1>9 DEF IInv

\* A readback, or an I/O error, ends the part of publish under the lock.
LEMMA LeaveLockStep ==
    ASSUME IInv, NEW w \in Workers, RecordInstalled, UNCHANGED engine,
           ReadbackManifest(w) \/ PublishIoError(w)
    PROVE  IInv'
<1> USE GenericFilesAssumption, WorkersAssumption
<1>1. /\ req' \in [Workers -> RequestStates]
      /\ req[w].step \in {"config", "manifest", "manifestReadback"}
      /\ req'[w].step \in {"commit", "failed"}
      /\ req'[w].step = "commit" => req[w].step = "manifestReadback"
      /\ req'[w].fingerprint = req[w].fingerprint
      /\ req'[w].publication = req[w].publication
      /\ \A v \in Workers : v # w => req'[v] = req[v]
  <2>1. CASE ReadbackManifest(w)
    <3>1. (IF manifest = OwnManifest(w) THEN "commit" ELSE "failed") \in Steps
      BY DEF Steps, PublishSteps
    <3> QED
      BY <2>1, <3>1, GotoEffect DEF ReadbackManifest, IInv, TypeOK, ServiceTypeOK
  <2>2. CASE PublishIoError(w)
    <3>1. Goto(w, req[w].step, "failed") /\ "failed" \in Steps
      BY <2>2 DEF PublishIoError, Goto, Steps, PublishSteps
    <3> QED
      BY <2>2, <3>1, GotoEffect DEF PublishIoError, IInv, TypeOK, ServiceTypeOK
  <2> QED
    BY <2>1, <2>2
<1>2. /\ lock' = None
      /\ \A v \in Workers : v # w => lock # v
      /\ UNCHANGED <<files, rows, issued, validated>>
  BY <1>1 DEF ReadbackManifest, PublishIoError, Release, IInv, LockSound
<1>3. /\ FilesTypeOK' /\ EngineTypeOK' /\ (installed \subseteq PublicationIds)'
      /\ ManifestPointsToConfig' /\ LoadedSound' /\ ControlRecorded'
      /\ installed \subseteq installed'
  BY <1>2, Frame DEF IInv, TypeOK, FilesTypeOK, files
<1>4. TypeOK'
  BY <1>1, <1>2, <1>3 DEF IInv, TypeOK, ServiceTypeOK
<1>5. CommittedRowsSound'
  BY <1>2 DEF IInv, CommittedRowsSound, Committed
<1>6. \A v \in Workers : RequestSound(v)'
  <2>1. RequestSound(w)'
    BY <1>1, <1>2 DEF IInv, RequestSound, Publishing, Committed, PublishSteps, BlockSteps, files
  <2>2. ASSUME NEW v \in Workers, v # w PROVE RequestSound(v)'
    BY <1>1, <1>2, <1>3, <2>2 DEF IInv, RequestSound, Publishing, Committed, ExactAck, files
  <2> QED
    BY <2>1, <2>2
<1>7. LockSound' /\ ReadbackSeesOwnWrite'
  BY <1>1, <1>2 DEF IInv, LockSound, ReadbackSeesOwnWrite, OwnManifest, OwnControl, files
<1>8. PublishersExclusive'
  BY <1>1, <1>2 DEF IInv, PublishersExclusive, Publishing, Committed, PublishSteps
<1>9. AcknowledgedByOwnRow' /\ BlockedWasInstalled'
  BY <1>2, <1>3 DEF IInv, AcknowledgedByOwnRow, BlockedWasInstalled, ExactAck, files
<1> QED
  BY <1>3, <1>4, <1>5, <1>6, <1>7, <1>8, <1>9 DEF IInv

\* The row of a publish becomes visible, waiting or failed.
LEMMA CommitPublicationStep ==
    ASSUME IInv, NEW w \in Workers, CommitWaiting(w) \/ CommitFailed(w),
           RecordInstalled, UNCHANGED engine
    PROVE  IInv'
<1> USE GenericFilesAssumption, WorkersAssumption
<1> DEFINE p == req[w].publication
           f == req[w].fingerprint
<1>1. PICK from \in {"commit", "failed"},
           status \in {"DEMO_WAITING_FOR_MT5", "PUBLICATION_FAILED"} :
             CommitPublication(w, from, status)
  BY DEF CommitWaiting, CommitFailed
<1>2. /\ req' \in [Workers -> RequestStates]
      /\ req[w].step = from /\ req'[w] = Idle
      /\ \A v \in Workers : v # w => req'[v] = req[v]
  BY <1>1, RespondEffect DEF CommitPublication, IInv, TypeOK, ServiceTypeOK
<1>3. /\ f \in Fingerprints /\ p \in PublicationIds /\ p \in issued
      /\ ~Committed(p) /\ Publishing(w)
  BY <1>2 DEF IInv, TypeOK, ServiceTypeOK, RequestSound, Publishing, PublishSteps
<1>4. /\ rows' \in [PublicationIds -> Rows]
      /\ rows'[p].status = status /\ rows'[p].fingerprint = f
      /\ rows'[p].acknowledged = FALSE
      /\ \A q \in PublicationIds : q # p => rows'[q] = rows[q]
  <2>1. status \in Statuses
    BY DEF Statuses
  <2> DEFINE row == [NoRow EXCEPT !.status = status, !.fingerprint = f]
  <2>2. /\ row \in Rows /\ row.status = status /\ row.fingerprint = f
        /\ row.acknowledged = FALSE
    BY <1>3, <2>1 DEF Rows, NoRow
  <2>3. rows' = [rows EXCEPT ![p] = row] /\ rows \in [PublicationIds -> Rows]
    BY <1>1 DEF CommitPublication, IInv, TypeOK, ServiceTypeOK
  <2> HIDE DEF row
  <2> QED
    BY <1>3, <2>2, <2>3, RowUpdate
<1>5. UNCHANGED <<files, issued, validated, lock>>
  BY <1>1 DEF CommitPublication
<1>6. /\ FilesTypeOK' /\ EngineTypeOK' /\ (installed \subseteq PublicationIds)'
      /\ ManifestPointsToConfig' /\ LoadedSound' /\ ControlRecorded'
      /\ installed \subseteq installed'
  BY <1>5, Frame DEF IInv, TypeOK, FilesTypeOK, files
<1>7. TypeOK'
  BY <1>2, <1>4, <1>5, <1>6 DEF IInv, TypeOK, ServiceTypeOK
<1>8. CommittedRowsSound'
  BY <1>3, <1>4, <1>5 DEF IInv, CommittedRowsSound, Committed
<1>9. \A v \in Workers : RequestSound(v)'
  <2>1. RequestSound(w)'
    BY <1>2 DEF RequestSound, Publishing, Idle, NoRow, PublishSteps, BlockSteps
  <2>2. ASSUME NEW v \in Workers, v # w PROVE RequestSound(v)'
    <3>1. Publishing(v) => req[v].publication # p
      BY <1>3, <2>2 DEF IInv, PublishersExclusive
    <3>2. \A q \in PublicationIds : q # p => rows'[q] = rows[q] /\ (Committed(q)' <=> Committed(q))
      BY <1>4 DEF Committed
    <3>3. Committed(req[v].publication) => req[v].publication # p
      BY <1>3
    <3>4. req'[v] = req[v] /\ RequestSound(v)
      BY <1>2, <2>2 DEF IInv
    <3>5. Publishing(v) => req[v].publication \in PublicationIds
      BY <3>4 DEF RequestSound, IInv, TypeOK, ServiceTypeOK
    <3> QED
      BY <1>4, <1>5, <1>6, <3>1, <3>2, <3>3, <3>4, <3>5
         DEF RequestSound, Publishing, ExactAck, files
  <2> QED
    BY <2>1, <2>2
<1>10. LockSound' /\ ReadbackSeesOwnWrite'
  BY <1>2, <1>5 DEF IInv, LockSound, ReadbackSeesOwnWrite, OwnManifest, OwnControl, Idle, files
<1>11. PublishersExclusive'
  <2>1. ~Publishing(w)' /\ \A v \in Workers : v # w => Publishing(v)' = Publishing(v)
    BY <1>2 DEF Publishing, PublishSteps, Idle
  <2>2. \A q \in PublicationIds : q # p => Committed(q)' = Committed(q)
    BY <1>4 DEF Committed
  <2> QED
    BY <1>2, <1>3, <1>4, <2>1, <2>2 DEF IInv, PublishersExclusive
<1>12. AcknowledgedByOwnRow' /\ BlockedWasInstalled'
  BY <1>4, <1>5, <1>6 DEF IInv, AcknowledgedByOwnRow, BlockedWasInstalled, ExactAck, files
<1> QED
  BY <1>6, <1>7, <1>8, <1>9, <1>10, <1>11, <1>12 DEF IInv

\* An update of a committed row by the worker that loaded it.  status is the
\* new status, ack tells whether the acknowledgement's MT5 part is kept.
LEMMA UpdateRowStep ==
    ASSUME IInv, NEW w \in Workers, RecordInstalled, UNCHANGED engine,
           NEW from \in {"scan", "block"}, Respond(w, from),
           NEW status \in Statuses, status # "ABSENT", NEW ack \in BOOLEAN,
           NEW reason \in Reasons \cup {None},
           rows' = [rows EXCEPT ![req[w].publication] =
                       [@ EXCEPT !.status = status, !.acknowledged = ack, !.reason = reason]],
           UNCHANGED <<files, issued, validated, lock>>,
           ack => ExactAck(req[w].publication, req[w].seen.fingerprint) \in acknowledgements,
           status = "DEMO_ENTRIES_BLOCKED" => req[w].publication \in installed
    PROVE  IInv'
<1> USE GenericFilesAssumption, WorkersAssumption
<1> DEFINE p == req[w].publication
<1>1. /\ req' \in [Workers -> RequestStates]
      /\ req[w].step = from /\ req'[w] = Idle
      /\ \A v \in Workers : v # w => req'[v] = req[v]
  BY RespondEffect DEF IInv, TypeOK, ServiceTypeOK
<1>2. /\ p \in PublicationIds /\ Committed(p)
      /\ req[w].seen.fingerprint = rows[p].fingerprint
  BY <1>1 DEF IInv, RequestSound, BlockSteps
<1>3. /\ rows' \in [PublicationIds -> Rows]
      /\ rows'[p].status = status /\ rows'[p].acknowledged = ack
      /\ rows'[p].fingerprint = rows[p].fingerprint
      /\ \A q \in PublicationIds : q # p => rows'[q] = rows[q]
  <2> DEFINE row == [rows[p] EXCEPT !.status = status, !.acknowledged = ack, !.reason = reason]
  <2>1. rows \in [PublicationIds -> Rows] /\ rows[p] \in Rows
    BY <1>2 DEF IInv, TypeOK, ServiceTypeOK
  <2>2. /\ row \in Rows /\ row.status = status /\ row.acknowledged = ack
        /\ row.fingerprint = rows[p].fingerprint
    BY <2>1 DEF Rows
  <2>3. rows' = [rows EXCEPT ![p] = row]
    BY <1>2, <2>1
  <2> HIDE DEF row
  <2> QED
    BY <1>2, <2>1, <2>2, <2>3, RowUpdate
<1>4. \A q \in PublicationIds :
         (Committed(q)' <=> Committed(q)) /\ rows'[q].fingerprint = rows[q].fingerprint
  BY <1>2, <1>3 DEF Committed
<1>5. /\ FilesTypeOK' /\ EngineTypeOK' /\ (installed \subseteq PublicationIds)'
      /\ ManifestPointsToConfig' /\ LoadedSound' /\ ControlRecorded'
      /\ installed \subseteq installed'
  BY Frame DEF IInv, TypeOK, FilesTypeOK, files
<1>6. TypeOK'
  BY <1>1, <1>3, <1>5 DEF IInv, TypeOK, ServiceTypeOK
<1>7. CommittedRowsSound'
  BY <1>4 DEF IInv, CommittedRowsSound
<1>8. \A v \in Workers : RequestSound(v)'
  <2>1. RequestSound(w)'
    BY <1>1 DEF RequestSound, Publishing, Idle, NoRow, PublishSteps, BlockSteps
  <2>2. ASSUME NEW v \in Workers, v # w PROVE RequestSound(v)'
    <3>1. req'[v] = req[v] /\ RequestSound(v)
      BY <1>1, <2>2 DEF IInv
    <3>2. Publishing(v) => req[v].publication \in PublicationIds
      BY <3>1 DEF RequestSound, IInv, TypeOK, ServiceTypeOK
    <3> QED
      BY <1>4, <1>5, <3>1, <3>2 DEF RequestSound, Publishing, ExactAck, files
  <2> QED
    BY <2>1, <2>2
<1>9. LockSound' /\ ReadbackSeesOwnWrite'
  BY <1>1 DEF IInv, LockSound, ReadbackSeesOwnWrite, OwnManifest, OwnControl, Idle, files
<1>10. PublishersExclusive'
  <2>1. ~Publishing(w)' /\ \A v \in Workers : v # w => Publishing(v)' = Publishing(v)
    BY <1>1 DEF Publishing, PublishSteps, Idle
  <2> QED
    BY <1>1, <1>4, <2>1 DEF IInv, PublishersExclusive
<1>11. AcknowledgedByOwnRow'
  BY <1>2, <1>3 DEF IInv, AcknowledgedByOwnRow, ExactAck, files
<1>12. BlockedWasInstalled'
  BY <1>2, <1>3, <1>5 DEF IInv, BlockedWasInstalled
<1> QED
  BY <1>5, <1>6, <1>7, <1>8, <1>9, <1>10, <1>11, <1>12 DEF IInv

\* poll_ack commits on an exact row.
LEMMA CommitAckStep ==
    ASSUME IInv, NEW w \in Workers, CommitAck(w), RecordInstalled, UNCHANGED engine
    PROVE  IInv'
<1>1. "DEMO_ACKNOWLEDGED" \in Statuses
  BY DEF Statuses
<1> QED
  BY <1>1, UpdateRowStep DEF CommitAck

\* block_entries commits after its control was installed.
LEMMA CommitBlockStep ==
    ASSUME IInv, NEW w \in Workers, CommitBlock(w), RecordInstalled, UNCHANGED engine
    PROVE  IInv'
<1>1. "DEMO_ENTRIES_BLOCKED" \in Statuses
  BY DEF Statuses
<1>2. req[w] \in RequestStates /\ req[w].step = "block"
  BY DEF IInv, TypeOK, ServiceTypeOK, CommitBlock, Respond
<1>3. /\ req[w].seen.acknowledged \in BOOLEAN /\ req[w].reason \in Reasons
      /\ req[w].publication \in installed
      /\ req[w].seen.acknowledged =>
            ExactAck(req[w].publication, req[w].seen.fingerprint) \in acknowledgements
  BY <1>2 DEF IInv, RequestSound, RequestStates, Rows, BlockSteps
<1> QED
  BY <1>1, <1>3, UpdateRowStep DEF CommitBlock

\* Installing a control, reading it back, and failing to.
LEMMA ControlStep ==
    ASSUME IInv, NEW w \in Workers, RecordInstalled, UNCHANGED engine,
           WriteControl(w) \/ ReadbackControl(w) \/ ControlIoError(w)
    PROVE  IInv'
<1> USE GenericFilesAssumption, WorkersAssumption
<1>1. /\ req' \in [Workers -> RequestStates]
      /\ req[w].step \in {"control", "controlReadback"}
      /\ \A v \in Workers : v # w => req'[v] = req[v]
      /\ \/ req'[w] = Idle
         \/ /\ req'[w].step \in {"controlReadback", "block"}
            /\ req'[w].publication = req[w].publication
            /\ req'[w].seen = req[w].seen
            /\ req'[w].reason = req[w].reason
  <2>1. {"controlReadback", "block"} \subseteq Steps /\ req \in [Workers -> RequestStates]
    BY DEF Steps, BlockSteps, IInv, TypeOK, ServiceTypeOK
  <2>2. CASE WriteControl(w)
    BY <2>1, <2>2, GotoEffect DEF WriteControl
  <2>3. CASE ReadbackControl(w)
    BY <2>1, <2>3, GotoEffect DEF ReadbackControl
  <2>4. CASE ControlIoError(w)
    BY <2>1, <2>4, RespondEffect DEF ControlIoError
  <2> QED
    BY <2>2, <2>3, <2>4
<1>2. /\ req[w].publication \in PublicationIds /\ req[w].reason \in Reasons
      /\ req[w].seen.fingerprint \in Fingerprints
  BY <1>1 DEF IInv, RequestSound, BlockSteps, CommittedRowsSound
<1>3. OwnControl(w) \in Controls
  BY <1>2 DEF OwnControl, Controls
<1>4. /\ UNCHANGED <<manifest, configs, acknowledgements, rows, issued, validated>>
      /\ control' = control \/ control' \in Controls
  BY <1>3 DEF WriteControl, ReadbackControl, ControlIoError, files
<1>5. /\ FilesTypeOK' /\ EngineTypeOK' /\ (installed \subseteq PublicationIds)'
      /\ ManifestPointsToConfig' /\ LoadedSound' /\ ControlRecorded'
      /\ installed \subseteq installed'
  BY <1>4, Frame DEF IInv, TypeOK, FilesTypeOK
<1>6. TypeOK'
  <2>1. lock' \in Workers \cup {None}
    BY DEF WriteControl, ReadbackControl, ControlIoError, Acquire, Release
  <2> QED
    BY <1>1, <1>4, <1>5, <2>1 DEF IInv, TypeOK, ServiceTypeOK
<1>7. CommittedRowsSound'
  BY <1>4 DEF IInv, CommittedRowsSound, Committed
<1>8. \A v \in Workers : RequestSound(v)'
  <2>1. RequestSound(w)'
    <3>1. CASE req'[w] = Idle
      BY <3>1 DEF RequestSound, Publishing, Idle, NoRow, PublishSteps, BlockSteps
    <3>2. CASE req'[w] # Idle /\ req'[w].step = "controlReadback"
      BY <1>1, <1>4, <3>2 DEF IInv, RequestSound, Publishing, Committed, ExactAck,
                              PublishSteps, BlockSteps
    <3>3. CASE req'[w] # Idle /\ req'[w].step = "block"
      <4>1. ReadbackControl(w)
        <5>1. "controlReadback" \in Steps /\ req \in [Workers -> RequestStates]
          BY DEF Steps, BlockSteps, IInv, TypeOK, ServiceTypeOK
        <5> QED
          BY <3>3, <5>1, GotoEffect, RespondEffect DEF WriteControl, ControlIoError
      <4>2. req[w].publication \in installed
        <5>1. control = OwnControl(w) /\ control # None
          BY <1>3, <4>1, NoFileAssumption DEF ReadbackControl
        <5> QED
          BY <5>1 DEF OwnControl, IInv, ControlRecorded
      <4> QED
        BY <1>1, <1>4, <1>5, <3>3, <4>2 DEF IInv, RequestSound, Publishing, Committed,
                              ExactAck, PublishSteps, BlockSteps
    <3> QED
      BY <1>1, <3>1, <3>2, <3>3
  <2>2. ASSUME NEW v \in Workers, v # w PROVE RequestSound(v)'
    BY <1>1, <1>4, <1>5, <2>2 DEF IInv, RequestSound, Publishing, Committed, ExactAck
  <2> QED
    BY <2>1, <2>2
<1>9. LockSound' /\ ReadbackSeesOwnWrite'
  <2>1. CASE WriteControl(w)
    <3>1. /\ lock = None /\ lock' = w /\ control' = OwnControl(w)
          /\ req'[w].step = "controlReadback" /\ req'[w].publication = req[w].publication
          /\ req'[w].seen = req[w].seen /\ req'[w].reason = req[w].reason
      BY <2>1, GotoEffect DEF WriteControl, Acquire, Steps, BlockSteps, IInv, TypeOK, ServiceTypeOK
    <3> QED
      BY <1>1, <1>4, <3>1 DEF IInv, LockSound, ReadbackSeesOwnWrite, OwnManifest, OwnControl
  <2>2. CASE ReadbackControl(w)
    <3>1. lock = w /\ lock' = None /\ req'[w].step = "block" /\ control' = control
      BY <2>2, GotoEffect DEF ReadbackControl, Release, Steps, BlockSteps, files, IInv, TypeOK, ServiceTypeOK
    <3> QED
      BY <1>1, <1>4, <3>1 DEF IInv, LockSound, ReadbackSeesOwnWrite, OwnManifest, OwnControl
  <2>3. CASE ControlIoError(w)
    <3>1. /\ lock' = None /\ req'[w].step = "idle" /\ control' = control
          /\ \A v \in Workers : v # w => lock # v
      BY <1>1, <2>3, RespondEffect DEF ControlIoError, Idle, files, IInv, LockSound, TypeOK, ServiceTypeOK
    <3> QED
      BY <1>1, <1>4, <3>1 DEF IInv, LockSound, ReadbackSeesOwnWrite, OwnManifest, OwnControl
  <2> QED
    BY <2>1, <2>2, <2>3
<1>10. PublishersExclusive'
  <2>1. ~Publishing(w)' /\ \A v \in Workers : v # w => Publishing(v)' = Publishing(v)
    BY <1>1 DEF Publishing, PublishSteps, Idle
  <2> QED
    BY <1>1, <1>4, <2>1 DEF IInv, PublishersExclusive, Committed
<1>11. AcknowledgedByOwnRow' /\ BlockedWasInstalled'
  BY <1>4, <1>5 DEF IInv, AcknowledgedByOwnRow, BlockedWasInstalled, ExactAck
<1> QED
  BY <1>5, <1>6, <1>7, <1>8, <1>9, <1>10, <1>11 DEF IInv

\* A strategy that leaves VALIDATED touches nothing the invariant mentions.
LEMMA RetireStep ==
    ASSUME IInv, NEW c \in Configs, Retire(c), RecordInstalled, UNCHANGED engine
    PROVE  IInv'
<1>1. /\ UNCHANGED <<files, rows, issued, lock, req>> /\ validated' \subseteq Configs
  BY DEF Retire, IInv, TypeOK, ServiceTypeOK
<1>2. UNCHANGED installed
  BY <1>1 DEF IInv, ControlRecorded, RecordInstalled, files
<1>3. TypeOK'
  BY <1>1, <1>2 DEF IInv, TypeOK, FilesTypeOK, ServiceTypeOK, EngineTypeOK, files, engine, memory
<1>4. /\ CommittedRowsSound' /\ LockSound' /\ ReadbackSeesOwnWrite' /\ PublishersExclusive'
      /\ \A v \in Workers : RequestSound(v)'
  BY <1>1, <1>2 DEF IInv, CommittedRowsSound, LockSound, ReadbackSeesOwnWrite,
       PublishersExclusive, RequestSound, Publishing, Committed, OwnManifest,
       OwnControl, ExactAck, files
<1>5. /\ ManifestPointsToConfig' /\ LoadedSound' /\ AcknowledgedByOwnRow'
      /\ BlockedWasInstalled' /\ ControlRecorded'
  BY <1>1, <1>2 DEF IInv, ManifestPointsToConfig, LoadedSound, AcknowledgedByOwnRow,
       BlockedWasInstalled, ControlRecorded, ExactAck, files, engine, memory
<1> QED
  BY <1>3, <1>4, <1>5 DEF IInv

\* A crash forgets every request and the lock; files and rows stay.
LEMMA CrashStep ==
    ASSUME IInv, Crash, RecordInstalled, UNCHANGED engine
    PROVE  IInv'
<1> USE WorkersAssumption
<1>1. /\ UNCHANGED <<files, rows, issued, validated>> /\ lock' = None
      /\ req' \in [Workers -> RequestStates]
      /\ \A v \in Workers : req'[v] = Idle
  BY BlankTyped DEF Crash
<1>2. UNCHANGED installed
  BY <1>1 DEF IInv, ControlRecorded, RecordInstalled, files
<1>3. TypeOK'
  BY <1>1, <1>2 DEF IInv, TypeOK, FilesTypeOK, ServiceTypeOK, EngineTypeOK, files, engine, memory
<1>4. /\ LockSound' /\ ReadbackSeesOwnWrite' /\ \A v \in Workers : RequestSound(v)'
  BY <1>1 DEF LockSound, ReadbackSeesOwnWrite, RequestSound, Publishing, Idle, NoRow,
       PublishSteps, BlockSteps
<1>5. CommittedRowsSound' /\ PublishersExclusive'
  <2>1. \A v \in Workers : ~Publishing(v)'
    BY <1>1 DEF Publishing, PublishSteps, Idle
  <2> QED
    BY <1>1, <2>1 DEF IInv, CommittedRowsSound, PublishersExclusive, Committed
<1>6. /\ ManifestPointsToConfig' /\ LoadedSound' /\ AcknowledgedByOwnRow'
      /\ BlockedWasInstalled' /\ ControlRecorded'
  BY <1>1, <1>2 DEF IInv, ManifestPointsToConfig, LoadedSound, AcknowledgedByOwnRow,
       BlockedWasInstalled, ControlRecorded, ExactAck, files, engine, memory
<1> QED
  BY <1>3, <1>4, <1>5, <1>6 DEF IInv

\* The terminal writes nothing but acknowledgements, and appends only.
LEMMA TerminalStep ==
    ASSUME IInv, EngineStep
    PROVE  IInv'
<1> USE GenericFilesAssumption, LegacyAssumption
<1>1. /\ UNCHANGED <<manifest, configs, control, strategyIni, service, installed>>
      /\ acknowledgements \subseteq acknowledgements'
  BY DEF EngineStep, EngineNext, Reload, ReadManifest, Activate, KeepCached, LoadLegacy,
         RestartTerminal, files
<1>2. FilesTypeOK' /\ EngineTypeOK' /\ LoadedSound'
  <2>1. CASE ReadManifest
    BY <1>1, <2>1 DEF ReadManifest, ValidManifest, files, IInv, TypeOK, FilesTypeOK,
                      EngineTypeOK, LoadedSound, service
  <2>2. CASE Activate
    BY <1>1, <2>2 DEF Activate, BlockedBy, ControlNames, IInv, TypeOK, FilesTypeOK,
                      EngineTypeOK, LoadedSound, AckRows, service
  <2>3. CASE KeepCached
    BY <1>1, <2>3 DEF KeepCached, BlockedBy, ControlNames, files, IInv, TypeOK,
                      FilesTypeOK, EngineTypeOK, LoadedSound, service
  <2>4. CASE LoadLegacy
    BY <1>1, <2>4 DEF LoadLegacy, files, IInv, TypeOK, FilesTypeOK, EngineTypeOK,
                      LoadedSound, service
  <2>5. CASE RestartTerminal
    BY <1>1, <2>5 DEF RestartTerminal, files, IInv, TypeOK, FilesTypeOK, EngineTypeOK,
                      LoadedSound, service
  <2> QED
    BY <2>1, <2>2, <2>3, <2>4, <2>5 DEF EngineStep, EngineNext, Reload
<1>3. TypeOK'
  BY <1>1, <1>2 DEF IInv, TypeOK, ServiceTypeOK, service
<1>4. \A w \in Workers : RequestSound(w)'
  BY <1>1 DEF IInv, RequestSound, Publishing, Committed, ExactAck, service
<1>5. /\ CommittedRowsSound' /\ LockSound' /\ ReadbackSeesOwnWrite' /\ PublishersExclusive'
      /\ ManifestPointsToConfig' /\ BlockedWasInstalled' /\ ControlRecorded'
  BY <1>1 DEF IInv, CommittedRowsSound, LockSound, ReadbackSeesOwnWrite,
       PublishersExclusive, Publishing, Committed, OwnManifest, OwnControl,
       ManifestPointsToConfig, BlockedWasInstalled, ControlRecorded, service
<1>6. AcknowledgedByOwnRow'
  BY <1>1 DEF IInv, AcknowledgedByOwnRow, ExactAck, service
<1> QED
  BY <1>2, <1>3, <1>4, <1>5, <1>6 DEF IInv

-----------------------------------------------------------------------------
\* The invariant holds initially.
LEMMA InitEstablishes ==
    ASSUME Init
    PROVE  IInv
<1>1. /\ rows = [p \in PublicationIds |-> NoRow] /\ issued = {} /\ lock = None
      /\ req = [w \in Workers |-> Idle] /\ installed = {} /\ acknowledgements = {}
      /\ manifest = None /\ control = None /\ running = None /\ candidate = None
  BY DEF Init, FilesInit, ServiceInit, EngineInit
<1>2. TypeOK
  BY <1>1, BlankTyped DEF Init, FilesInit, ServiceInit, EngineInit, TypeOK, FilesTypeOK,
                      ServiceTypeOK, EngineTypeOK
<1>3. \A p \in PublicationIds : ~Committed(p) /\ ~rows[p].acknowledged
                                /\ rows[p].status # "DEMO_ENTRIES_BLOCKED"
  BY <1>1 DEF Committed, NoRow
<1>4. \A w \in Workers : RequestSound(w) /\ ~Publishing(w) /\ req[w].step = "idle"
  BY <1>1 DEF RequestSound, Publishing, Idle, NoRow, PublishSteps, BlockSteps
<1>5. CommittedRowsSound /\ PublishersExclusive /\ AcknowledgedByOwnRow /\ BlockedWasInstalled
  BY <1>3, <1>4 DEF CommittedRowsSound, PublishersExclusive, AcknowledgedByOwnRow,
                    BlockedWasInstalled
<1>6. LockSound /\ ReadbackSeesOwnWrite
  BY <1>1, <1>4, WorkersAssumption DEF LockSound, ReadbackSeesOwnWrite
<1>7. ManifestPointsToConfig /\ LoadedSound /\ ControlRecorded
  BY <1>1 DEF ManifestPointsToConfig, LoadedSound, ControlRecorded
<1> QED
  BY <1>2, <1>4, <1>5, <1>6, <1>7 DEF IInv

\* Every step preserves the invariant: one case per action.
LEMMA NextPreserves ==
    ASSUME IInv, [Next]_vars
    PROVE  IInv'
<1>1. CASE ServiceStep
  <2>1. ASSUME NEW w \in Workers, PublishStep(w) PROVE IInv'
    BY <1>1, <2>1, QuietActions, InsertRowStep, WriteConfigStep, WriteManifestStep,
       LeaveLockStep, CommitPublicationStep DEF PublishStep, ServiceStep
  <2>2. ASSUME NEW w \in Workers, PollStep(w) PROVE IInv'
    BY <1>1, <2>2, QuietActions, CommitAckStep DEF PollStep, ServiceStep
  <2>3. ASSUME NEW w \in Workers, BlockStep(w) PROVE IInv'
    BY <1>1, <2>3, QuietActions, ControlStep, CommitBlockStep DEF BlockStep, ServiceStep
  <2> QED
    BY <1>1, <2>1, <2>2, <2>3, RetireStep, CrashStep DEF ServiceStep, ServiceNext
<1>2. CASE EngineStep
  BY <1>2, TerminalStep
<1>3. CASE UNCHANGED vars
  <2>1. UNCHANGED <<files, rows, issued, validated, lock, req, engine, installed>>
    BY <1>3 DEF vars, service
  <2>2. TypeOK'
    BY <2>1 DEF IInv, TypeOK, FilesTypeOK, ServiceTypeOK, EngineTypeOK, files, engine, memory
  <2>3. /\ CommittedRowsSound' /\ LockSound' /\ ReadbackSeesOwnWrite' /\ PublishersExclusive'
        /\ \A v \in Workers : RequestSound(v)'
    BY <2>1 DEF IInv, CommittedRowsSound, LockSound, ReadbackSeesOwnWrite,
         PublishersExclusive, RequestSound, Publishing, Committed, OwnManifest,
         OwnControl, ExactAck, files
  <2>4. /\ ManifestPointsToConfig' /\ LoadedSound' /\ AcknowledgedByOwnRow'
        /\ BlockedWasInstalled' /\ ControlRecorded'
    BY <2>1 DEF IInv, ManifestPointsToConfig, LoadedSound, AcknowledgedByOwnRow,
         BlockedWasInstalled, ControlRecorded, ExactAck, files, engine, memory
  <2> QED
    BY <2>2, <2>3, <2>4 DEF IInv
<1> QED
  BY <1>1, <1>2, <1>3 DEF Next

\* The inductive invariant holds in every reachable state of the chain.
THEOREM ChainInvariant == Spec => []IInv
<1>1. Init => IInv
  BY InitEstablishes
<1>2. IInv /\ [Next]_vars => IInv'
  BY NextPreserves
<1> QED
  BY <1>1, <1>2, PTL DEF Spec

\* Type correctness of the chain.
THEOREM ChainTypes == Spec => []TypeOK
<1>1. IInv => TypeOK
  BY DEF IInv
<1> QED
  BY <1>1, ChainInvariant, PTL

\* The activation pointer never names a configuration that is not on disk,
\* whatever crashed, failed or raced (publish's write order).
THEOREM ManifestSafety == Spec => []ManifestPointsToConfig
<1>1. IInv => ManifestPointsToConfig
  BY DEF IInv
<1> QED
  BY <1>1, ChainInvariant, PTL

\* One stable request has at most one publication, committed or in flight,
\* under any number of concurrent publishes, failures and crashes.
THEOREM RequestUniqueness == Spec => []OnePublicationPerRequest
<1>1. IInv => OnePublicationPerRequest
  <2> SUFFICES ASSUME IInv, NEW f \in Fingerprints,
                      NEW p \in PublicationIds, NEW q \in PublicationIds,
                      Owns(p, f), Owns(q, f)
               PROVE  p = q
    BY DEF OnePublicationPerRequest
  <2> QED
    BY DEF Owns, IInv, PublishersExclusive
<1> QED
  BY <1>1, ChainInvariant, PTL

\* poll_ack acknowledges on the publication's own row only.
THEOREM AcknowledgementSafety == Spec => []AcknowledgedByOwnRow
<1>1. IInv => AcknowledgedByOwnRow
  BY DEF IInv
<1> QED
  BY <1>1, ChainInvariant, PTL

\* Under _publication_lock a worker reads back what it wrote.
THEOREM LockSafety == Spec => []ReadbackSeesOwnWrite
<1>1. IInv => ReadbackSeesOwnWrite
  BY DEF IInv
<1> QED
  BY <1>1, ChainInvariant, PTL

\* A row claims an entry block only after the control file carried it.
THEOREM BlockSafety == Spec => []BlockedWasInstalled
<1>1. IInv => BlockedWasInstalled
  BY DEF IInv
<1> QED
  BY <1>1, ChainInvariant, PTL

\* The terminal runs nothing but complete configurations the service issued
\* for it.
THEOREM TerminalSafety == Spec => []RunsOnlyIssuedLocalConfig
<1>1. IInv => RunsOnlyIssuedLocalConfig
  BY DEF IInv, LoadedSound, RunsOnlyIssuedLocalConfig
<1> QED
  BY <1>1, ChainInvariant, PTL

-----------------------------------------------------------------------------
(* The ledger that one worker at a time keeps *)

\* A row is written by a request that decided on it and is then over: it commits
\* a publication, an acknowledgement or a block.
RowWriters(w) == CommitWaiting(w) \/ CommitFailed(w) \/ CommitAck(w) \/ CommitBlock(w)

LEMMA WritersOfRows ==
    ASSUME [Next]_vars
    PROVE  UNCHANGED rows \/ \E w \in Workers : RowWriters(w)
<1>1. CASE ServiceStep
  <2>1. ASSUME NEW w \in Workers, PublishStep(w) PROVE UNCHANGED rows \/ RowWriters(w)
    BY <2>1 DEF PublishStep, RowWriters, Preflight, ReuseExisting, NoExisting, InsertRow, InsertLoses,
                WriteConfig, WriteManifest, ReadbackManifest, PublishIoError
  <2>2. ASSUME NEW w \in Workers, PollStep(w) PROVE UNCHANGED rows \/ RowWriters(w)
    BY <2>2 DEF PollStep, RowWriters, BeginPoll, NoAck
  <2>3. ASSUME NEW w \in Workers, BlockStep(w) PROVE UNCHANGED rows \/ RowWriters(w)
    BY <2>3 DEF BlockStep, RowWriters, BeginBlock, BeginReconcile, ReconcileReturns, ReconcileBlocks,
                WriteControl, ReadbackControl, ControlIoError
  <2> QED
    BY <1>1, <2>1, <2>2, <2>3 DEF ServiceStep, ServiceNext, Retire, Crash
<1>2. CASE EngineStep
  BY <1>2 DEF EngineStep, service
<1>3. CASE UNCHANGED vars
  BY <1>3 DEF vars, service
<1> QED
  BY <1>1, <1>2, <1>3 DEF Next

\* What each writer makes of its row, for any number of workers.
LEMMA Written ==
    ASSUME IInv, RowsSettled, NEW w \in Workers, RowWriters(w)
    PROVE  /\ req[w].publication \in PublicationIds /\ req'[w] = Idle
           /\ \E row \in Rows :
                 /\ rows' = [rows EXCEPT ![req[w].publication] = row]
                 /\ row.status # "ABSENT"
                 /\ row.reason # None <=> row.status = "DEMO_ENTRIES_BLOCKED"
                 /\ \/ /\ ~Committed(req[w].publication) /\ row.reason = None
                       /\ row.fingerprint = req[w].fingerprint /\ Publishing(w)
                       /\ row.status \in {"DEMO_WAITING_FOR_MT5", "PUBLICATION_FAILED"}
                    \/ /\ req[w].step = "scan" /\ row.status = "DEMO_ACKNOWLEDGED"
                       /\ row.fingerprint = rows[req[w].publication].fingerprint
                    \/ /\ req[w].step = "block" /\ row.status = "DEMO_ENTRIES_BLOCKED"
                       /\ row.reason \in Reasons
                       /\ row.fingerprint = rows[req[w].publication].fingerprint
<1> USE GenericFilesAssumption
<1>1. /\ rows \in [PublicationIds -> Rows] /\ req \in [Workers -> RequestStates]
      /\ issued \subseteq PublicationIds /\ RequestSound(w)
  BY DEF IInv, TypeOK, ServiceTypeOK
<1>2. PICK q \in RequestStates : q = req[w]
  BY <1>1
<1>3. q.seen \in Rows /\ q.fingerprint \in Fingerprints \cup {None}
  BY DEF RequestStates
<1>4. ASSUME NEW from, NEW status \in {"DEMO_WAITING_FOR_MT5", "PUBLICATION_FAILED"},
             CommitPublication(w, from, status), from \in {"commit", "failed"}
      PROVE  /\ q.publication \in PublicationIds /\ ~Committed(q.publication) /\ Publishing(w)
             /\ \E row \in Rows :
                   /\ rows' = [rows EXCEPT ![q.publication] = row]
                   /\ row.status = status /\ row.reason = None
                   /\ row.fingerprint = q.fingerprint
  <2>1. q.step = from /\ Publishing(w)
    BY <1>1, <1>2, <1>4, RespondEffect DEF CommitPublication, Publishing, PublishSteps
  <2>2. q.publication \in PublicationIds /\ ~Committed(q.publication)
    BY <1>1, <1>2, <2>1 DEF RequestSound
  <2>3. PICK row : row = [NoRow EXCEPT !.status = status, !.fingerprint = q.fingerprint]
    OBVIOUS
  <2>4. row \in Rows /\ row.status = status /\ row.reason = None /\ row.fingerprint = q.fingerprint
    BY <1>3, <2>3, BlankTyped DEF Rows, Statuses, NoRow
  <2>5. rows' = [rows EXCEPT ![q.publication] = row]
    BY <1>2, <1>4, <2>3 DEF CommitPublication
  <2> QED
    BY <2>1, <2>2, <2>4, <2>5
<1>5. CASE CommitWaiting(w) \/ CommitFailed(w)
  <2>1. req'[w] = Idle
    BY <1>1, <1>5, RespondEffect DEF CommitWaiting, CommitFailed, CommitPublication
  <2> QED
    BY <1>2, <1>4, <1>5, <2>1 DEF CommitWaiting, CommitFailed
<1>6. CASE CommitAck(w)
  <2>1. q.step = "scan" /\ req'[w] = Idle
    BY <1>1, <1>2, <1>6, RespondEffect DEF CommitAck
  <2>2. q.publication \in PublicationIds
    BY <1>1, <1>2, <2>1 DEF RequestSound
  <2>3. PICK old \in Rows : old = rows[q.publication]
    BY <1>1, <2>2
  <2>4. PICK row : row = [old EXCEPT !.status = "DEMO_ACKNOWLEDGED", !.acknowledged = TRUE, !.reason = None]
    OBVIOUS
  <2>5. row \in Rows /\ row.status = "DEMO_ACKNOWLEDGED" /\ row.reason = None /\ row.fingerprint = old.fingerprint
    BY <2>4 DEF Rows, Statuses
  <2>6. rows' = [rows EXCEPT ![q.publication] = row]
    BY <1>2, <1>6, <2>3, <2>4 DEF CommitAck
  <2> QED
    BY <1>2, <2>1, <2>2, <2>3, <2>5, <2>6
<1>7. CASE CommitBlock(w)
  <2>1. q.step = "block" /\ req'[w] = Idle
    BY <1>1, <1>2, <1>7, RespondEffect DEF CommitBlock
  <2>2. q.publication \in PublicationIds /\ q.reason \in Reasons
    BY <1>1, <1>2, <2>1 DEF RequestSound, BlockSteps
  <2>3. PICK old \in Rows : old = rows[q.publication]
    BY <1>1, <2>2
  <2>4. PICK row : row = [old EXCEPT !.status = "DEMO_ENTRIES_BLOCKED",
                                     !.acknowledged = q.seen.acknowledged, !.reason = q.reason]
    OBVIOUS
  <2>5. /\ row \in Rows /\ row.status = "DEMO_ENTRIES_BLOCKED" /\ row.reason = q.reason
        /\ row.fingerprint = old.fingerprint
    BY <1>3, <2>2, <2>4 DEF Rows, Statuses
  <2>6. rows' = [rows EXCEPT ![q.publication] = row]
    BY <1>2, <1>7, <2>3, <2>4 DEF CommitBlock
  <2> QED
    BY <1>2, <2>1, <2>2, <2>3, <2>5, <2>6
<1> QED
  BY <1>5, <1>6, <1>7 DEF RowWriters

\* Rows keep their reasons however many workers there are.
LEMMA RowsStaySettled ==
    ASSUME IInv, RowsSettled, [Next]_vars
    PROVE  RowsSettled'
<1>1. CASE UNCHANGED rows
  BY <1>1 DEF RowsSettled, Committed
<1>2. ASSUME NEW w \in Workers, RowWriters(w) PROVE RowsSettled'
  <2>1. PICK row \in Rows :
           /\ rows' = [rows EXCEPT ![req[w].publication] = row] /\ row.status # "ABSENT"
           /\ row.reason # None <=> row.status = "DEMO_ENTRIES_BLOCKED"
    BY <1>2, Written
  <2>2. /\ rows'[req[w].publication] = row
        /\ \A p \in PublicationIds : p # req[w].publication => rows'[p] = rows[p]
    BY <1>2, <2>1, Written DEF IInv, TypeOK, ServiceTypeOK
  <2> QED
    BY <2>1, <2>2 DEF RowsSettled, Committed
<1> QED
  BY <1>1, <1>2, WritersOfRows

\* A single worker's copy of a row is the row: nobody else writes it.
LEMMA SoleCopyStaysExact ==
    ASSUME IInv, NEW w, Workers = {w}, SeenIsCommitted(w), [Next]_vars
    PROVE  SeenIsCommitted(w)'
<1>1. /\ req \in [Workers -> RequestStates] /\ w \in Workers
  BY DEF IInv, TypeOK, ServiceTypeOK
<1>2. ASSUME req'[w] = Idle PROVE SeenIsCommitted(w)'
  BY <1>2 DEF SeenIsCommitted, Idle, BlockSteps
<1>3. CASE RowWriters(w)
  <2>1. req'[w] = Idle
    BY <1>1, <1>3, RespondEffect DEF RowWriters, CommitWaiting, CommitFailed, CommitPublication, CommitAck, CommitBlock
  <2> QED
    BY <1>2, <2>1
<1>4. ASSUME UNCHANGED rows, req'[w] = req[w] PROVE SeenIsCommitted(w)'
  BY <1>4 DEF SeenIsCommitted
\* A request that only moves takes its copy along.
<1>5. ASSUME NEW from, NEW to \in Steps, Goto(w, from, to), UNCHANGED rows,
             to \in PublishSteps \cup {"insert"} \/ (from \in BlockSteps /\ to \in BlockSteps)
      PROVE  SeenIsCommitted(w)'
  BY <1>1, <1>5, GotoEffect DEF SeenIsCommitted, PublishSteps, BlockSteps
<1>6. ASSUME PublishStep(w) PROVE SeenIsCommitted(w)'
  <2>1. ASSUME NEW f \in Fingerprints, Preflight(w, f) PROVE SeenIsCommitted(w)'
    <3>1. req'[w] = [Idle EXCEPT !.step = "lookup", !.fingerprint = f]
      BY <1>1, <2>1 DEF Preflight, Begin
    <3> QED
      BY <3>1 DEF SeenIsCommitted, Idle, BlockSteps
  <2>2. ASSUME InsertRow(w) PROVE SeenIsCommitted(w)'
    <3>1. PICK p : req'[w] = [req[w] EXCEPT !.step = "config", !.publication = p]
      BY <1>1, <2>2 DEF InsertRow
    <3>2. req'[w].step = "config"
      BY <1>1, <3>1 DEF RequestStates
    <3> QED
      BY <3>2 DEF SeenIsCommitted, BlockSteps
  <2>3. ASSUME PublishIoError(w) PROVE SeenIsCommitted(w)'
    <3>1. req'[w].step = "failed"
      BY <1>1, <2>3 DEF PublishIoError, RequestStates
    <3> QED
      BY <3>1 DEF SeenIsCommitted, BlockSteps
  <2>4. ASSUME ReuseExisting(w) \/ InsertLoses(w) PROVE SeenIsCommitted(w)'
    BY <1>1, <1>2, <2>4, RespondEffect DEF ReuseExisting, InsertLoses
  <2>5. ASSUME NoExisting(w) \/ WriteConfig(w) \/ WriteManifest(w) \/ ReadbackManifest(w) PROVE SeenIsCommitted(w)'
    BY <1>5, <2>5 DEF NoExisting, WriteConfig, WriteManifest, ReadbackManifest, Steps, PublishSteps
  <2> QED
    BY <1>3, <1>6, <2>1, <2>2, <2>3, <2>4, <2>5 DEF PublishStep, RowWriters
<1>7. ASSUME PollStep(w) PROVE SeenIsCommitted(w)'
  <2>1. ASSUME NEW p \in PublicationIds, BeginPoll(w, p) PROVE SeenIsCommitted(w)'
    <3>1. /\ req'[w] = [Idle EXCEPT !.step = "scan", !.publication = p, !.seen = rows[p]]
          /\ rows' = rows /\ rows[p].status = "DEMO_WAITING_FOR_MT5"
      BY <1>1, <2>1 DEF BeginPoll, Begin
    <3> QED
      BY <3>1 DEF SeenIsCommitted, Idle, BlockSteps
  <2>2. ASSUME NoAck(w) PROVE SeenIsCommitted(w)'
    BY <1>1, <1>2, <2>2, RespondEffect DEF NoAck
  <2> QED
    BY <1>3, <1>7, <2>1, <2>2 DEF PollStep, RowWriters
<1>8. ASSUME BlockStep(w) PROVE SeenIsCommitted(w)'
  <2>1. ASSUME NEW p \in PublicationIds, NEW reason \in Reasons, BeginBlock(w, p, reason) PROVE SeenIsCommitted(w)'
    <3>1. /\ req'[w] = [Idle EXCEPT !.step = "control", !.publication = p, !.seen = rows[p], !.reason = reason]
          /\ rows' = rows /\ CanBlock(rows[p])
      BY <1>1, <2>1 DEF BeginBlock, Begin
    <3>2. req'[w].step = "control" /\ req'[w].seen = rows[p] /\ req'[w].publication = p
      BY <3>1 DEF Idle
    <3> QED
      BY <3>1, <3>2 DEF SeenIsCommitted, CanBlock
  <2>2. ASSUME NEW p \in PublicationIds, BeginReconcile(w, p) PROVE SeenIsCommitted(w)'
    <3>1. /\ req'[w] = [Idle EXCEPT !.step = "lifecycle", !.publication = p, !.seen = rows[p]]
          /\ rows' = rows
      BY <1>1, <2>2 DEF BeginReconcile, Begin
    <3> QED
      BY <3>1 DEF SeenIsCommitted, Idle, BlockSteps
  <2>3. ASSUME ReconcileBlocks(w) PROVE SeenIsCommitted(w)'
    <3>1. PICK q \in RequestStates : q = req[w]
      BY <1>1
    <3>2. req'[w] = [q EXCEPT !.step = "control", !.reason = Lifecycle]
      BY <1>1, <2>3, <3>1 DEF ReconcileBlocks
    <3>3. req'[w].step = "control" /\ req'[w].seen = q.seen /\ req'[w].publication = q.publication
      BY <3>1, <3>2 DEF RequestStates
    <3> QED
      BY <2>3, <3>1, <3>3 DEF ReconcileBlocks, SeenIsCommitted, CanBlock
  <2>4. ASSUME ReconcileReturns(w) \/ ControlIoError(w) PROVE SeenIsCommitted(w)'
    BY <1>1, <1>2, <2>4, RespondEffect DEF ReconcileReturns, ControlIoError
  <2>5. ASSUME WriteControl(w) \/ ReadbackControl(w) PROVE SeenIsCommitted(w)'
    BY <1>5, <2>5 DEF WriteControl, ReadbackControl, Steps, BlockSteps
  <2> QED
    BY <1>3, <1>8, <2>1, <2>2, <2>3, <2>4, <2>5 DEF BlockStep, RowWriters
<1>9. CASE ServiceStep
  <2>1. ASSUME Crash PROVE SeenIsCommitted(w)'
    BY <1>1, <1>2, <2>1 DEF Crash
  <2> QED
    BY <1>4, <1>6, <1>7, <1>8, <1>9, <2>1 DEF ServiceStep, ServiceNext, Retire
<1>10. CASE EngineStep
  BY <1>4, <1>10 DEF EngineStep, service
<1>11. CASE UNCHANGED vars
  BY <1>4, <1>11 DEF vars, service
<1> QED
  BY <1>9, <1>10, <1>11 DEF Next

\* Every step of a single worker's service is one of the ledger's, or none.
LEMMA LedgerStep ==
    ASSUME IInv, RowsSettled, NEW w, Workers = {w}, SeenIsCommitted(w), [Next]_vars
    PROVE  [Ledger!Next]_Ledger!ledger
<1> USE GenericFilesAssumption
<1> DEFINE status == [p \in PublicationIds |-> rows[p].status]
           request == [p \in PublicationIds |-> rows[p].fingerprint]
           reason == [p \in PublicationIds |-> rows[p].reason]
<1>1. CASE UNCHANGED rows
  BY <1>1 DEF Ledger!ledger
<1>2. CASE RowWriters(w)
  <2>1. PICK n \in PublicationIds : n = req[w].publication
    BY <1>2, Written
  <2>2. PICK row \in Rows :
           /\ rows' = [rows EXCEPT ![n] = row]
           /\ row.status # "ABSENT"
           /\ row.reason # None <=> row.status = "DEMO_ENTRIES_BLOCKED"
           /\ \/ /\ ~Committed(n) /\ row.reason = None
                 /\ row.fingerprint = req[w].fingerprint /\ Publishing(w)
                 /\ row.status \in {"DEMO_WAITING_FOR_MT5", "PUBLICATION_FAILED"}
              \/ /\ req[w].step = "scan" /\ row.status = "DEMO_ACKNOWLEDGED"
                 /\ row.fingerprint = rows[n].fingerprint
              \/ /\ req[w].step = "block" /\ row.status = "DEMO_ENTRIES_BLOCKED"
                 /\ row.reason \in Reasons
                 /\ row.fingerprint = rows[n].fingerprint
    BY <1>2, <2>1, Written
  <2>3. rows \in [PublicationIds -> Rows]
    BY DEF IInv, TypeOK, ServiceTypeOK
  <2>4. /\ status' = [status EXCEPT ![n] = row.status]
        /\ request' = [request EXCEPT ![n] = row.fingerprint]
        /\ reason' = [reason EXCEPT ![n] = row.reason]
    BY <2>2, <2>3
  <2>5. /\ status[n] = rows[n].status /\ request[n] = rows[n].fingerprint /\ reason[n] = rows[n].reason
    OBVIOUS
  <2>6. CASE ~Committed(n) /\ row.reason = None /\ row.fingerprint = req[w].fingerprint /\ Publishing(w)
             /\ row.status \in {"DEMO_WAITING_FOR_MT5", "PUBLICATION_FAILED"}
    <3>1. PICK f \in Fingerprints : f = req[w].fingerprint
      BY <2>6 DEF IInv, RequestSound, Publishing
    <3>2. \A p \in PublicationIds : rows[p].fingerprint # f
      BY <2>6, <3>1 DEF IInv, PublishersExclusive, RowsSettled, NoRow
    <3>3. status[n] = "ABSENT" /\ reason' = reason
      BY <2>3, <2>4, <2>5, <2>6 DEF Committed, RowsSettled, NoRow
    <3>4. Ledger!Publish(n, f)
      BY <2>4, <2>6, <3>1, <3>2, <3>3 DEF Ledger!Publish
    <3> QED
      BY <3>4 DEF Ledger!Next
  <2>7. CASE req[w].step = "scan" /\ row.status = "DEMO_ACKNOWLEDGED" /\ row.fingerprint = rows[n].fingerprint
    <3>1. rows[n].status = "DEMO_WAITING_FOR_MT5"
      BY <2>1, <2>7 DEF SeenIsCommitted
    <3>2. rows[n].reason = None /\ row.reason = None
      BY <2>2, <2>7, <3>1 DEF RowsSettled
    <3>3. request' = request
      BY <2>4, <2>5, <2>7
    <3>4. reason' = reason
      BY <2>4, <2>5, <3>2
    <3>5. Ledger!Acknowledge(n)
      BY <2>4, <2>5, <2>7, <3>1, <3>3, <3>4 DEF Ledger!Acknowledge
    <3> QED
      BY <3>5 DEF Ledger!Next
  <2>8. CASE req[w].step = "block" /\ row.status = "DEMO_ENTRIES_BLOCKED"
             /\ row.reason \in Reasons /\ row.fingerprint = rows[n].fingerprint
    <3>1. rows[n].status \in {"DEMO_WAITING_FOR_MT5", "DEMO_ACKNOWLEDGED"}
      BY <2>1, <2>8 DEF SeenIsCommitted, CanBlock, BlockSteps
    <3>2. request' = request
      BY <2>4, <2>5, <2>8
    <3>3. Ledger!Block(n, row.reason)
      BY <2>4, <2>5, <2>8, <3>1, <3>2 DEF Ledger!Block
    <3> QED
      BY <2>8, <3>3 DEF Ledger!Next
  <2> QED
    BY <2>2, <2>6, <2>7, <2>8
<1> QED
  BY <1>1, <1>2, WritersOfRows

\* One worker at a time.
OneWorker == \E w : Workers = {w}

\* Served one request at a time, the publications table keeps the ledger: one
\* outcome for each request, statuses that only move forward, and a block that
\* keeps its reason; with crashes and I/O errors anywhere.
THEOREM LedgerIsKept ==
    ASSUME OneWorker
    PROVE  Spec => KeepsLedger
<1> DEFINE Sound == RowsSettled /\ \A w \in Workers : SeenIsCommitted(w)
<1>1. Init => Sound /\ Ledger!Init
  <2> SUFFICES ASSUME Init PROVE Sound /\ Ledger!Init
    OBVIOUS
  <2>1. rows = [p \in PublicationIds |-> NoRow] /\ req = [w \in Workers |-> Idle]
    BY DEF Init, ServiceInit
  <2> QED
    BY <2>1 DEF RowsSettled, SeenIsCommitted, Committed, NoRow, Idle, BlockSteps, Ledger!Init
<1>2. IInv /\ Sound /\ [Next]_vars => Sound'
  BY RowsStaySettled, SoleCopyStaysExact DEF OneWorker
<1>3. IInv /\ Sound /\ [Next]_vars => [Ledger!Next]_Ledger!ledger
  BY LedgerStep DEF OneWorker
<1> QED
  BY <1>1, <1>2, <1>3, ChainInvariant, PTL DEF Spec, KeepsLedger, Ledger!Spec
=============================================================================
