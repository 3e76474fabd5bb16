-------------------------- MODULE GenericDemoChain --------------------------
(***************************************************************************)
(* The generic DEMO chain: the publication service and the terminal's      *)
(* configuration loading, interleaved over the shared files.               *)
(*                                                                         *)
(* installed is a history variable: the publications the control file has  *)
(* ever named.  The code keeps no such record.                             *)
(***************************************************************************)
EXTENDS GenericPublication, ArkanaEngine

VARIABLE installed

vars == <<files, service, engine, installed>>

Init ==
    /\ FilesInit
    /\ ServiceInit
    /\ EngineInit
    /\ installed = {}

RecordInstalled ==
    installed' = installed \cup
        (IF control' = None THEN {} ELSE {control'.publication_id})

ServiceStep == ServiceNext /\ RecordInstalled /\ UNCHANGED engine

EngineStep == EngineNext /\ UNCHANGED <<service, installed>>

Next == ServiceStep \/ EngineStep

Spec == Init /\ [][Next]_vars

-----------------------------------------------------------------------------
(* Fairness.  A worker runs its request to the end; the timer keeps firing *)
(* (OnInit sets it), so a reload that began completes and another begins.  *)
(* Opening a file fails only transiently: among infinitely many reloads    *)
(* that could read the manifest and append an acknowledgement, one does.   *)

WorkerFinishes(w) ==
    \/ WriteManifest(w) \/ ReadbackManifest(w) \/ CommitWaiting(w) \/ CommitFailed(w)
    \/ ReadbackControl(w) \/ CommitBlock(w)

ReadsManifest == ReadManifest /\ candidate' # None
Acknowledges == Activate /\ candidate \in acknowledgements'

FairSpec ==
    /\ Spec
    /\ \A w \in Workers : WF_vars(WorkerFinishes(w) /\ ServiceStep)
    /\ WF_vars(Reload /\ EngineStep)
    /\ SF_vars(ReadsManifest /\ EngineStep)
    /\ SF_vars(Acknowledges /\ EngineStep)

-----------------------------------------------------------------------------
(* Safety *)

\* Every variable holds a value of its type.
TypeOK ==
    /\ FilesTypeOK
    /\ ServiceTypeOK
    /\ EngineTypeOK
    /\ installed \subseteq PublicationIds

\* The manifest is replaced only after its configuration is complete on disk
\* (publish writes and reads back the config first), so no crash, I/O error or
\* concurrent publication leaves an activation pointer to a missing file.
ManifestPointsToConfig ==
    manifest # None => ConfigOf[manifest.fingerprint] \in configs

\* The identity a publish in flight or a committed row answers for.
Owns(p, f) ==
    \/ rows[p].fingerprint = f /\ Committed(p)
    \/ \E w \in Workers : Publishing(w) /\ req[w].publication = p /\ req[w].fingerprint = f

\* At any instant, in flight and committed taken together, one stable request
\* has at most one publication: racing workers and retries share the winner.
OnePublicationPerRequest ==
    \A f \in Fingerprints : \A p, q \in PublicationIds :
        Owns(p, f) /\ Owns(q, f) => p = q

\* poll_ack promotes a publication only on a row that carries its own identity
\* as well as its configuration; the answer to another publication of the same
\* configuration, or to a crashed attempt at it, does not count.
AcknowledgedByOwnRow ==
    \A p \in PublicationIds :
        rows[p].acknowledged => ExactAck(p, rows[p].fingerprint) \in acknowledgements

\* While a worker is between replacing a file and reading it back, the file is
\* the one it wrote: _publication_lock keeps every other writer out, so a
\* readback that differs is never the effect of a concurrent request.
ReadbackSeesOwnWrite ==
    \A w \in Workers :
        /\ req[w].step = "manifestReadback" => manifest = OwnManifest(w)
        /\ req[w].step = "controlReadback" => control = OwnControl(w)

\* A row says DEMO_ENTRIES_BLOCKED only if the control file named the
\* publication at some moment before: the database never claims a block whose
\* installation failed.
BlockedWasInstalled ==
    \A p \in PublicationIds :
        rows[p].status = "DEMO_ENTRIES_BLOCKED" => p \in installed

\* What the terminal runs was written by this service for this terminal: its
\* identity was issued, its configuration is on disk, and generic and legacy
\* configurations are never both active.
RunsOnlyIssuedLocalConfig ==
    running # None =>
        /\ running.publication_id \in issued
        /\ running.fingerprint \in OnTerminal
        /\ ConfigOf[running.fingerprint] \in configs
        /\ legacy = None

-----------------------------------------------------------------------------
(* The inductive invariant behind the safety properties *)

\* A committed row was issued and answers a request.
CommittedRowsSound ==
    \A p \in PublicationIds :
        Committed(p) => p \in issued /\ rows[p].fingerprint \in Fingerprints

\* What each step of a request can rely on.
RequestSound(w) ==
    LET r == req[w] IN
    /\ r.step \in {"lookup", "insert"} \cup PublishSteps => r.fingerprint \in Fingerprints
    /\ Publishing(w) => r.publication \in issued /\ ~Committed(r.publication)
    /\ r.step \in {"manifest", "manifestReadback", "commit"} => ConfigOf[r.fingerprint] \in configs
    /\ r.step \in {"scan", "lifecycle"} \cup BlockSteps =>
          /\ r.publication \in PublicationIds /\ Committed(r.publication)
          /\ r.seen.fingerprint = rows[r.publication].fingerprint
          /\ r.seen.acknowledged =>
                ExactAck(r.publication, r.seen.fingerprint) \in acknowledgements
    /\ r.step \in BlockSteps => r.reason \in Reasons
    /\ r.step = "block" => r.publication \in installed

\* The lock is held exactly over the file operations that need it.
LockSound ==
    \A w \in Workers :
        req[w].step \in {"manifest", "manifestReadback", "controlReadback"} <=> lock = w

\* No two workers publish one request or one identity, and none publishes a
\* request whose row is committed.
PublishersExclusive ==
    /\ \A v, w \in Workers :
          v # w /\ Publishing(v) /\ Publishing(w) =>
              /\ req[v].fingerprint # req[w].fingerprint
              /\ req[v].publication # req[w].publication
    /\ \A w \in Workers, p \in PublicationIds :
          Publishing(w) /\ Committed(p) => rows[p].fingerprint # req[w].fingerprint
    /\ \A p, q \in PublicationIds :
          Committed(p) /\ Committed(q) /\ rows[p].fingerprint = rows[q].fingerprint => p = q

\* The publication the control file names is part of the history.
ControlRecorded == control # None => control.publication_id \in installed

\* Whatever the manifest or the terminal names was issued by the service.
LoadedSound ==
    /\ manifest # None => manifest.publication_id \in issued
    /\ \A m \in {candidate, running} : m # None =>
          /\ m.publication_id \in issued
          /\ m.fingerprint \in OnTerminal
          /\ ConfigOf[m.fingerprint] \in configs
    /\ running # None => legacy = None

\* The conjunction that every step preserves; it implies each safety property.
IInv ==
    /\ TypeOK
    /\ CommittedRowsSound
    /\ \A w \in Workers : RequestSound(w)
    /\ LockSound
    /\ ReadbackSeesOwnWrite
    /\ PublishersExclusive
    /\ ManifestPointsToConfig
    /\ LoadedSound
    /\ AcknowledgedByOwnRow
    /\ BlockedWasInstalled
    /\ ControlRecorded

-----------------------------------------------------------------------------
(* Action properties *)

\* An immutable block reason is never rewritten and a block is never lifted
\* (docs/SPRINT_20_05, reconcile_lifecycle's comment).
BlockIsImmutable ==
    [][\A p \in PublicationIds :
          rows[p].status = "DEMO_ENTRIES_BLOCKED" => rows'[p] = rows[p]]_vars

-----------------------------------------------------------------------------
(* Liveness *)

\* The others never run, nor are they acknowledged.
LocalManifests == {m \in Manifests : m.fingerprint \in OnTerminal}

\* A control installed for the running publication reaches the terminal: in
\* the end entries are blocked, unless the control is overwritten or the
\* terminal goes on to run something else.
InstalledBlockTakesEffect ==
    \A m \in LocalManifests :
        (running = m /\ ControlNames(m))
            ~> (running # m \/ ~ControlNames(m) \/ entriesBlocked)

\* A manifest for this terminal is acknowledged or superseded.
ManifestIsAcknowledged ==
    \A m \in LocalManifests :
        (manifest = m) ~> (manifest # m \/ m \in acknowledgements)

\* The publication lock is always given back, on the error paths too.
LockIsReleased == \A w \in Workers : (lock = w) ~> (lock # w)

-----------------------------------------------------------------------------
(* The abstract ledger of publications that one worker at a time keeps *)

Ledger == INSTANCE PublicationLedger WITH
    status <- [p \in PublicationIds |-> rows[p].status],
    request <- [p \in PublicationIds |-> rows[p].fingerprint],
    reason <- [p \in PublicationIds |-> rows[p].reason]

\* A row says nothing before its commit, and has the reason of its block from
\* the block on.
RowsSettled ==
    \A p \in PublicationIds :
        /\ ~Committed(p) => rows[p] = NoRow
        /\ rows[p].reason # None <=> rows[p].status = "DEMO_ENTRIES_BLOCKED"

\* The row a request decides on is still the committed one; with a second worker
\* it need not be.
SeenIsCommitted(w) ==
    LET r == req[w] IN
    /\ r.step \in {"scan", "lifecycle"} \cup BlockSteps => r.seen = rows[r.publication]
    /\ r.step = "scan" => r.seen.status = "DEMO_WAITING_FOR_MT5"
    /\ r.step \in BlockSteps => CanBlock(r.seen)

\* Served one request at a time, with crashes and I/O errors anywhere, the
\* service keeps the ledger: one outcome per request, and statuses that only
\* move forward.
KeepsLedger == Ledger!Spec
=============================================================================
