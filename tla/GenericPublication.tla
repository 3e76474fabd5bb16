------------------------- MODULE GenericPublication -------------------------
(***************************************************************************)
(* The service side of generic DEMO publication                            *)
(* (services/research/app/generic_mt5_publications.py): publish, poll_ack, *)
(* block_entries and reconcile_lifecycle, run by the endpoints of main.py  *)
(* on threadpool workers with one database session each.                   *)
(*                                                                         *)
(* A worker's request is cut where another worker, the terminal or a crash *)
(* can get in between: after each database statement whose answer it later *)
(* relies on, and after each file it replaces.  req[w].seen is the row its *)
(* session loaded; poll_ack and block_entries decide on that copy and      *)
(* update by primary key, without a version or a row lock.                 *)
(***************************************************************************)
EXTENDS GenericFiles

CONSTANTS
    Workers,   \* requests the service can have in flight
    Lifecycle  \* the reason LIFECYCLE_INVALID_OR_RETIRED

ASSUME LifecycleAssumption == Lifecycle \in Reasons
ASSUME WorkersAssumption == None \notin Workers

VARIABLES
    rows,       \* committed rows of generic_mt5_publications
    issued,     \* publication ids drawn so far; uuid4 never repeats one
    validated,  \* configurations whose strategy is VALIDATED, not retired
    lock,       \* the worker holding _publication_lock, or None
    req         \* the request each worker is serving

service == <<rows, issued, validated, lock, req>>

Statuses == {"ABSENT", "PUBLICATION_FAILED", "DEMO_WAITING_FOR_MT5",
             "DEMO_ACKNOWLEDGED", "DEMO_ENTRIES_BLOCKED"}

\* acknowledged and reason are the two parts of the one JSON column
\* `acknowledgement`: the MT5 row, and entry_control's reason code.
Rows == [status : Statuses, fingerprint : Fingerprints \cup {None},
         acknowledged : BOOLEAN, reason : Reasons \cup {None}]

NoRow == [status |-> "ABSENT", fingerprint |-> None,
          acknowledged |-> FALSE, reason |-> None]

PublishSteps == {"config", "manifest", "manifestReadback", "commit", "failed"}
BlockSteps == {"control", "controlReadback", "block"}
Steps == {"idle", "lookup", "insert", "scan", "lifecycle"}
             \cup PublishSteps \cup BlockSteps

RequestStates ==
    [step : Steps, fingerprint : Fingerprints \cup {None},
     publication : PublicationIds \cup {None}, seen : Rows,
     reason : Reasons \cup {None}]

Idle == [step |-> "idle", fingerprint |-> None, publication |-> None,
         seen |-> NoRow, reason |-> None]

-----------------------------------------------------------------------------
Begin(w, fields) ==
    /\ req[w].step = "idle"
    /\ req' = [req EXCEPT ![w] = fields]

Goto(w, from, to) ==
    /\ req[w].step = from
    /\ req' = [req EXCEPT ![w].step = to]

\* The response is sent, or an error raised: the session closes.
Respond(w, from) ==
    /\ req[w].step = from
    /\ req' = [req EXCEPT ![w] = Idle]

Acquire(w) == lock = None /\ lock' = w
Release(w) == lock = w /\ lock' = None

Committed(p) == rows[p].status # "ABSENT"
CommittedFor(f) == \E p \in PublicationIds : Committed(p) /\ rows[p].fingerprint = f

\* A worker between its flushed INSERT and its commit.  The row is invisible
\* to other sessions but holds the unique index entry of its fingerprint.
Publishing(w) == req[w].step \in PublishSteps

IndexFree(f) == \A w \in Workers : Publishing(w) => req[w].fingerprint # f

OwnManifest(w) == [publication_id |-> req[w].publication,
                   fingerprint |-> req[w].fingerprint]

OwnControl(w) == [publication_id |-> req[w].publication,
                  config |-> ConfigOf[req[w].seen.fingerprint],
                  reason |-> req[w].reason]

\* Every field of the row equals the publication's: poll_ack's `expected`.
ExactAck(p, f) == [publication_id |-> p, fingerprint |-> f]

-----------------------------------------------------------------------------
(* publish *)

\* Authorization, identity and the exact compilation were checked.
Preflight(w, f) ==
    /\ ConfigOf[f] \in validated
    /\ Begin(w, [Idle EXCEPT !.step = "lookup", !.fingerprint = f])
    /\ UNCHANGED <<files, rows, issued, validated, lock>>

\* A committed row is returned as it is, whatever its status.
ReuseExisting(w) ==
    /\ CommittedFor(req[w].fingerprint)
    /\ Respond(w, "lookup")
    /\ UNCHANGED <<files, rows, issued, validated, lock>>

NoExisting(w) ==
    /\ ~CommittedFor(req[w].fingerprint)
    /\ Goto(w, "lookup", "insert")
    /\ UNCHANGED <<files, rows, issued, validated, lock>>

\* Slip: no unique constraint on the fingerprint.
InsertRowUnchecked(w) ==
    /\ req[w].step = "insert"
    /\ \E p \in PublicationIds \ issued :
          /\ issued' = issued \cup {p}
          /\ req' = [req EXCEPT ![w] = [@ EXCEPT !.step = "config", !.publication = p]]
    /\ UNCHANGED <<files, rows, validated, lock>>

\* The flush waits while another transaction holds the fingerprint's index
\* entry, and succeeds if none committed it.
InsertRow(w) ==
    /\ req[w].step = "insert"
    /\ IndexFree(req[w].fingerprint)
    /\ ~CommittedFor(req[w].fingerprint)
    /\ \E p \in PublicationIds \ issued :
          /\ issued' = issued \cup {p}
          /\ req' = [req EXCEPT ![w] = [@ EXCEPT !.step = "config", !.publication = p]]
    /\ UNCHANGED <<files, rows, validated, lock>>

\* IntegrityError: roll back and answer with the winner.
InsertLoses(w) ==
    /\ IndexFree(req[w].fingerprint)
    /\ CommittedFor(req[w].fingerprint)
    /\ Respond(w, "insert")
    /\ UNCHANGED <<files, rows, issued, validated, lock>>

\* Slip: the configuration is left for after the manifest.
WriteConfigLater(w) ==
    /\ Goto(w, "config", "manifest")
    /\ Acquire(w)
    /\ UNCHANGED <<files, rows, issued, validated>>

\* The configuration is written once, through a temporary file.
WriteConfig(w) ==
    /\ Goto(w, "config", "manifest")
    /\ Acquire(w)
    /\ configs' = configs \cup {ConfigOf[req[w].fingerprint]}
    /\ UNCHANGED <<manifest, control, acknowledgements, rows, issued, validated>>

WriteManifest(w) ==
    /\ Goto(w, "manifest", "manifestReadback")
    /\ manifest' = OwnManifest(w)
    /\ UNCHANGED <<configs, control, acknowledgements, rows, issued, validated, lock>>

ReadbackManifest(w) ==
    /\ Release(w)
    /\ Goto(w, "manifestReadback",
            IF manifest = OwnManifest(w) THEN "commit" ELSE "failed")
    /\ UNCHANGED <<files, rows, issued, validated>>

\* Slip: the error path keeps the lock.
PublishIoErrorHoldsLock(w) ==
    /\ req[w].step \in {"manifest", "manifestReadback"}
    /\ req' = [req EXCEPT ![w].step = "failed"]
    /\ UNCHANGED <<files, rows, issued, validated, lock>>

\* An OSError: before the configuration, the manifest or its readback.  The
\* last of these leaves the new manifest in place.
PublishIoError(w) ==
    /\ \/ req[w].step = "config" /\ lock = None
       \/ req[w].step \in {"manifest", "manifestReadback"}
    /\ lock' = None
    /\ req' = [req EXCEPT ![w].step = "failed"]
    /\ UNCHANGED <<files, rows, issued, validated>>

CommitPublication(w, from, status) ==
    /\ Respond(w, from)
    /\ rows' = [rows EXCEPT ![req[w].publication] =
                   [NoRow EXCEPT !.status = status,
                                 !.fingerprint = req[w].fingerprint]]
    /\ UNCHANGED <<files, issued, validated, lock>>

CommitWaiting(w) == CommitPublication(w, "commit", "DEMO_WAITING_FOR_MT5")
CommitFailed(w) == CommitPublication(w, "failed", "PUBLICATION_FAILED")

-----------------------------------------------------------------------------
(* poll_ack *)

\* An acknowledged publication is returned and any other status refused.
BeginPoll(w, p) ==
    /\ rows[p].status = "DEMO_WAITING_FOR_MT5"
    /\ Begin(w, [Idle EXCEPT !.step = "scan", !.publication = p, !.seen = rows[p]])
    /\ UNCHANGED <<files, rows, issued, validated, lock>>

\* Slip: the row is matched by configuration checksum alone.
CommitAckByConfig(w) ==
    /\ Respond(w, "scan")
    /\ \E row \in acknowledgements :
          ConfigOf[row.fingerprint] = ConfigOf[req[w].seen.fingerprint]
    /\ rows' = [rows EXCEPT ![req[w].publication] =
                   [@ EXCEPT !.status = "DEMO_ACKNOWLEDGED", !.acknowledged = TRUE]]
    /\ UNCHANGED <<files, issued, validated, lock>>

\* The acknowledgement column is overwritten, with what it held.
CommitAck(w) ==
    /\ Respond(w, "scan")
    /\ ExactAck(req[w].publication, req[w].seen.fingerprint) \in acknowledgements
    /\ rows' = [rows EXCEPT ![req[w].publication] =
                   [@ EXCEPT !.status = "DEMO_ACKNOWLEDGED",
                             !.acknowledged = TRUE,
                             !.reason = None]]
    /\ UNCHANGED <<files, issued, validated, lock>>

NoAck(w) ==
    /\ Respond(w, "scan")
    /\ ExactAck(req[w].publication, req[w].seen.fingerprint) \notin acknowledgements
    /\ UNCHANGED <<files, rows, issued, validated, lock>>

-----------------------------------------------------------------------------
(* block_entries and reconcile_lifecycle *)

CanBlock(row) == row.status \in {"DEMO_WAITING_FOR_MT5", "DEMO_ACKNOWLEDGED"}

\* A blocked publication is returned (same reason) or refused.
BeginBlock(w, p, reason) ==
    /\ CanBlock(rows[p])
    /\ Begin(w, [Idle EXCEPT !.step = "control", !.publication = p,
                             !.seen = rows[p], !.reason = reason])
    /\ UNCHANGED <<files, rows, issued, validated, lock>>

BeginReconcile(w, p) ==
    /\ Committed(p)
    /\ Begin(w, [Idle EXCEPT !.step = "lifecycle", !.publication = p, !.seen = rows[p]])
    /\ UNCHANGED <<files, rows, issued, validated, lock>>

LifecycleValid(w) == ConfigOf[req[w].seen.fingerprint] \in validated

\* Still valid, already blocked, or refused by block_entries.
ReconcileReturns(w) ==
    /\ Respond(w, "lifecycle")
    /\ LifecycleValid(w) \/ ~CanBlock(req[w].seen)
    /\ UNCHANGED <<files, rows, issued, validated, lock>>

\* Slip: an invalid lifecycle blocks a blocked publication again.
ReconcileBlocksAgain(w) ==
    /\ req[w].step = "lifecycle"
    /\ ~LifecycleValid(w)
    /\ req' = [req EXCEPT ![w] = [@ EXCEPT !.step = "control", !.reason = Lifecycle]]
    /\ UNCHANGED <<files, rows, issued, validated, lock>>

ReconcileBlocks(w) ==
    /\ req[w].step = "lifecycle"
    /\ ~LifecycleValid(w) /\ CanBlock(req[w].seen)
    /\ req' = [req EXCEPT ![w] = [@ EXCEPT !.step = "control", !.reason = Lifecycle]]
    /\ UNCHANGED <<files, rows, issued, validated, lock>>

WriteControl(w) ==
    /\ Goto(w, "control", "controlReadback")
    /\ Acquire(w)
    /\ control' = OwnControl(w)
    /\ UNCHANGED <<manifest, configs, acknowledgements, rows, issued, validated>>

ReadbackControl(w) ==
    /\ Goto(w, "controlReadback", "block")
    /\ control = OwnControl(w)
    /\ Release(w)
    /\ UNCHANGED <<files, rows, issued, validated>>

\* The control was not replaced, or was replaced and its readback failed:
\* the request fails and the row keeps its status.
ControlIoError(w) ==
    /\ \/ Respond(w, "control") /\ lock = None
       \/ Respond(w, "controlReadback")
    /\ lock' = None
    /\ UNCHANGED <<files, rows, issued, validated>>

\* The column becomes the session's copy of it with entry_control added.
CommitBlock(w) ==
    /\ Respond(w, "block")
    /\ rows' = [rows EXCEPT ![req[w].publication] =
                   [@ EXCEPT !.status = "DEMO_ENTRIES_BLOCKED",
                             !.acknowledged = req[w].seen.acknowledged,
                             !.reason = req[w].reason]]
    /\ UNCHANGED <<files, issued, validated, lock>>

-----------------------------------------------------------------------------
(* The rest of the service *)

\* The strategy leaves VALIDATED (generic_validation_retirements.py).
Retire(c) ==
    /\ c \in validated
    /\ validated' = validated \ {c}
    /\ UNCHANGED <<files, rows, issued, lock, req>>

\* The process dies and is restarted: open transactions roll back, and the
\* in-process lock and every request in flight are gone.  Files stay.
Crash ==
    /\ \E w \in Workers : req[w] # Idle
    /\ req' = [w \in Workers |-> Idle]
    /\ lock' = None
    /\ UNCHANGED <<files, rows, issued, validated>>

ServiceInit ==
    /\ rows = [p \in PublicationIds |-> NoRow]
    /\ issued = {}
    /\ validated = Configs
    /\ lock = None
    /\ req = [w \in Workers |-> Idle]

PublishStep(w) ==
    \/ \E f \in Fingerprints : Preflight(w, f)
    \/ ReuseExisting(w) \/ NoExisting(w) \/ InsertRow(w) \/ InsertLoses(w)
    \/ WriteConfig(w) \/ WriteManifest(w) \/ ReadbackManifest(w)
    \/ PublishIoError(w) \/ CommitWaiting(w) \/ CommitFailed(w)

PollStep(w) ==
    \/ \E p \in PublicationIds : BeginPoll(w, p)
    \/ CommitAck(w) \/ NoAck(w)

BlockStep(w) ==
    \/ \E p \in PublicationIds, reason \in Reasons : BeginBlock(w, p, reason)
    \/ \E p \in PublicationIds : BeginReconcile(w, p)
    \/ ReconcileReturns(w) \/ ReconcileBlocks(w)
    \/ WriteControl(w) \/ ReadbackControl(w) \/ ControlIoError(w) \/ CommitBlock(w)

ServiceNext ==
    \/ \E w \in Workers : PublishStep(w) \/ PollStep(w) \/ BlockStep(w)
    \/ \E c \in Configs : Retire(c)
    \/ Crash

ServiceTypeOK ==
    /\ rows \in [PublicationIds -> Rows]
    /\ issued \subseteq PublicationIds
    /\ validated \subseteq Configs
    /\ lock \in Workers \cup {None}
    /\ req \in [Workers -> RequestStates]
=============================================================================
