---------------------------- MODULE DemoGovernance ----------------------------
(***************************************************************************)
(* What the service concludes from a publication that trades on a DEMO     *)
(* account: telemetry rows, frozen forward evidence, chain verification,   *)
(* the journal of sources, incidents with their recovery, learning         *)
(* proposals, readiness assessments and the acceptance verifier.           *)
(*                                                                         *)
(* All but the publication are append-only tables, each row bound to those *)
(* it was computed from and recomputed from them by its verifier.  A       *)
(* request is one step when it inserts what it computed from one read; it  *)
(* is cut in two, and may crash in between, where a write of another       *)
(* request, or a commit of its own, matters to the insert.                 *)
(*                                                                         *)
(* One strategy, one publication.  Poll and block are one step each here:  *)
(* their races are GenericDemoChain's.                                     *)
(***************************************************************************)
EXTENDS Integers, Sequences, FiniteSets

CONSTANTS
  Workers,
  SufficientRows,   \* rows that make forward evidence sufficient
  FreshFor,         \* clock ticks a heartbeat stays fresh
  TicksPerMinute,
  Bounds,           \* bounds by instance; each behaviour is of one instance
  None

\* A row of telemetry.csv.
Rows == [seq : Nat, code : STRING, time : Nat]

\* The first file of an instance fits its bound.
ASSUME GovernanceAssumption ==
  /\ TicksPerMinute \in Nat \ {0} /\ None \notin Workers
  /\ \A i \in DOMAIN Bounds :
       /\ Bounds[i].clock \in Nat /\ Bounds[i].rows \in Nat /\ Bounds[i].codes \subseteq STRING
       /\ Bounds[i].file \in Seq(Rows) /\ Len(Bounds[i].file) <= Bounds[i].rows

VARIABLES
  clock,
  file, counter,    \* telemetry.csv and the terminal's sequence counter
  publication, retired,
  events, evidence, chains, journal, incidents, acknowledged, resolutions,
  proposals, confirmations, drafts, assessments, acceptances,
  req,
  faults,           \* what has disturbed the behaviour so far, at most max.faults of it
  instance

terminalVars == <<file, counter>>
lifecycle    == <<publication, retired>>
forward      == <<events, evidence, chains>>
recovery     == <<incidents, acknowledged, resolutions>>
learning     == <<proposals, confirmations, drafts>>
reports      == <<assessments, acceptances>>
vars == <<clock, file, counter, publication, retired, events, evidence, chains, journal,
          incidents, acknowledged, resolutions, proposals, confirmations, drafts,
          assessments, acceptances, req, faults, instance>>

\* Clock, rows, items ..., the requests that run at once, what may disturb the
\* behaviour, the codes and reasons it knows.
max == Bounds[instance]

Rng(s) == {s[n] : n \in DOMAIN s}
-----------------------------------------------------------------------------
(* Policies *)

Rule(severity, facts, sources, codes) ==
  [severity |-> severity, facts |-> facts, recovery |-> sources, codes |-> codes]

Telemetry == {"GENERIC_TELEMETRY"}
SourceTypes == {"GENERIC_TELEMETRY", "GENERIC_PUBLICATION", "GENERIC_FORWARD_EVIDENCE",
                "GENERIC_CHAIN_VERIFICATION", "LIFECYCLE_VERIFICATION"}

\* POLICY, one reason for each combination of severity and recovery sources; an
\* unrecoverable reason has no sources.
POLICY ==
  [STALE_OR_MISSING_HEARTBEAT |-> Rule("HIGH", {"STALE", "MISSING"}, Telemetry, {"OK", "HEALTHY", "FRESH"}),
   CORRUPT_ACTIVE_CONFIG |-> Rule("CRITICAL", {"CORRUPT"}, Telemetry \cup {"GENERIC_PUBLICATION"}, {"CONFIG_VERIFIED"}),
   LIFECYCLE_INVALIDATED_WHILE_ACTIVE |-> Rule("CRITICAL", {"INVALIDATED"}, {"LIFECYCLE_VERIFICATION"}, {}),
   LEGACY_ISOLATION_BREACH |-> Rule("CRITICAL", {"BREACHED"}, {"GENERIC_CHAIN_VERIFICATION"}, {}),
   STRATEGY_RETIRED |-> Rule("HIGH", {"RETIRED"}, {}, {}),
   COST_SLIPPAGE_UNAVAILABLE |-> Rule("MEDIUM", {"UNAVAILABLE"}, {"GENERIC_FORWARD_EVIDENCE"}, {}),
   TELEMETRY_CONFLICT |-> Rule("MEDIUM", {"CONFLICT"}, Telemetry \cup {"GENERIC_CHAIN_VERIFICATION"}, {"TELEMETRY_RECONCILED"}),
   NON_SAFETY_METADATA_INCOMPLETE |-> Rule("LOW", {"INCOMPLETE"}, SourceTypes, {})]

\* What entries may be blocked for.
BlockReasons == DOMAIN POLICY \cup {"OWNER", "LIFECYCLE_INVALID_OR_RETIRED"}

\* An instance reports reasons of the policy.
ASSUME ReasonsAssumption == \A i \in DOMAIN Bounds : Bounds[i].reasons \subseteq DOMAIN POLICY

Blocking(reason) == POLICY[reason].severity \in {"CRITICAL", "HIGH"}
BlocksReadiness(reason) == POLICY[reason].severity # "LOW"

\* One code stands for the three that readiness requires.
RECOVERY_CODES == {"RESTART_RECOVERED"}
Heartbeats == {"OK", "HEALTHY", "FRESH", "CACHED_CONFIG_ACTIVE"}
MANDATORY_JOURNAL_TYPES == SourceTypes \ Telemetry
-----------------------------------------------------------------------------
(* Publication, terminal and strategy *)

Idle == [op |-> "IDLE"]

Init ==
  /\ instance \in DOMAIN Bounds
  /\ clock = 0 /\ file = max.file /\ counter = Len(max.file)
  /\ publication = [status |-> "WAITING", ack |-> FALSE, control |-> None] /\ retired = FALSE
  /\ events = {} /\ evidence = {} /\ chains = {} /\ journal = {}
  /\ incidents = {} /\ acknowledged = {} /\ resolutions = {}
  /\ proposals = {} /\ confirmations = {} /\ drafts = 0
  /\ assessments = {} /\ acceptances = {}
  /\ req = [w \in Workers |-> Idle] /\ faults = {}

Disturb(what) ==
  /\ what \in max.disturbances \ faults /\ Cardinality(faults) < max.faults /\ faults' = faults \cup {what}

Tick ==
  /\ clock < max.clock /\ clock' = clock + 1
  /\ UNCHANGED <<terminalVars, lifecycle, forward, journal, recovery, learning, reports, req, faults, instance>>

\* EmitGenericEvent: the terminal has loaded the configuration, acknowledged
\* or not, blocked or not.
Emit(code) ==
  /\ Len(file) < max.rows
  /\ file' = Append(file, [seq |-> counter + 1, code |-> code, time |-> clock])
  /\ counter' = counter + 1
  /\ UNCHANGED <<clock, lifecycle, forward, journal, recovery, learning, reports, req, faults, instance>>

\* The terminal dies before it saved its global variables.
LoseCounter ==
  /\ counter > 0 /\ Disturb("COUNTER")
  /\ counter' = counter - 1
  /\ UNCHANGED <<clock, file, lifecycle, forward, journal, recovery, learning, reports, req, instance>>

\* poll_ack finds the exact row of the terminal.
PollAcknowledgement ==
  /\ publication.status = "WAITING"
  /\ publication' = [status |-> "ACTIVE", ack |-> TRUE, control |-> publication.control]
  /\ UNCHANGED <<clock, terminalVars, retired, forward, journal, recovery, learning, reports, req, faults, instance>>

\* Slip: the block replaces the acknowledgement.
BlockedWithoutAck(reason, by) ==
  [status |-> "BLOCKED", ack |-> FALSE, control |-> [reason |-> reason, by |-> by, at |-> clock]]

\* block_entries, for the first reason; a block is never rewritten.
Blocked(reason, by) ==
  [status |-> "BLOCKED", ack |-> publication.ack, control |-> [reason |-> reason, by |-> by, at |-> clock]]

OwnerBlocks ==
  /\ publication.status # "BLOCKED" /\ Disturb("OWNER")
  /\ publication' = Blocked("OWNER", "OWNER")
  /\ UNCHANGED <<clock, terminalVars, retired, forward, journal, recovery, learning, reports, req, instance>>

Retire ==
  /\ ~retired /\ retired' = TRUE /\ Disturb("RETIRED")
  /\ UNCHANGED <<clock, terminalVars, publication, forward, journal, recovery, learning, reports, req, instance>>

ReconcileLifecycle ==
  /\ retired /\ publication.status # "BLOCKED"
  /\ publication' = Blocked("LIFECYCLE_INVALID_OR_RETIRED", "LIFECYCLE")
  /\ UNCHANGED <<clock, terminalVars, retired, forward, journal, recovery, learning, reports, req, faults, instance>>

Begin(w, r) ==
  /\ req[w] = Idle /\ Cardinality({v \in Workers : req[v] # Idle}) < max.requests
  /\ req' = [req EXCEPT ![w] = r]
Respond(w, op) == req[w].op = op /\ req' = [req EXCEPT ![w] = Idle]

\* The process dies with the request; what it committed stays.
Crash(w) ==
  /\ req[w] # Idle /\ Disturb("CRASH")
  /\ req' = [req EXCEPT ![w] = Idle]
  /\ UNCHANGED <<clock, terminalVars, lifecycle, forward, journal, recovery, learning, reports, instance>>
-----------------------------------------------------------------------------
(* Telemetry and forward evidence *)

Acknowledged == publication.status = "ACTIVE" /\ publication.ack
Payload(e) == [seq |-> e.seq, code |-> e.code, time |-> e.time]

Conflicting ==
  \/ \E r, s \in Rng(file) : r.seq = s.seq /\ r # s
  \/ \E r \in Rng(file), e \in events : r.seq = e.seq /\ r # Payload(e)

\* sync validates the whole file before it inserts the rows it lacks.
SyncRead(w) ==
  /\ file # <<>> /\ Acknowledged /\ ~Conflicting
  /\ Begin(w, [op |-> "SYNC", rows |-> {r \in Rng(file) : \A e \in events : e.seq # r.seq}, read |-> clock])
  /\ req'[w].rows # {}
  /\ UNCHANGED <<clock, terminalVars, lifecycle, forward, journal, recovery, learning, reports, faults, instance>>

Event(r, read) == [seq |-> r.seq, code |-> r.code, time |-> r.time, observed |-> clock, read |-> read]

\* One commit; a row another sync inserted meanwhile fails all of them.
SyncCommit(w) ==
  /\ Respond(w, "SYNC")
  /\ events' = IF \E r \in req[w].rows, e \in events : e.seq = r.seq THEN events
               ELSE events \cup {Event(r, req[w].read) : r \in req[w].rows}
  /\ UNCHANGED <<clock, terminalVars, lifecycle, evidence, chains, journal, recovery, learning, reports, faults, instance>>

\* _result, with the thirty trades, seven days and costs of POLICY as a number
\* of rows.
ForwardStatus(es) ==
  CASE \E e \in es : e.code = "EMERGENCY" -> "RISK_REVIEW"
    [] Cardinality(es) >= SufficientRows -> "READY"
    [] OTHER -> "INSUFFICIENT"

Evidence == [id |-> Cardinality(evidence) + 1, events |-> events, status |-> ForwardStatus(events), created |-> clock]

\* materialize: frozen over all events, or the row that has them already.
FreezeEvidence ==
  /\ Acknowledged /\ \A f \in evidence : f.events # events
  /\ Cardinality(evidence) < max.evidence
  /\ evidence' = evidence \cup {Evidence}
  /\ UNCHANGED <<clock, terminalVars, lifecycle, events, chains, journal, recovery, learning, reports, req, faults, instance>>

Newest(rows) == CHOOSE r \in rows : \A s \in rows : s.id <= r.id
-----------------------------------------------------------------------------
(* Chain verification *)

Minute(t) == t \div TicksPerMinute

LastHeartbeat ==
  LET hs == {e \in events : e.code \in Heartbeats}
  IN IF hs = {} THEN None ELSE CHOOSE e \in hs : \A f \in hs : f.seq <= e.seq

FreshAt(t) == LastHeartbeat # None /\ t - LastHeartbeat.time \in 0 .. FreshFor

\* _source_payload with the reference minute: what the fingerprint covers.
ChainSources(t) ==
  [minute |-> Minute(t), publication |-> publication, retired |-> retired,
   events |-> events, evidence |-> Newest(evidence)]

\* Compiler, transport, telemetry checksums and DEMO scope hold here.
ChainResult(t) ==
  [at |-> t,
   lifecycle |-> ~retired,
   acknowledgement |-> publication.ack,
   heartbeat |-> FreshAt(t),
   forward |-> Newest(evidence).events = events,
   control |-> ~retired \/ publication.status = "BLOCKED"]

Chain == [id |-> Cardinality(chains) + 1, sources |-> ChainSources(clock), result |-> ChainResult(clock), created |-> clock]

VerifyChain ==
  /\ evidence # {} /\ Cardinality(chains) < max.chains
  /\ \A c \in chains : c.sources # ChainSources(clock)
  /\ chains' = chains \cup {Chain}
  /\ UNCHANGED <<clock, terminalVars, lifecycle, events, evidence, journal, recovery, learning, reports, req, faults, instance>>
-----------------------------------------------------------------------------
(* Journal *)

Source(type, id) == [type |-> type, id |-> id]
Generic(source) == source.type # "LIFECYCLE_VERIFICATION"

Sources ==
  {Source("LIFECYCLE_VERIFICATION", 0), Source("GENERIC_PUBLICATION", 0)}
    \cup {Source("GENERIC_TELEMETRY", e.seq) : e \in events}
    \cup {Source("GENERIC_FORWARD_EVIDENCE", f.id) : f \in evidence}
    \cup {Source("GENERIC_CHAIN_VERIFICATION", c.id) : c \in chains}

\* The row a source names.
RowOf(source) ==
  CASE source.type = "LIFECYCLE_VERIFICATION" -> [created |-> 0]
    [] source.type = "GENERIC_PUBLICATION" -> publication
    [] source.type = "GENERIC_TELEMETRY" -> CHOOSE e \in events : e.seq = source.id
    [] source.type = "GENERIC_FORWARD_EVIDENCE" -> CHOOSE f \in evidence : f.id = source.id
    [] source.type = "GENERIC_CHAIN_VERIFICATION" -> CHOOSE c \in chains : c.id = source.id

\* The JSON column: the row of the terminal, the entry control, or both.
HasAcknowledgement == publication.ack \/ publication.control # None

\* _contract_for: what is acknowledged must be the exact row of the terminal.
LineageHolds(source) == Generic(source) /\ HasAcknowledgement => publication.ack

Origin(source) == IF Generic(source) /\ HasAcknowledgement THEN "REAL_OWNER" ELSE "UNKNOWN"

\* Every column of the source is in it.
Snapshot(source) == [row |-> RowOf(source), origin |-> Origin(source)]

\* _event_clock: telemetry has a time of its own, the publication none after
\* its creation.
ObservedAt(source) ==
  CASE source.type = "GENERIC_TELEMETRY" -> RowOf(source).observed
    [] source.type \in {"GENERIC_FORWARD_EVIDENCE", "GENERIC_CHAIN_VERIFICATION"} -> RowOf(source).created
    [] OTHER -> 0

Indexed == {j.source : j \in journal}

Item(source) == [source |-> source, snapshot |-> Snapshot(source), observed |-> ObservedAt(source)]

Index(source) ==
  /\ source \in Sources \ Indexed /\ LineageHolds(source) /\ Cardinality(journal) < max.journal
  /\ Cardinality({j \in journal : j.source.type = source.type}) < max.perType
  /\ journal' = journal \cup {Item(source)}
  /\ UNCHANGED <<clock, terminalVars, lifecycle, forward, recovery, learning, reports, req, faults, instance>>

\* verify: the source, prepared again, gives the same item.
ItemVerifies(j) == LineageHolds(j.source) /\ Snapshot(j.source) = j.snapshot
-----------------------------------------------------------------------------
(* Incidents and their recovery *)

Key(i) == [reason |-> i.reason, trigger |-> i.trigger, detected |-> i.detected]

\* What _validated_signal lets a reason report, and _utc as its instant.
Signals(reason) == POLICY[reason].facts
Instants(j) == j.observed .. clock

\* The request of an incident up to its insert, block included.
IncidentBegins(w, reason, fact, j, detected) ==
  LET required == Generic(j.source) /\ Blocking(reason)
      state == IF ~required THEN "NOT_APPLICABLE"
               ELSE IF publication.status = "BLOCKED" THEN "PRESERVED" ELSE "INSTALLED"
      row == [reason |-> reason, fact |-> fact, trigger |-> j.source, detected |-> detected, block |-> state]
  IN /\ \A i \in incidents : Key(i) # Key(row)
     /\ Cardinality(incidents) < max.incidents
     /\ publication' = IF state = "INSTALLED" THEN Blocked(reason, "INCIDENT") ELSE publication
     /\ Begin(w, [op |-> "INCIDENT", row |-> row])
     /\ UNCHANGED <<clock, terminalVars, retired, forward, journal, recovery, learning, reports, faults, instance>>

\* Slip: the trigger is verified after the block.
RecordIncidentBlockFirst(w, reason, fact, j, detected) ==
  /\ fact \in Signals(reason) /\ detected \in Instants(j)
  /\ IncidentBegins(w, reason, fact, j, detected)
     \/ /\ j.source.type = "GENERIC_PUBLICATION" /\ Blocking(reason) /\ publication.status # "BLOCKED"
        /\ publication' = Blocked(reason, "INCIDENT")
        /\ UNCHANGED <<clock, terminalVars, retired, forward, journal, recovery, learning, reports, req, faults, instance>>

\* materialize: an exact retry is answered before the trigger is verified.
RecordIncident(w, reason, fact, j, detected) ==
  /\ fact \in Signals(reason) /\ detected \in Instants(j)
  /\ ItemVerifies(j)
  /\ IncidentBegins(w, reason, fact, j, detected)

Incident(row) ==
  [reason |-> row.reason, fact |-> row.fact, trigger |-> row.trigger,
   detected |-> row.detected, block |-> row.block, created |-> clock]

\* The insert; of two requests with one key the second gets the first's row,
\* whatever that says of the block.
IncidentCommit(w) ==
  /\ Respond(w, "INCIDENT")
  /\ LET row == req[w].row IN
     incidents' = IF \E i \in incidents : Key(i) = Key(row) THEN incidents
                  ELSE incidents \cup {Incident(row)}
  /\ UNCHANGED <<clock, terminalVars, lifecycle, forward, journal, acknowledged, resolutions, learning, reports, faults, instance>>

AcknowledgeIncident(i) ==
  /\ i \in incidents \ acknowledged
  /\ acknowledged' = acknowledged \cup {i}
  /\ UNCHANGED <<clock, terminalVars, lifecycle, forward, journal, incidents, resolutions, learning, reports, req, faults, instance>>

Resolved(i) == \E r \in resolutions : r.incident = i
OpenIncidents == {i \in incidents : ~Resolved(i)}

\* What resolve asks of each journal item.
Recovers(j, i, resolvedAt) ==
  LET rule == POLICY[i.reason] IN
  /\ j.source.type \in rule.recovery
  /\ ItemVerifies(j)
  /\ j.observed > i.detected /\ j.observed <= resolvedAt
  /\ Generic(i.trigger) => Generic(j.source)
  /\ j.source.type = "GENERIC_TELEMETRY" /\ rule.codes # {} => RowOf(j.source).code \in rule.codes

Resolution(i, items, resolvedAt) ==
  [incident |-> i, evidence |-> {j.source : j \in items}, at |-> resolvedAt, created |-> clock]

\* resolve; a second resolution of an incident is refused.
Resolve(i, items, resolvedAt) ==
  /\ i \in acknowledged /\ ~Resolved(i) /\ resolvedAt > i.detected
  /\ items # {} /\ \A j \in items : Recovers(j, i, resolvedAt)
  /\ resolutions' = resolutions \cup {Resolution(i, items, resolvedAt)}
  /\ UNCHANGED <<clock, terminalVars, lifecycle, forward, journal, incidents, acknowledged, learning, reports, req, faults, instance>>

IncidentVerifies(i) ==
  /\ i.trigger \in Indexed
  /\ \A r \in resolutions : r.incident = i => i \in acknowledged /\ r.evidence \subseteq Indexed
-----------------------------------------------------------------------------
(* Controlled learning *)

\* _evidence; every item and incident here is of the one strategy.
EvidenceHolds(items, is) ==
  /\ \A j \in items : ItemVerifies(j)
  /\ \A i \in is : Resolved(i) /\ i.trigger \in {j.source : j \in items} /\ IncidentVerifies(i)
  /\ OpenIncidents = {}

Proposal(items, is) == [items |-> items, incidents |-> is]

Propose(items, is) ==
  /\ items # {} /\ EvidenceHolds(items, is)
  /\ proposals' = proposals \cup {Proposal(items, is)}
  /\ UNCHANGED <<clock, terminalVars, lifecycle, forward, journal, recovery, confirmations, drafts, reports, req, faults, instance>>

ProposalVerifies(p) ==
  (\A j \in p.items : ItemVerifies(j)) /\ (\A i \in p.incidents : IncidentVerifies(i))

Confirmed(p) == \E c \in confirmations : c.proposal = p

Confirmation(r) == [proposal |-> r.proposal, read |-> r.read]

\* Slip: only the proposal itself is verified again.
ConfirmReadTrusting(w, p) ==
  /\ ~Confirmed(p) /\ ProposalVerifies(p)
  /\ Begin(w, [op |-> "CONFIRM", proposal |-> p, read |-> clock])
  /\ UNCHANGED <<clock, terminalVars, lifecycle, forward, journal, recovery, learning, reports, faults, instance>>

ConfirmRead(w, p) ==
  /\ ~Confirmed(p) /\ ProposalVerifies(p) /\ OpenIncidents = {}
  /\ Begin(w, [op |-> "CONFIRM", proposal |-> p, read |-> clock])
  /\ UNCHANGED <<clock, terminalVars, lifecycle, forward, journal, recovery, learning, reports, faults, instance>>

\* Draft and confirmation in one transaction; the loser's draft is rolled back.
ConfirmCommit(w) ==
  /\ Respond(w, "CONFIRM")
  /\ IF Confirmed(req[w].proposal) THEN UNCHANGED <<drafts, confirmations>>
     ELSE /\ drafts' = drafts + 1
          /\ confirmations' = confirmations \cup {Confirmation(req[w])}
  /\ UNCHANGED <<clock, terminalVars, lifecycle, forward, journal, recovery, proposals, reports, faults, instance>>
-----------------------------------------------------------------------------
(* Readiness and acceptance *)

\* A READY chain report is exact only for the instant its row was evaluated at.
ChainExact(t) ==
  /\ chains # {} /\ evidence # {}
  /\ Newest(chains).sources = ChainSources(t) /\ Newest(chains).result = ChainResult(t)

\* The gates of assess; capability, broker, compiler parity hold here.
Gates(t) ==
  LET chain == evidence # {}
      codes == {e.code : e \in events}
      types == {s.type : s \in Indexed}
      required == MANDATORY_JOURNAL_TYPES \cup (IF events = {} THEN {} ELSE Telemetry)
  IN [lifecycle |-> ~retired,
      acknowledgement |-> chain /\ ChainResult(t).acknowledgement,
      heartbeat |-> chain /\ ChainResult(t).heartbeat,
      forward |-> chain /\ ChainResult(t).forward /\ Newest(evidence).status = "READY",
      incidents |-> {i \in OpenIncidents : BlocksReadiness(i.reason)} = {},
      controls |-> RECOVERY_CODES \subseteq codes /\ chain /\ ChainResult(t).control,
      journal |-> required \subseteq types /\ (\A j \in journal : ItemVerifies(j)) /\ ChainExact(t)]

\* READY, evidence insufficient and nothing else, or not ready.
Readiness(gates) ==
  LET failing == {g \in DOMAIN gates : ~gates[g]} IN
  CASE failing = {} -> "READY"
    [] failing = {"forward"} /\ Newest(evidence).status # "RISK_REVIEW" -> "INSUFFICIENT"
    [] OTHER -> "NOT_READY"

LatestId(rows) == IF rows = {} THEN 0 ELSE Newest(rows).id

\* Slip: of the incidents only what the gate says is kept.
AssessmentWithoutIncidents(t) ==
  [at |-> t, gates |-> Gates(t), status |-> Readiness(Gates(t)), publication |-> publication.status,
   evidence |-> LatestId(evidence), chain |-> LatestId(chains),
   events |-> events, journal |-> Indexed, incidents |-> {}]

\* The whole result: gates, what they observed and the inputs by fingerprint,
\* resolved incidents included.
Assessment(t) ==
  [at |-> t, gates |-> Gates(t), status |-> Readiness(Gates(t)), publication |-> publication.status,
   evidence |-> LatestId(evidence), chain |-> LatestId(chains),
   events |-> events, journal |-> Indexed, incidents |-> {i \in incidents : BlocksReadiness(i.reason)}]

\* evaluated_at is the caller's, past instants included.
Assess(t) ==
  /\ Cardinality(assessments) < max.assessments /\ Assessment(t).status \in max.statuses
  /\ assessments' = assessments \cup {Assessment(t)}
  /\ UNCHANGED <<clock, terminalVars, lifecycle, forward, journal, recovery, learning, acceptances, req, faults, instance>>

AssessmentVerifies(a) == Assessment(a.at) = a

\* assess of sprint21_acceptance: everything stored recomputes exactly.
Acceptance ==
  LET intact == /\ \A j \in journal : ItemVerifies(j)
                /\ \A i \in incidents : IncidentVerifies(i)
                /\ \A p \in proposals : ProposalVerifies(p)
                /\ \A a \in assessments : AssessmentVerifies(a)
                /\ chains # {} => \A check \in DOMAIN ChainResult(clock) \ {"at"} : ChainResult(clock)[check]
      ready == \E a \in assessments : a.status = "READY" /\ \A b \in assessments : b.at <= a.at
  IN [passed |-> intact, ready |-> intact /\ ready, journal |-> journal, incidents |-> incidents,
      proposals |-> proposals, assessments |-> assessments]

Accept ==
  /\ Cardinality(acceptances) < max.acceptances /\ Cardinality(assessments) = max.assessments
  /\ acceptances' = acceptances \cup {Acceptance}
  /\ UNCHANGED <<clock, terminalVars, lifecycle, forward, journal, recovery, learning, assessments, req, faults, instance>>
-----------------------------------------------------------------------------
\* The requests, as the endpoints group them, and what happens outside of them.
PublicationRequests == PollAcknowledgement \/ OwnerBlocks \/ ReconcileLifecycle
TelemetrySync(w) == SyncRead(w) \/ SyncCommit(w)
ForwardRequests == FreezeEvidence \/ VerifyChain
JournalRequests == \E source \in {x \in Sources : x.type \in max.indexed} : Index(source)
IncidentRequests(w) ==
  \/ \E reason \in max.reasons, t \in 0 .. clock, j \in {k \in journal : k.source.type \in max.triggers} :
       \E fact \in Signals(reason) : RecordIncident(w, reason, fact, j, t)
  \/ IncidentCommit(w)
RecoveryRequests ==
  \/ \E i \in incidents : AcknowledgeIncident(i)
  \/ \E i \in acknowledged, items \in SUBSET journal, t \in 0 .. clock : Resolve(i, items, t)
LearningRequests ==
  /\ Cardinality(proposals) < max.proposals
  /\ \E items \in SUBSET journal, is \in SUBSET incidents : Propose(items, is)
Confirmations(w) == (\E p \in proposals : ConfirmRead(w, p)) \/ ConfirmCommit(w)
ReadinessRequests == \E t \in 0 .. clock : Assess(t)
Terminal == LoseCounter \/ \E code \in max.codes : Emit(code)

Next ==
  \/ Tick \/ Terminal \/ Retire \/ PublicationRequests \/ ForwardRequests \/ JournalRequests
  \/ RecoveryRequests \/ LearningRequests \/ ReadinessRequests \/ Accept
  \/ \E w \in Workers : Crash(w) \/ TelemetrySync(w) \/ IncidentRequests(w) \/ Confirmations(w)

Spec == Init /\ [][Next]_vars
-----------------------------------------------------------------------------
(* Properties *)

Controls == [reason : BlockReasons, by : {"OWNER", "LIFECYCLE", "INCIDENT"}, at : Nat]
Publications == [status : {"WAITING", "ACTIVE", "BLOCKED"}, ack : BOOLEAN, control : Controls \cup {None}]

\* None is not an entry control.
ASSUME NoneAssumption == None \notin Controls

TypeOK ==
  /\ instance \in DOMAIN Bounds
  /\ clock \in 0 .. max.clock /\ counter \in 0 .. Len(file)
  /\ file \in Seq(Rows) /\ Len(file) <= max.rows
  /\ publication \in Publications
  /\ publication.status = "BLOCKED" <=> publication.control # None
  /\ \A e \in events : e.observed \in 0 .. clock /\ Payload(e) \in Rng(file)
  /\ \A j, k \in journal : j.source = k.source => j = k
  /\ acknowledged \subseteq incidents /\ \A r \in resolutions : r.incident \in acknowledged
  /\ \A c \in confirmations : c.proposal \in proposals
  /\ DOMAIN req = Workers
  /\ \A w \in Workers : req[w].op \in {"IDLE", "SYNC", "INCIDENT", "CONFIRM"}

\* Whatever the terminal repeats or contradicts, the stored events are the
\* first rows of its file, in full (generic_forward_telemetry.py:173-203).
EventsArePrefix ==
  \E n \in 0 .. Len(file) : {Payload(e) : e \in events} = {file[k] : k \in 1 .. n}

\* Telemetry, evidence, chain and lifecycle items verify for good: no later
\* block, retirement or row disturbs what they were computed from.  Items of
\* the publication do not, since its row changes.
EvidenceItemsStayVerified ==
  \A j \in journal : j.source.type # "GENERIC_PUBLICATION" => ItemVerifies(j)

\* A block that an incident installed has its incident, on record or about to
\* be, unless the request died in between (governance_incidents.py:177-201).
BlockHasIncident ==
  publication.control # None /\ publication.control.by = "INCIDENT" /\ "CRASH" \notin faults =>
    \/ \E i \in incidents : i.reason = publication.control.reason
    \/ \E w \in Workers : req[w].op = "INCIDENT" /\ req[w].row.reason = publication.control.reason

\* An incident whose block stands is recovered only by telemetry that the
\* service had read before the block: the block ends the ingestion.
RecoveryPredatesBlock ==
  \A r \in resolutions, e \in events :
    publication.control # None /\ Source("GENERIC_TELEMETRY", e.seq) \in r.evidence
      => e.read <= publication.control.at

\* No draft is made while an incident on record when its confirmation was
\* checked is unresolved (controlled_learning.py:131-140, 286-287).
NoDraftOverAnOpenIncident ==
  \A c \in confirmations, i \in incidents :
    i.created < c.read => \E r \in resolutions : r.incident = i /\ r.created <= c.read

\* Each confirmation has one draft, also when two confirm at once.
OneDraftPerConfirmation == drafts = Cardinality(confirmations)

\* An assessment that said READY and no longer verifies never verifies again,
\* nor does an acceptance built on it: an incident that was opened and recovered
\* since leaves READY stale, although every gate is open again.
StaleAssessmentsStay ==
  \A a \in assessments : a.status = "READY" /\ ~AssessmentVerifies(a) => ~AssessmentVerifies(a)'
StaleAcceptancesStay ==
  \A a \in acceptances : a.ready /\ a # Acceptance => a # Acceptance'
ReadyStaysStale == [][StaleAssessmentsStay /\ StaleAcceptancesStay]_vars

-----------------------------------------------------------------------------
(* The inductive invariant.  Nothing is read from the terminal before it was   *)
(* acknowledged or after a block, and an acknowledgement is never taken back;  *)
(* so what evidence items were computed from stays as it was.                  *)

Payloads == {Payload(e) : e \in events}
Beginning(n) == {file[k] : k \in 1 .. n}

\* Read before any block.
ReadInTime(read) ==
  read \in 0 .. clock /\ (publication.control # None => read <= publication.control.at)

\* What a sync has read continues the stored events, unless another sync has
\* stored a row of it meanwhile.
Superseded(r) == \E x \in r.rows, e \in events : x.seq = e.seq
SyncSound(r) ==
  /\ r.rows # {} /\ r.rows \subseteq Rng(file) /\ ReadInTime(r.read)
  /\ \A x, y \in r.rows : x.seq = y.seq => x = y
  /\ Superseded(r) \/ \E n \in 0 .. Len(file) : Payloads \cup r.rows = Beginning(n)

TelemetrySound ==
  /\ \A e, f \in events : e.seq = f.seq => e = f
  /\ \A e \in events : ReadInTime(e.read)
  /\ \A w \in Workers : req[w].op = "SYNC" => SyncSound(req[w])
  /\ publication.ack \/ (events = {} /\ evidence = {} /\ \A w \in Workers : req[w].op # "SYNC")
  /\ publication.control # None => publication.control.at <= clock

\* Rows are numbered in the order of their insertion.
Numbered(rows) ==
  /\ IsFiniteSet(rows) /\ \A r \in rows : r.id \in 1 .. Cardinality(rows)
  /\ \A r, q \in rows : r.id = q.id => r = q
RowsSound ==
  /\ Numbered(evidence) /\ Numbered(chains) /\ (chains # {} => evidence # {})
  /\ \A j \in journal : j.source \in Sources
  /\ IsFiniteSet(confirmations)

\* Every incident older than a confirmation's check was resolved when it was made.
Settled(read) ==
  /\ read \in 0 .. clock
  /\ \A i \in incidents : i.created < read => \E r \in resolutions : r.incident = i /\ r.created <= read
LearningSound ==
  /\ \A r \in resolutions : r.created \in 0 .. clock
  /\ \A c \in confirmations : Settled(c.read)
  /\ \A w \in Workers : req[w].op = "CONFIRM" => req[w].proposal \in proposals /\ Settled(req[w].read)

\* What telemetry, journal and proposals keep of one another under concurrent
\* requests: the stored events are the file's beginning, evidence items verify
\* for good, recovery rests on rows read before the block, and two Owners who
\* confirm one proposal get one draft.
GovernanceInv ==
  /\ TypeOK
  /\ EventsArePrefix /\ EvidenceItemsStayVerified
  /\ RecoveryPredatesBlock /\ OneDraftPerConfirmation
  /\ TelemetrySound /\ RowsSound /\ LearningSound
==============================================================================
