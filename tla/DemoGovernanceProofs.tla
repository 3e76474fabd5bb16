------------------------- MODULE DemoGovernanceProofs -------------------------
(***************************************************************************)
(* What telemetry, evidence, journal, incidents and proposals keep of one  *)
(* another, for any number of concurrent requests, any bounds and any file *)
(* a terminal may have written.                                            *)
(***************************************************************************)
EXTENDS DemoGovernance, FiniteSetTheorems, FunctionTheorems, TLAPS

-----------------------------------------------------------------------------
(* What each table can be changed by *)

\* The insert of a request: what a record incident leaves in the request.
Records(w) ==
  \E reason \in max.reasons, t \in 0 .. clock, j \in journal : \E fact \in Signals(reason) : RecordIncident(w, reason, fact, j, t)
Checks(w) == \E p \in proposals : ConfirmRead(w, p)

RequestSteps(w) ==
  req'[w] = req[w] \/ req'[w] = Idle \/ SyncRead(w) \/ Records(w) \/ Checks(w)

\* Every table has its writers.
Writers ==
  /\ instance' = instance
  /\ Tick \/ clock' = clock
  /\ Tick \/ LoseCounter \/ (\E code \in max.codes : Emit(code)) \/ UNCHANGED <<clock, file, counter>>
  /\ PollAcknowledgement \/ OwnerBlocks \/ ReconcileLifecycle \/ (\E w \in Workers : Records(w)) \/ publication' = publication
  /\ (\E w \in Workers : SyncCommit(w)) \/ events' = events
  /\ FreezeEvidence \/ evidence' = evidence
  /\ VerifyChain \/ chains' = chains
  /\ (\E s \in Sources : Index(s)) \/ journal' = journal
  /\ (\E w \in Workers : IncidentCommit(w)) \/ incidents' = incidents
  /\ (\E i \in incidents : AcknowledgeIncident(i)) \/ acknowledged' = acknowledged
  /\ (\E i \in acknowledged, items \in SUBSET journal, t \in 0 .. clock : Resolve(i, items, t)) \/ resolutions' = resolutions
  /\ (\E items \in SUBSET journal, is \in SUBSET incidents : Propose(items, is)) \/ proposals' = proposals
  /\ (\E w \in Workers : ConfirmCommit(w)) \/ UNCHANGED <<drafts, confirmations>>
  /\ DOMAIN req' = DOMAIN req
  /\ \A w \in Workers : RequestSteps(w)

LEMMA WritersOf ==
  ASSUME TypeOK, Next
  PROVE  Writers
<1>0. DOMAIN req = Workers  BY DEF TypeOK
<1>1. CASE Tick
  BY <1>1 DEF Writers, RequestSteps, Tick, terminalVars, lifecycle, forward, recovery, learning, reports
<1>2. CASE \E code \in max.codes : Emit(code)
  BY <1>2 DEF Writers, RequestSteps, Emit, terminalVars, lifecycle, forward, recovery, learning, reports
<1>3. CASE LoseCounter
  BY <1>3 DEF Writers, RequestSteps, LoseCounter, terminalVars, lifecycle, forward, recovery, learning, reports
<1>4. CASE Retire
  BY <1>4 DEF Writers, RequestSteps, Retire, terminalVars, lifecycle, forward, recovery, learning, reports
<1>5. CASE PollAcknowledgement
  BY <1>5 DEF Writers, RequestSteps, PollAcknowledgement, terminalVars, lifecycle, forward, recovery, learning, reports
<1>6. CASE OwnerBlocks
  BY <1>6 DEF Writers, RequestSteps, OwnerBlocks, terminalVars, lifecycle, forward, recovery, learning, reports
<1>7. CASE ReconcileLifecycle
  BY <1>7 DEF Writers, RequestSteps, ReconcileLifecycle, terminalVars, lifecycle, forward, recovery, learning, reports
<1>8. CASE FreezeEvidence
  BY <1>8 DEF Writers, RequestSteps, FreezeEvidence, terminalVars, lifecycle, forward, recovery, learning, reports
<1>9. CASE VerifyChain
  BY <1>9 DEF Writers, RequestSteps, VerifyChain, terminalVars, lifecycle, forward, recovery, learning, reports
<1>10. CASE \E s \in Sources : Index(s)
  BY <1>10 DEF Writers, RequestSteps, Index, terminalVars, lifecycle, forward, recovery, learning, reports
<1>11. CASE \E i \in incidents : AcknowledgeIncident(i)
  BY <1>11 DEF Writers, RequestSteps, AcknowledgeIncident, terminalVars, lifecycle, forward, recovery, learning, reports
<1>12. CASE \E i \in acknowledged, items \in SUBSET journal, t \in 0 .. clock : Resolve(i, items, t)
  BY <1>12 DEF Writers, RequestSteps, Resolve, terminalVars, lifecycle, forward, recovery, learning, reports
<1>13. CASE \E items \in SUBSET journal, is \in SUBSET incidents : Propose(items, is)
  BY <1>13 DEF Writers, RequestSteps, Propose, terminalVars, lifecycle, forward, recovery, learning, reports
<1>14. CASE \E t \in 0 .. clock : Assess(t)
  BY <1>14 DEF Writers, RequestSteps, Assess, terminalVars, lifecycle, forward, recovery, learning, reports
<1>15. CASE Accept
  BY <1>15 DEF Writers, RequestSteps, Accept, terminalVars, lifecycle, forward, recovery, learning, reports
<1>16. CASE \E w \in Workers : Crash(w)
  <2>1. PICK w \in Workers : Crash(w)  BY <1>16
  <2>2. DOMAIN req' = DOMAIN req /\ \A v \in Workers : req'[v] \in {req[v], Idle}
    BY <1>0, <2>1 DEF Crash
  <2> QED  BY <2>1, <2>2 DEF Writers, RequestSteps, Crash, terminalVars, lifecycle, forward, recovery, learning, reports
<1>17. CASE \E w \in Workers : SyncRead(w)
  <2>1. PICK w \in Workers : SyncRead(w)  BY <1>17
  <2>2. \A v \in Workers : v # w => req'[v] = req[v]
    BY <1>0, <2>1 DEF SyncRead, Begin
  <2>3. UNCHANGED <<clock, terminalVars, publication, forward, journal, recovery, learning, instance>> /\ DOMAIN req' = DOMAIN req
    BY <1>0, <2>1 DEF SyncRead, Begin, lifecycle
  <2> QED  BY <2>1, <2>2, <2>3 DEF Writers, RequestSteps, terminalVars, forward, recovery, learning
<1>18. CASE \E w \in Workers : SyncCommit(w)
  <2>1. PICK w \in Workers : SyncCommit(w)  BY <1>18
  <2>2. DOMAIN req' = DOMAIN req /\ \A v \in Workers : req'[v] \in {req[v], Idle}
    BY <1>0, <2>1 DEF SyncCommit, Respond
  <2> QED  BY <2>1, <2>2 DEF Writers, RequestSteps, SyncCommit, terminalVars, lifecycle, forward, recovery, learning, reports
<1>19. CASE \E w \in Workers : Records(w)
  <2>1. PICK w \in Workers : Records(w)  BY <1>19
  <2>2. \A v \in Workers : v # w => req'[v] = req[v]
    BY <1>0, <2>1 DEF Records, RecordIncident, IncidentBegins, Begin
  <2>3. UNCHANGED <<clock, terminalVars, forward, journal, recovery, learning, instance>> /\ DOMAIN req' = DOMAIN req
    BY <1>0, <2>1 DEF Records, RecordIncident, IncidentBegins, Begin
  <2> QED  BY <2>1, <2>2, <2>3 DEF Writers, RequestSteps, terminalVars, forward, recovery, learning
<1>20. CASE \E w \in Workers : IncidentCommit(w)
  <2>1. PICK w \in Workers : IncidentCommit(w)  BY <1>20
  <2>2. DOMAIN req' = DOMAIN req /\ \A v \in Workers : req'[v] \in {req[v], Idle}
    BY <1>0, <2>1 DEF IncidentCommit, Respond
  <2> QED  BY <2>1, <2>2 DEF Writers, RequestSteps, IncidentCommit, terminalVars, lifecycle, forward, recovery, learning, reports
<1>21. CASE \E w \in Workers : Checks(w)
  <2>1. PICK w \in Workers : Checks(w)  BY <1>21
  <2>2. \A v \in Workers : v # w => req'[v] = req[v]
    BY <1>0, <2>1 DEF Checks, ConfirmRead, Begin
  <2>3. UNCHANGED <<clock, terminalVars, publication, forward, journal, recovery, learning, instance>> /\ DOMAIN req' = DOMAIN req
    BY <1>0, <2>1 DEF Checks, ConfirmRead, Begin, lifecycle
  <2> QED  BY <2>1, <2>2, <2>3 DEF Writers, RequestSteps, terminalVars, forward, recovery, learning
<1>22. CASE \E w \in Workers : ConfirmCommit(w)
  <2>1. PICK w \in Workers : ConfirmCommit(w)  BY <1>22
  <2>2. DOMAIN req' = DOMAIN req /\ \A v \in Workers : req'[v] \in {req[v], Idle}
    BY <1>0, <2>1 DEF ConfirmCommit, Respond
  <2> QED  BY <2>1, <2>2 DEF Writers, RequestSteps, ConfirmCommit, terminalVars, lifecycle, forward, recovery, learning, reports
<1> QED
  BY <1>1, <1>2, <1>3, <1>4, <1>5, <1>6, <1>7, <1>8, <1>9, <1>10, <1>11, <1>12, <1>13, <1>14, <1>15, <1>16, <1>17, <1>18, <1>19, <1>20, <1>21, <1>22 DEF Next, Terminal, PublicationRequests, ForwardRequests,
     JournalRequests, RecoveryRequests, LearningRequests, ReadinessRequests, TelemetrySync, IncidentRequests, Confirmations, Records, Checks
-----------------------------------------------------------------------------
(* The terminal, the clock and the publication *)

Terminated ==
  /\ instance \in DOMAIN Bounds
  /\ clock \in 0 .. max.clock /\ counter \in 0 .. Len(file)
  /\ file \in Seq(Rows) /\ Len(file) <= max.rows

\* The file only grows at its end.
Grows ==
  /\ clock <= clock' /\ clock' \in Nat /\ Len(file) <= Len(file')
  /\ Rng(file) \subseteq Rng(file')
  /\ \A n \in 0 .. Len(file) : Beginning(n)' = Beginning(n)

LEMMA TerminalTyped ==
  ASSUME TypeOK
  PROVE  /\ Terminated /\ max.clock \in Nat /\ max.rows \in Nat /\ max.codes \subseteq STRING /\ max.reasons \subseteq BlockReasons
         /\ clock \in Nat /\ Len(file) \in Nat /\ Rng(file) \subseteq Rows
         /\ DOMAIN file = 1 .. Len(file)
<1>1. Terminated  BY DEF TypeOK, Terminated
<1>2. max.clock \in Nat /\ max.rows \in Nat /\ max.codes \subseteq STRING /\ max.reasons \subseteq BlockReasons
  BY <1>1, GovernanceAssumption, ReasonsAssumption DEF Terminated, max, BlockReasons
<1>3. clock \in Nat  BY <1>1, <1>2 DEF Terminated
<1>4. Len(file) \in Nat /\ DOMAIN file = 1 .. Len(file) /\ Rng(file) \subseteq Rows
  BY <1>1 DEF Terminated, Rng
<1> QED  BY <1>1, <1>2, <1>3, <1>4

LEMMA TerminalSteps ==
  ASSUME TypeOK, Writers
  PROVE  Terminated' /\ Grows
<1>1. instance' = instance /\ max' = max  BY DEF Writers, max
<1>2. /\ Terminated /\ max.clock \in Nat /\ max.rows \in Nat /\ max.codes \subseteq STRING
      /\ clock \in Nat /\ Len(file) \in Nat /\ DOMAIN file = 1 .. Len(file)
  BY TerminalTyped
<1>3. clock' \in 0 .. max.clock /\ clock <= clock'
  <2>1. clock' = clock \/ (clock' = clock + 1 /\ clock < max.clock)  BY DEF Writers, Tick
  <2> QED  BY <2>1, <1>2 DEF Terminated
<1>4. CASE UNCHANGED file
  <2>1. counter' \in 0 .. Len(file)
    <3>1. counter' = counter \/ (counter > 0 /\ counter' = counter - 1) \/ \E code \in max.codes : Emit(code)
      BY DEF Writers, LoseCounter, Tick, terminalVars
    <3>2. ASSUME NEW code \in max.codes, Emit(code) PROVE FALSE
      <4>1. file' = Append(file, [seq |-> counter + 1, code |-> code, time |-> clock])  BY <3>2 DEF Emit
      <4> QED  BY <4>1, <1>2, <1>4 DEF Terminated
    <3> QED  BY <3>1, <3>2, <1>2 DEF Terminated
  <2>2. Beginning(0)' = Beginning(0) /\ Rng(file)' = Rng(file) /\ \A n \in 0 .. Len(file) : Beginning(n)' = Beginning(n)
    BY <1>4 DEF Beginning, Rng
  <2> QED  BY <2>1, <2>2, <1>1, <1>2, <1>3, <1>4 DEF Terminated, Grows
<1>5. ASSUME NEW code \in max.codes, Emit(code)
      PROVE  Terminated' /\ Grows
  <2>1. PICK s : s = counter + 1  OBVIOUS
  <2>2. s \in Nat /\ code \in STRING  BY <2>1, <1>2, <1>5 DEF Terminated
  <2>3. PICK r : r = [seq |-> s, code |-> code, time |-> clock]  OBVIOUS
  <2>4. r \in Rows  BY <2>2, <2>3, <1>2 DEF Rows
  <2>5. file' = Append(file, r) /\ counter' = s /\ Len(file) < max.rows  BY <1>5, <2>1, <2>3 DEF Emit
  <2>6. file' \in Seq(Rows) /\ Len(file') = Len(file) + 1 /\ \A k \in 1 .. Len(file) : file'[k] = file[k]
    BY <2>4, <2>5, <1>2 DEF Terminated
  <2>7. Rng(file) \subseteq Rng(file')  BY <2>6, <1>2 DEF Rng
  <2>8. ASSUME NEW n \in 0 .. Len(file) PROVE Beginning(n)' = Beginning(n)
    BY <2>6, <1>2 DEF Beginning
  <2>9. counter' \in 0 .. Len(file') /\ Len(file') <= max.rows
    BY <2>1, <2>5, <2>6, <1>2 DEF Terminated
  <2> QED  BY <2>6, <2>7, <2>8, <2>9, <1>1, <1>2, <1>3 DEF Terminated, Grows
<1>6. UNCHANGED file \/ \E code \in max.codes : Emit(code)  BY DEF Writers, Tick, LoseCounter, terminalVars
<1> QED  BY <1>4, <1>5, <1>6

\* What the publication is at any time, and what a step does to it: an
\* acknowledgement is never taken back and a block is final.
PublicationSound ==
  /\ publication \in Publications
  /\ publication.status = "BLOCKED" <=> publication.control # None
  /\ publication.control # None => publication.control.at <= clock
Lasts ==
  /\ publication.ack => publication'.ack
  /\ publication.control # None => publication' = publication
  /\ publication.control = None /\ publication'.control # None => publication'.control.at = clock

LEMMA BlockSound ==
  ASSUME TypeOK, PublicationSound, publication.status # "BLOCKED",
         NEW reason \in BlockReasons, NEW by \in {"OWNER", "LIFECYCLE", "INCIDENT"}, publication' = Blocked(reason, by),
         clock' = clock
  PROVE  PublicationSound' /\ Lasts
<1>1. clock \in Nat  BY TerminalTyped
<1>2. PICK a : a = publication.ack  OBVIOUS
<1>3. PICK k : k = [reason |-> reason, by |-> by, at |-> clock]  OBVIOUS
<1>4. k \in Controls /\ k.at = clock  BY <1>1, <1>3 DEF Controls
<1>5. k # None  BY <1>4, NoneAssumption
<1>6. a \in BOOLEAN  BY <1>2 DEF PublicationSound, Publications
<1>7. publication' = [status |-> "BLOCKED", ack |-> a, control |-> k]  BY <1>2, <1>3 DEF Blocked
<1>8. publication' \in Publications  BY <1>4, <1>6, <1>7 DEF Publications
<1> QED  BY <1>1, <1>2, <1>4, <1>5, <1>7, <1>8 DEF PublicationSound, Lasts

LEMMA PublicationSteps ==
  ASSUME TypeOK, PublicationSound, Writers
  PROVE  PublicationSound' /\ Lasts
<1>1. clock \in Nat /\ max.reasons \subseteq BlockReasons  BY TerminalTyped
<1>2. clock <= clock' /\ clock' \in Nat  BY TerminalSteps DEF Grows
<1>3. CASE publication' = publication
  <2>1. publication.control # None => publication.control.at \in Nat
    BY DEF PublicationSound, Publications, Controls
  <2> QED  BY <2>1, <1>1, <1>2, <1>3 DEF PublicationSound, Lasts
<1>4. CASE PollAcknowledgement
  <2>1. PICK k : k = publication.control  OBVIOUS
  <2>2. publication' = [status |-> "ACTIVE", ack |-> TRUE, control |-> k] /\ publication.status = "WAITING"
    BY <1>4, <2>1 DEF PollAcknowledgement
  <2>3. k = None  BY <2>1, <2>2 DEF PublicationSound
  <2> QED  BY <2>1, <2>2, <2>3 DEF PublicationSound, Lasts, Publications
<1>5. CASE OwnerBlocks
  <2>1. clock' = clock /\ publication.status # "BLOCKED" /\ publication' = Blocked("OWNER", "OWNER")
    BY <1>5 DEF OwnerBlocks
  <2>2. "OWNER" \in BlockReasons  BY DEF BlockReasons
  <2> QED  BY <2>1, <2>2, BlockSound
<1>6. CASE ReconcileLifecycle
  <2>1. clock' = clock /\ publication.status # "BLOCKED" /\ publication' = Blocked("LIFECYCLE_INVALID_OR_RETIRED", "LIFECYCLE")
    BY <1>6 DEF ReconcileLifecycle
  <2>2. "LIFECYCLE_INVALID_OR_RETIRED" \in BlockReasons  BY DEF BlockReasons
  <2> QED  BY <2>1, <2>2, BlockSound
<1>7. ASSUME NEW w \in Workers, Records(w) PROVE PublicationSound' /\ Lasts
  <2>1. PICK reason \in max.reasons, t \in 0 .. clock, j \in journal :
          \E fact \in Signals(reason) : RecordIncident(w, reason, fact, j, t)
    BY <1>7 DEF Records
  <2>2. PICK fact \in Signals(reason) : IncidentBegins(w, reason, fact, j, t)  BY <2>1 DEF RecordIncident
  <2>3. clock' = clock  BY <2>2 DEF IncidentBegins
  <2>4. publication' = publication \/ (publication.status # "BLOCKED" /\ publication' = Blocked(reason, "INCIDENT"))
    BY <2>2 DEF IncidentBegins
  <2> QED  BY <2>3, <2>4, <1>1, <1>3, BlockSound
<1> QED  BY <1>3, <1>4, <1>5, <1>6, <1>7 DEF Writers

LEMMA ReadSteps ==
  ASSUME TypeOK, PublicationSound, Writers, NEW read, ReadInTime(read)
  PROVE  ReadInTime(read)'
<1>1. clock \in Nat /\ clock <= clock' /\ clock' \in Nat  BY TerminalTyped, TerminalSteps DEF Grows
<1>2. Lasts  BY PublicationSteps
<1> QED  BY <1>1, <1>2 DEF Lasts, ReadInTime
-----------------------------------------------------------------------------
(* Telemetry *)

EventsSound == \A e \in events : e.observed \in 0 .. clock /\ Payload(e) \in Rng(file)

\* A row of the file is the payload of the event made of it.
LEMMA EventOfRow ==
  ASSUME NEW r \in Rows, NEW read
  PROVE  /\ Payload(Event(r, read)) = r /\ Event(r, read).seq = r.seq
         /\ Event(r, read).read = read /\ Event(r, read).observed = clock
BY DEF Rows, Payload, Event

LEMMA PayloadOfEvent ==
  ASSUME NEW e
  PROVE  Payload(e).seq = e.seq /\ Payload(e).code = e.code /\ Payload(e).time = e.time
BY DEF Payload

\* What a sync finds missing completes the events to the whole file.
LEMMA SyncReadSound ==
  ASSUME TypeOK, PublicationSound, NEW w \in Workers, SyncRead(w), NEW q, req'[w] = q
  PROVE  SyncSound(q)' /\ Acknowledged /\ q.op = "SYNC"
<1>1. PICK rows : rows = {r \in Rng(file) : \A e \in events : e.seq # r.seq}  OBVIOUS
<1>2. q = [op |-> "SYNC", rows |-> rows, read |-> clock]
  <2>1. DOMAIN req = Workers  BY DEF TypeOK
  <2> QED  BY <1>1, <2>1 DEF SyncRead, Begin
<1>4. Acknowledged /\ ~Conflicting  BY DEF SyncRead
<1>6. UNCHANGED <<clock, file, counter, publication, events>>
  BY DEF SyncRead, terminalVars, lifecycle, forward
<1>7. rows # {}  BY <1>2 DEF SyncRead
<1>8. ReadInTime(clock)
  <2>1. publication.control = None  BY <1>4 DEF Acknowledged, PublicationSound
  <2> QED  BY <2>1, TerminalTyped DEF ReadInTime
<1>9. \A x, y \in rows : x.seq = y.seq => x = y  BY <1>1, <1>4 DEF Conflicting
<1>10. Payloads \cup rows = Beginning(Len(file))
  <2>1. Beginning(Len(file)) = Rng(file)  BY TerminalTyped DEF Beginning, Rng
  <2>2. Payloads \subseteq Rng(file)  BY DEF TypeOK, Payloads
  <2>3. ASSUME NEW r \in Rng(file), r \notin rows PROVE r \in Payloads
    <3>1. PICK e \in events : e.seq = r.seq  BY <1>1, <2>3
    <3>2. r = Payload(e)  BY <1>4, <3>1 DEF Conflicting
    <3> QED  BY <3>2 DEF Payloads
  <2> QED  BY <1>1, <2>1, <2>2, <2>3
<1>11. /\ ReadInTime(q.read)' /\ \E n \in 0 .. Len(file) : (Payloads \cup q.rows = Beginning(n))'
  <2>1. Len(file) \in 0 .. Len(file)  BY TerminalTyped
  <2> QED  BY <2>1, <1>2, <1>6, <1>8, <1>10 DEF ReadInTime, Payloads, Beginning
<1>12. q.rows # {} /\ q.rows \subseteq Rng(file)' /\ \A x, y \in q.rows : x.seq = y.seq => x = y
  BY <1>1, <1>2, <1>6, <1>7, <1>9 DEF Rng
<1>13. SyncSound(q)'  BY <1>6, <1>11, <1>12 DEF SyncSound
<1> QED  BY <1>2, <1>4, <1>13

\* The insert of a sync, when no other sync was quicker.
Inserts(w) == events' = events \cup {Event(r, req[w].read) : r \in req[w].rows}

LEMMA SyncCommitEvents ==
  ASSUME TypeOK, TelemetrySound, NEW w \in Workers, SyncCommit(w)
  PROVE  /\ events' = events \/ (Inserts(w) /\ ~Superseded(req[w]))
         /\ SyncSound(req[w]) /\ UNCHANGED <<clock, file, publication>>
<1>1. SyncSound(req[w])  BY DEF SyncCommit, Respond, TelemetrySound
<1>2. UNCHANGED <<clock, file, publication>>  BY DEF SyncCommit, terminalVars, lifecycle
<1>3. CASE \E r \in req[w].rows, e \in events : e.seq = r.seq
  BY <1>1, <1>2, <1>3 DEF SyncCommit
<1>4. CASE ~\E r \in req[w].rows, e \in events : e.seq = r.seq
  BY <1>1, <1>2, <1>4 DEF SyncCommit, Inserts, Superseded
<1> QED  BY <1>3, <1>4

LEMMA InsertedEvents ==
  ASSUME TypeOK, NEW w \in Workers, SyncSound(req[w]), Inserts(w), ~Superseded(req[w]),
         \A e, f \in events : e.seq = f.seq => e = f, UNCHANGED <<clock, file, publication>>
  PROVE  /\ Payloads' = Payloads \cup req[w].rows
         /\ \A e, f \in events' : e.seq = f.seq => e = f
         /\ \A e \in events' : e \in events \/ (e.read = req[w].read /\ e.observed = clock /\ Payload(e) \in Rng(file))
<1>1. PICK q : q = req[w]  OBVIOUS
<1>2. /\ q.rows \subseteq Rows /\ q.rows \subseteq Rng(file)
      /\ \A x, y \in q.rows : x.seq = y.seq => x = y
      /\ \A x \in q.rows, e \in events : x.seq # e.seq
  BY <1>1, TerminalTyped DEF SyncSound, Superseded
<1>3. PICK read : read = q.read  OBVIOUS
<1>4. events' = events \cup {Event(r, read) : r \in q.rows}  BY <1>1, <1>3 DEF Inserts
<1>5. \A r \in q.rows : /\ Payload(Event(r, read)) = r /\ Event(r, read).seq = r.seq
                        /\ Event(r, read).read = read /\ Event(r, read).observed = clock
  BY <1>2, EventOfRow
<1>6. Payloads' = Payloads \cup q.rows
  <2>1. Payloads' = {Payload(e) : e \in events'}  BY DEF Payloads
  <2> QED  BY <2>1, <1>4, <1>5 DEF Payloads
<1>7. \A e \in events' : e \in events \/ \E r \in q.rows : e = Event(r, read)  BY <1>4
<1>8. \A e, f \in events' : e.seq = f.seq => e = f  BY <1>2, <1>5, <1>7
<1>9. \A e \in events' : e \in events \/ (e.read = read /\ e.observed = clock /\ Payload(e) \in Rng(file))
  BY <1>2, <1>5, <1>7
<1> QED  BY <1>1, <1>3, <1>6, <1>8, <1>9

LEMMA SyncKept ==
  ASSUME TypeOK, PublicationSound, Writers, events' = events, NEW q, SyncSound(q)
  PROVE  SyncSound(q)'
<1>1. Grows  BY TerminalSteps
<1>2. Payloads' = Payloads /\ (Superseded(q) => Superseded(q)')  BY DEF Payloads, Superseded
<1>3. ReadInTime(q.read)'  BY ReadSteps DEF SyncSound
<1>4. ASSUME NEW n \in 0 .. Len(file), Payloads \cup q.rows = Beginning(n)
      PROVE  n \in 0 .. Len(file') /\ (Payloads \cup q.rows = Beginning(n))'
  <2>1. n \in 0 .. Len(file')
    <3>1. file' \in Seq(Rows)  BY TerminalSteps DEF Terminated
    <3> QED  BY <3>1, <1>1, TerminalTyped DEF Grows
  <2> QED  BY <2>1, <1>1, <1>2, <1>4 DEF Grows
<1>5. q.rows \subseteq Rng(file)'  BY <1>1 DEF SyncSound, Grows
<1> QED  BY <1>2, <1>3, <1>4, <1>5 DEF SyncSound

\* Of two syncs at work at once, the one that commits supersedes the other.
LEMMA SyncOvertaken ==
  ASSUME TypeOK, NEW v \in Workers, SyncSound(req[v]), ~Superseded(req[v]), Payloads' = Payloads \cup req[v].rows,
         events \subseteq events', UNCHANGED <<clock, file, publication>>, NEW q, SyncSound(q)
  PROVE  SyncSound(q)'
<1>1. PICK p : p = req[v]  OBVIOUS
<1>2. Superseded(q)'
  <2>1. CASE Superseded(q)  BY <2>1 DEF Superseded
  <2>2. CASE ~Superseded(q)
    <3>1. PICK n \in 0 .. Len(file) : Payloads \cup q.rows = Beginning(n)  BY <2>2 DEF SyncSound
    <3>2. PICK m \in 0 .. Len(file) : Payloads \cup p.rows = Beginning(m)  BY <1>1 DEF SyncSound
    <3>3. \E x \in q.rows : x \in Payloads \cup p.rows
      <4>1. CASE n <= m
        <5>1. Beginning(n) \subseteq Beginning(m)  BY <4>1, TerminalTyped DEF Beginning
        <5> QED  BY <5>1, <3>1, <3>2 DEF SyncSound
      <4>2. CASE m < n
        <5>1. Beginning(m) \subseteq Beginning(n)  BY <4>2, TerminalTyped DEF Beginning
        <5>2. PICK y \in p.rows : y \notin Payloads
          <6>1. PICK y \in p.rows : TRUE  BY <1>1 DEF SyncSound
          <6>2. y \notin Payloads  BY <1>1, <6>1, PayloadOfEvent DEF Payloads, Superseded
          <6> QED  BY <6>2
        <5> QED  BY <5>1, <5>2, <3>1, <3>2
      <4> QED  BY <4>1, <4>2, TerminalTyped
    <3>4. PICK x \in q.rows : x \in Payloads'  BY <3>3, <1>1
    <3>5. PICK e \in events' : x = Payload(e)  BY <3>4 DEF Payloads
    <3> QED  BY <3>5, PayloadOfEvent DEF Superseded
  <2> QED  BY <2>1, <2>2
<1>3. ReadInTime(q.read)' /\ q.rows \subseteq Rng(file)'  BY DEF SyncSound, ReadInTime, Rng
<1> QED  BY <1>2, <1>3 DEF SyncSound

\* A request that a step leaves, ends or begins.
LEMMA OtherRequests ==
  ASSUME NEW w \in Workers, DOMAIN req = Workers
  PROVE  /\ Idle.op = "IDLE"
         /\ Records(w) => req'[w].op = "INCIDENT"
         /\ Checks(w) => req'[w].op = "CONFIRM"
<1>1. Records(w) => req'[w].op = "INCIDENT"  BY DEF Records, RecordIncident, IncidentBegins, Begin
<1>2. Checks(w) => req'[w].op = "CONFIRM"  BY DEF Checks, ConfirmRead, Begin
<1> QED  BY <1>1, <1>2 DEF Idle

TelemetryInv == TypeOK /\ EventsArePrefix /\ TelemetrySound

LEMMA PublicationFromTelemetry ==
  ASSUME TypeOK, TelemetrySound
  PROVE  PublicationSound
BY DEF TypeOK, TelemetrySound, PublicationSound

\* What a step leaves of the events and the syncs that go on.
EventsKept ==
  /\ EventsSound' /\ EventsArePrefix' /\ events \subseteq events'
  /\ (\A e, f \in events : e.seq = f.seq => e = f)'
  /\ (\A e \in events : ReadInTime(e.read))'
  /\ \A q : SyncSound(q) => SyncSound(q)'

LEMMA EventSteps ==
  ASSUME TelemetryInv, Writers
  PROVE  EventsKept
<1>0. TypeOK /\ EventsArePrefix /\ TelemetrySound /\ PublicationSound
  BY PublicationFromTelemetry DEF TelemetryInv
<1>1. Grows /\ Terminated' /\ clock \in Nat /\ Len(file) \in Nat  BY <1>0, TerminalSteps, TerminalTyped
<1>2. EventsSound  BY <1>0 DEF TypeOK, EventsSound
<1>3. CASE events' = events
  <2>1. EventsSound'  BY <1>1, <1>2, <1>3 DEF EventsSound, Grows
  <2>2. EventsArePrefix'
    <3>1. PICK n \in 0 .. Len(file) : Payloads = Beginning(n)  BY <1>0 DEF EventsArePrefix, Payloads, Beginning
    <3>2. n \in 0 .. Len(file')  BY <1>1 DEF Grows, Terminated
    <3>3. (Payloads = Beginning(n))'  BY <3>1, <1>1, <1>3 DEF Grows, Payloads
    <3> QED  BY <3>2, <3>3 DEF EventsArePrefix, Payloads, Beginning
  <2>3. (\A e \in events : ReadInTime(e.read))'
    <3>1. \A e \in events : ReadInTime(e.read)  BY <1>0 DEF TelemetrySound
    <3>2. ASSUME NEW e \in events PROVE ReadInTime(e.read)'  BY <3>1, <1>0, ReadSteps
    <3> QED  BY <3>2, <1>3
  <2>4. (\A e, f \in events : e.seq = f.seq => e = f)'  BY <1>0, <1>3 DEF TelemetrySound
  <2>5. \A q : SyncSound(q) => SyncSound(q)'  BY <1>0, <1>3, SyncKept
  <2> QED  BY <2>1, <2>2, <2>3, <2>4, <2>5, <1>3 DEF EventsKept
<1>4. ASSUME NEW v \in Workers, Inserts(v), SyncSound(req[v]), ~Superseded(req[v]), UNCHANGED <<clock, file, publication>>
      PROVE  EventsKept
  <2>1. /\ Payloads' = Payloads \cup req[v].rows
        /\ \A e, f \in events' : e.seq = f.seq => e = f
        /\ \A e \in events' : e \in events \/ (e.read = req[v].read /\ e.observed = clock /\ Payload(e) \in Rng(file))
    <3>1. \A e, f \in events : e.seq = f.seq => e = f  BY <1>0 DEF TelemetrySound
    <3> QED  BY <3>1, <1>0, <1>4, InsertedEvents
  <2>2. EventsSound'
    <3>1. clock' = clock /\ Rng(file)' = Rng(file)  BY <1>4 DEF Rng
    <3>2. ASSUME NEW e \in events' PROVE e.observed \in 0 .. clock /\ Payload(e) \in Rng(file)
      BY <2>1, <1>1, <1>2, <3>2 DEF EventsSound
    <3> QED  BY <3>1, <3>2 DEF EventsSound
  <2>3. EventsArePrefix'
    <3>1. PICK n \in 0 .. Len(file) : Payloads \cup req[v].rows = Beginning(n)  BY <1>4 DEF SyncSound
    <3>2. Payloads' = Beginning(n)' /\ n \in 0 .. Len(file')  BY <3>1, <2>1, <1>4 DEF Beginning
    <3> QED  BY <3>2 DEF EventsArePrefix, Payloads, Beginning
  <2>4. (\A e \in events : ReadInTime(e.read))'
    <3>1. \A e \in events' : ReadInTime(e.read)  BY <2>1, <1>0, <1>4 DEF TelemetrySound, SyncSound
    <3> QED  BY <3>1, <1>4 DEF ReadInTime
  <2>5. events \subseteq events'  BY <1>4 DEF Inserts
  <2>6. \A q : SyncSound(q) => SyncSound(q)'  BY <2>1, <2>5, <1>0, <1>4, SyncOvertaken
  <2> QED  BY <2>1, <2>2, <2>3, <2>4, <2>5, <2>6 DEF EventsKept
<1>5. ASSUME NEW v \in Workers, SyncCommit(v)
      PROVE  EventsKept
  BY <1>0, <1>3, <1>4, <1>5, SyncCommitEvents
<1> QED  BY <1>3, <1>5 DEF Writers

LEMMA TelemetrySteps ==
  ASSUME TelemetryInv, Writers
  PROVE  EventsKept /\ TelemetrySound' /\ PublicationSound' /\ Lasts
<1>0. TypeOK /\ EventsArePrefix /\ TelemetrySound /\ PublicationSound
  BY PublicationFromTelemetry DEF TelemetryInv
<1>1. EventsKept  BY EventSteps
<1>2. PublicationSound' /\ Lasts  BY <1>0, PublicationSteps
<1>3. DOMAIN req = Workers  BY <1>0 DEF TypeOK
<1>4. ASSUME NEW w \in Workers, NEW q, req'[w] = q, q.op = "SYNC"
      PROVE  SyncSound(q)' /\ publication.ack
  <2>1. RequestSteps(w)  BY DEF Writers
  <2>2. CASE req'[w] = req[w]
    <3>1. SyncSound(q) /\ publication.ack  BY <2>2, <1>0, <1>4 DEF TelemetrySound
    <3> QED  BY <3>1, <1>1 DEF EventsKept
  <2>3. CASE SyncRead(w)
    BY <2>3, <1>0, <1>4, SyncReadSound DEF Acknowledged
  <2> QED  BY <2>1, <2>2, <2>3, <1>3, <1>4, OtherRequests DEF RequestSteps
<1>5. (\A w \in Workers : req[w].op = "SYNC" => SyncSound(req[w]))'
  <2>1. ASSUME NEW w \in Workers, req'[w].op = "SYNC" PROVE SyncSound(req[w])'
    <3>1. PICK q : q = req'[w]  OBVIOUS
    <3>2. SyncSound(q)'  BY <3>1, <2>1, <1>4
    <3> QED  BY <3>1, <3>2 DEF SyncSound, Superseded
  <2> QED  BY <2>1
<1>6. (publication.ack \/ (events = {} /\ evidence = {} /\ \A w \in Workers : req[w].op # "SYNC"))'
  <2>1. SUFFICES ASSUME ~publication.ack
        PROVE  events' = {} /\ evidence' = {} /\ \A w \in Workers : req'[w].op # "SYNC"
    BY <1>2 DEF Lasts
  <2>2. events = {} /\ evidence = {} /\ \A w \in Workers : req[w].op # "SYNC"  BY <2>1, <1>0 DEF TelemetrySound
  <2>3. events' = {}
    <3>1. \A w \in Workers : ~SyncCommit(w)  BY <2>2 DEF SyncCommit, Respond
    <3> QED  BY <3>1, <2>2 DEF Writers
  <2>4. evidence' = {}  BY <2>1, <2>2 DEF Writers, FreezeEvidence, Acknowledged
  <2> QED  BY <2>1, <2>3, <2>4, <1>4
<1>7. (publication.control # None => publication.control.at <= clock)'  BY <1>2 DEF PublicationSound
<1> QED  BY <1>1, <1>2, <1>5, <1>6, <1>7 DEF EventsKept, TelemetrySound
-----------------------------------------------------------------------------
(* Rows, sources and journal *)

\* Rows are numbered as they are inserted, and only inserted.
LEMMA NumberedGrows ==
  ASSUME NEW rows, Numbered(rows), NEW new, new.id = Cardinality(rows) + 1
  PROVE  Numbered(rows \cup {new})
<1>1. IsFiniteSet(rows) /\ Cardinality(rows) \in Nat  BY FS_CardinalityType DEF Numbered
<1>2. new \notin rows  BY <1>1 DEF Numbered
<1>3. IsFiniteSet(rows \cup {new}) /\ Cardinality(rows \cup {new}) = Cardinality(rows) + 1
  BY <1>1, <1>2, FS_AddElement
<1>4. ASSUME NEW r \in rows \cup {new} PROVE r.id \in 1 .. (Cardinality(rows) + 1)
  BY <1>1, <1>4 DEF Numbered
<1>5. ASSUME NEW r \in rows \cup {new}, NEW q \in rows \cup {new}, r.id = q.id PROVE r = q
  BY <1>1, <1>5 DEF Numbered
<1> QED  BY <1>3, <1>4, <1>5 DEF Numbered

Tables ==
  /\ events \subseteq events' /\ evidence \subseteq evidence' /\ chains \subseteq chains'
  /\ Numbered(evidence)' /\ Numbered(chains)' /\ (chains # {} => evidence # {})'

LEMMA TableSteps ==
  ASSUME RowsSound, EventsKept, Writers
  PROVE  Tables
<1>1. evidence \subseteq evidence' /\ Numbered(evidence')
  <2>1. CASE evidence' = evidence  BY <2>1 DEF RowsSound
  <2>2. CASE FreezeEvidence
    <3>1. evidence' = evidence \cup {Evidence}  BY <2>2 DEF FreezeEvidence
    <3>2. Evidence.id = Cardinality(evidence) + 1  BY DEF Evidence
    <3> QED  BY <3>1, <3>2, NumberedGrows DEF RowsSound
  <2> QED  BY <2>1, <2>2 DEF Writers
<1>2. chains \subseteq chains' /\ Numbered(chains') /\ (chains' = chains \/ evidence # {})
  <2>1. CASE chains' = chains  BY <2>1 DEF RowsSound
  <2>2. CASE VerifyChain
    <3>1. chains' = chains \cup {Chain} /\ evidence # {}  BY <2>2 DEF VerifyChain
    <3>2. Chain.id = Cardinality(chains) + 1  BY DEF Chain
    <3> QED  BY <3>1, <3>2, NumberedGrows DEF RowsSound
  <2> QED  BY <2>1, <2>2 DEF Writers
<1>3. Numbered(evidence)' /\ Numbered(chains)'  BY <1>1, <1>2 DEF Numbered
<1>4. (chains # {} => evidence # {})'  BY <1>1, <1>2 DEF RowsSound
<1> QED  BY <1>1, <1>2, <1>3, <1>4 DEF EventsKept, Tables

LEMMA SourcesGrow ==
  ASSUME Tables
  PROVE  Sources \subseteq Sources'
<1>1. {Source("GENERIC_TELEMETRY", e.seq) : e \in events} \subseteq {Source("GENERIC_TELEMETRY", e.seq) : e \in events'}
  BY DEF Tables
<1>2. {Source("GENERIC_FORWARD_EVIDENCE", e.id) : e \in evidence} \subseteq {Source("GENERIC_FORWARD_EVIDENCE", e.id) : e \in evidence'}
  BY DEF Tables
<1>3. {Source("GENERIC_CHAIN_VERIFICATION", e.id) : e \in chains} \subseteq {Source("GENERIC_CHAIN_VERIFICATION", e.id) : e \in chains'}
  BY DEF Tables
<1> QED  BY <1>1, <1>2, <1>3 DEF Sources, Source

\* A source that is not the publication names one row, and that row is of an
\* acknowledged publication unless it is the lifecycle's.
Named(s, row) ==
  \/ s.type = "LIFECYCLE_VERIFICATION" /\ row = [created |-> 0]
  \/ s.type = "GENERIC_TELEMETRY" /\ row \in events /\ row.seq = s.id
  \/ s.type = "GENERIC_FORWARD_EVIDENCE" /\ row \in evidence /\ row.id = s.id
  \/ s.type = "GENERIC_CHAIN_VERIFICATION" /\ row \in chains /\ row.id = s.id

RowsUnique ==
  /\ \A e, f \in events : e.seq = f.seq => e = f
  /\ Numbered(evidence) /\ Numbered(chains) /\ (chains # {} => evidence # {})
  /\ publication.ack \/ (events = {} /\ evidence = {})

LEMMA SourceNamed ==
  ASSUME NEW s \in Sources, s.type # "GENERIC_PUBLICATION"
  PROVE  \E row : Named(s, row)
<1>1. CASE s = Source("LIFECYCLE_VERIFICATION", 0)  BY <1>1 DEF Source, Named
<1>2. ASSUME NEW e \in events, s = Source("GENERIC_TELEMETRY", e.seq) PROVE Named(s, e)  BY <1>2 DEF Source, Named
<1>3. ASSUME NEW e \in evidence, s = Source("GENERIC_FORWARD_EVIDENCE", e.id) PROVE Named(s, e)  BY <1>3 DEF Source, Named
<1>4. ASSUME NEW e \in chains, s = Source("GENERIC_CHAIN_VERIFICATION", e.id) PROVE Named(s, e)  BY <1>4 DEF Source, Named
<1>5. s # Source("GENERIC_PUBLICATION", 0)  BY DEF Source
<1> QED  BY <1>1, <1>2, <1>3, <1>4, <1>5 DEF Sources

LEMMA NamedRow ==
  ASSUME RowsUnique, NEW s, NEW row, Named(s, row)
  PROVE  /\ RowOf(s) = row /\ LineageHolds(s)
         /\ Origin(s) = IF Generic(s) THEN "REAL_OWNER" ELSE "UNKNOWN"
<1>1. CASE s.type = "LIFECYCLE_VERIFICATION"
  BY <1>1 DEF Named, RowOf, LineageHolds, Origin, Generic
<1>2. CASE s.type = "GENERIC_TELEMETRY" /\ row \in events /\ row.seq = s.id
  <2>1. (CHOOSE e \in events : e.seq = s.id) = row  BY <1>2 DEF RowsUnique
  <2>2. publication.ack  BY <1>2 DEF RowsUnique
  <2> QED  BY <1>2, <2>1, <2>2 DEF RowOf, LineageHolds, Origin, Generic, HasAcknowledgement
<1>3. CASE s.type = "GENERIC_FORWARD_EVIDENCE" /\ row \in evidence /\ row.id = s.id
  <2>1. (CHOOSE e \in evidence : e.id = s.id) = row  BY <1>3 DEF RowsUnique, Numbered
  <2>2. publication.ack  BY <1>3 DEF RowsUnique
  <2> QED  BY <1>3, <2>1, <2>2 DEF RowOf, LineageHolds, Origin, Generic, HasAcknowledgement
<1>4. CASE s.type = "GENERIC_CHAIN_VERIFICATION" /\ row \in chains /\ row.id = s.id
  <2>1. (CHOOSE e \in chains : e.id = s.id) = row  BY <1>4 DEF RowsUnique, Numbered
  <2>2. publication.ack  BY <1>4 DEF RowsUnique
  <2> QED  BY <1>4, <2>1, <2>2 DEF RowOf, LineageHolds, Origin, Generic, HasAcknowledgement
<1> QED  BY <1>1, <1>2, <1>3, <1>4 DEF Named

\* What an evidence item was computed from stays what it was.
LEMMA SourceStable ==
  ASSUME RowsUnique, RowsUnique', Tables, NEW s \in Sources, s.type # "GENERIC_PUBLICATION"
  PROVE  LineageHolds(s) /\ LineageHolds(s)' /\ Snapshot(s)' = Snapshot(s)
<1>1. PICK row : Named(s, row)  BY SourceNamed
<1>2. Named(s, row)'  BY <1>1 DEF Named, Tables
<1>3. RowOf(s) = row /\ LineageHolds(s) /\ Origin(s) = IF Generic(s) THEN "REAL_OWNER" ELSE "UNKNOWN"
  BY <1>1, NamedRow
<1>4. RowOf(s)' = row /\ LineageHolds(s)' /\ Origin(s)' = IF Generic(s) THEN "REAL_OWNER" ELSE "UNKNOWN"
  <2>1. Generic(s)' = Generic(s)  BY DEF Generic
  <2>2. (RowOf(s) = row /\ LineageHolds(s) /\ Origin(s) = IF Generic(s) THEN "REAL_OWNER" ELSE "UNKNOWN")'
    BY <1>2, NamedRow, PTL
  <2> QED  BY <2>1, <2>2
<1> QED  BY <1>3, <1>4 DEF Snapshot

LEMMA RowsAreUnique ==
  ASSUME TelemetrySound, Numbered(evidence), Numbered(chains), chains # {} => evidence # {}
  PROVE  RowsUnique
BY DEF TelemetrySound, RowsUnique

Journaled ==
  /\ \A j, k \in journal : j.source = k.source => j = k
  /\ \A j \in journal : j.source \in Sources
  /\ EvidenceItemsStayVerified

LEMMA JournalSteps ==
  ASSUME Journaled, RowsUnique, RowsUnique', Tables, Writers
  PROVE  Journaled'
<1>1. Sources \subseteq Sources'  BY SourcesGrow
<1>2. ASSUME NEW s \in Sources, s.type # "GENERIC_PUBLICATION"
      PROVE  LineageHolds(s) /\ LineageHolds(s)' /\ Snapshot(s)' = Snapshot(s)
  BY <1>2, SourceStable
<1>3. ASSUME NEW j \in journal, j.source.type # "GENERIC_PUBLICATION"
      PROVE  ItemVerifies(j)'
  <2>1. j.source \in Sources /\ Snapshot(j.source) = j.snapshot
    BY <1>3 DEF Journaled, EvidenceItemsStayVerified, ItemVerifies
  <2>2. PICK s : s = j.source  OBVIOUS
  <2>3. LineageHolds(s)' /\ Snapshot(s)' = j.snapshot  BY <2>1, <2>2, <1>2, <1>3
  <2> QED  BY <2>2, <2>3 DEF ItemVerifies
<1>4. CASE journal' = journal
  BY <1>1, <1>3, <1>4 DEF Journaled, EvidenceItemsStayVerified
<1>5. ASSUME NEW s \in Sources, Index(s)
      PROVE  Journaled'
  <2>1. PICK k : k = Item(s)  OBVIOUS
  <2>2. k.source = s /\ k.snapshot = Snapshot(s)  BY <2>1 DEF Item
  <2>3. journal' = journal \cup {k} /\ \A j \in journal : j.source # s  BY <1>5, <2>1 DEF Index, Indexed
  <2>4. s.type # "GENERIC_PUBLICATION" => ItemVerifies(k)'
    <3>1. s.type # "GENERIC_PUBLICATION" => LineageHolds(s)' /\ Snapshot(s)' = k.snapshot  BY <1>2, <2>2
    <3> QED  BY <3>1, <2>2 DEF ItemVerifies
  <2>5. (\A j, l \in journal : j.source = l.source => j = l)'  BY <2>2, <2>3 DEF Journaled
  <2>6. (\A j \in journal : j.source \in Sources)'  BY <1>1, <2>2, <2>3 DEF Journaled
  <2>7. EvidenceItemsStayVerified'
    <3>1. ASSUME NEW j \in journal', j.source.type # "GENERIC_PUBLICATION" PROVE ItemVerifies(j)'
      BY <3>1, <1>3, <2>2, <2>3, <2>4
    <3> QED  BY <3>1 DEF EvidenceItemsStayVerified
  <2> QED  BY <2>5, <2>6, <2>7 DEF Journaled
<1> QED  BY <1>4, <1>5 DEF Writers
-----------------------------------------------------------------------------
(* Incidents, proposals and confirmations *)

Recovered ==
  /\ acknowledged \subseteq incidents
  /\ \A r \in resolutions : r.incident \in acknowledged /\ r.created \in 0 .. clock
RecoveryGrows == resolutions \subseteq resolutions' /\ proposals \subseteq proposals'

LEMMA RecoverySteps ==
  ASSUME TypeOK, Recovered, Writers
  PROVE  Recovered' /\ RecoveryGrows
<1>0. clock \in Nat /\ clock' \in Nat /\ clock <= clock'  BY TerminalTyped, TerminalSteps DEF Grows
<1>1. incidents \subseteq incidents'
  <2>1. ASSUME NEW w \in Workers, IncidentCommit(w) PROVE incidents \subseteq incidents'  BY <2>1 DEF IncidentCommit
  <2> QED  BY <2>1 DEF Writers
<1>2. acknowledged \subseteq acknowledged' /\ acknowledged' \subseteq incidents
  BY DEF Writers, AcknowledgeIncident, Recovered
<1>3. \A r \in resolutions' : r.incident \in acknowledged /\ r.created \in 0 .. clock
  <2>1. CASE resolutions' = resolutions  BY <2>1 DEF Recovered
  <2>2. ASSUME NEW i \in acknowledged, NEW items \in SUBSET journal, NEW t \in 0 .. clock, Resolve(i, items, t)
        PROVE  \A r \in resolutions' : r.incident \in acknowledged /\ r.created \in 0 .. clock
    <3>1. resolutions' = resolutions \cup {Resolution(i, items, t)}  BY <2>2 DEF Resolve
    <3>2. Resolution(i, items, t).incident = i /\ Resolution(i, items, t).created = clock  BY DEF Resolution
    <3> QED  BY <3>1, <3>2, <1>0 DEF Recovered
  <2> QED  BY <2>1, <2>2 DEF Writers
<1>4. RecoveryGrows
  BY DEF Writers, Resolve, Propose, RecoveryGrows
<1>5. Recovered'  BY <1>0, <1>1, <1>2, <1>3 DEF Recovered
<1> QED  BY <1>4, <1>5

\* A check once settled stays so: an incident recorded later is not older.
LEMMA SettledSteps ==
  ASSUME TypeOK, Recovered, Writers, NEW read, Settled(read)
  PROVE  Settled(read)'
<1>0. clock \in Nat /\ clock' \in Nat /\ clock <= clock'  BY TerminalTyped, TerminalSteps DEF Grows
<1>1. resolutions \subseteq resolutions'  BY RecoverySteps DEF RecoveryGrows
<1>2. read \in 0 .. clock'  BY <1>0 DEF Settled
<1>3. ASSUME NEW i \in incidents', i.created < read PROVE i \in incidents
  <2>1. CASE incidents' = incidents  BY <2>1
  <2>2. ASSUME NEW w \in Workers, IncidentCommit(w), i \notin incidents PROVE FALSE
    <3>1. i = Incident(req[w].row)  BY <2>2 DEF IncidentCommit
    <3>2. i.created = clock  BY <3>1 DEF Incident
    <3> QED  BY <3>2, <1>0, <1>3 DEF Settled
  <2> QED  BY <2>1, <2>2 DEF Writers
<1>4. ASSUME NEW i \in incidents', i.created < read
      PROVE  \E r \in resolutions' : r.incident = i /\ r.created <= read
  <2>1. i \in incidents  BY <1>3, <1>4
  <2> QED  BY <2>1, <1>1, <1>4 DEF Settled
<1> QED  BY <1>2, <1>4 DEF Settled

Learned ==
  /\ Recovered /\ IsFiniteSet(confirmations) /\ OneDraftPerConfirmation
  /\ \A c \in confirmations : c.proposal \in proposals /\ Settled(c.read)
  /\ \A w \in Workers : req[w].op = "CONFIRM" => req[w].proposal \in proposals /\ Settled(req[w].read)

LEMMA LearningSteps ==
  ASSUME TypeOK, Learned, Writers
  PROVE  Learned'
<1>0. clock \in Nat /\ clock' \in Nat /\ clock <= clock' /\ Recovered /\ DOMAIN req = Workers
  BY TerminalTyped, TerminalSteps DEF Grows, Learned, TypeOK
<1>1. Recovered' /\ RecoveryGrows  BY <1>0, RecoverySteps
<1>2. ASSUME NEW read, Settled(read) PROVE Settled(read)'  BY <1>0, <1>2, SettledSteps
<1>3. ASSUME UNCHANGED <<drafts, confirmations>>
      PROVE  /\ IsFiniteSet(confirmations)' /\ OneDraftPerConfirmation'
             /\ (\A c \in confirmations : c.proposal \in proposals /\ Settled(c.read))'
  <2>1. (\A c \in confirmations : c.proposal \in proposals /\ Settled(c.read))'
    <3>1. ASSUME NEW c \in confirmations PROVE c.proposal \in proposals' /\ Settled(c.read)'
      BY <1>1, <1>2 DEF Learned, RecoveryGrows
    <3> QED  BY <3>1, <1>3
  <2>2. IsFiniteSet(confirmations') /\ drafts' = Cardinality(confirmations')  BY <1>3 DEF Learned, OneDraftPerConfirmation
  <2> QED  BY <2>1, <2>2 DEF OneDraftPerConfirmation
<1>4. ASSUME NEW w \in Workers, ConfirmCommit(w)
      PROVE  /\ IsFiniteSet(confirmations)' /\ OneDraftPerConfirmation'
             /\ (\A c \in confirmations : c.proposal \in proposals /\ Settled(c.read))'
  <2>1. CASE Confirmed(req[w].proposal)  BY <1>3, <1>4, <2>1 DEF ConfirmCommit, Learned
  <2>2. CASE ~Confirmed(req[w].proposal)
    <3>1. PICK q : q = req[w]  OBVIOUS
    <3>2. PICK c : c = Confirmation(q)  OBVIOUS
    <3>3. c.proposal = q.proposal /\ c.read = q.read  BY <3>2 DEF Confirmation
    <3>4. drafts' = drafts + 1 /\ confirmations' = confirmations \cup {c} /\ q.op = "CONFIRM"
      BY <1>4, <2>2, <3>1, <3>2 DEF ConfirmCommit, Respond
    <3>5. c \notin confirmations  BY <2>2, <3>1, <3>3 DEF Confirmed
    <3>6. /\ IsFiniteSet(confirmations \cup {c})
          /\ Cardinality(confirmations \cup {c}) = Cardinality(confirmations) + 1
      BY <3>5, FS_AddElement DEF Learned
    <3>7. q.proposal \in proposals /\ Settled(q.read)  BY <3>1, <3>4 DEF Learned
    <3>8. ASSUME NEW d \in confirmations' PROVE d.proposal \in proposals' /\ Settled(d.read)'
      <4>1. d.proposal \in proposals /\ Settled(d.read)  BY <3>3, <3>4, <3>7 DEF Learned
      <4> QED  BY <4>1, <1>1, <1>2 DEF RecoveryGrows
    <3>9. IsFiniteSet(confirmations)' /\ OneDraftPerConfirmation'
      BY <3>4, <3>6 DEF Learned, OneDraftPerConfirmation
    <3> QED  BY <3>8, <3>9
  <2> QED  BY <2>1, <2>2
<1>5. ASSUME NEW w \in Workers, NEW q, req'[w] = q, q.op = "CONFIRM"
      PROVE  q.proposal \in proposals' /\ Settled(q.read)'
  <2>1. CASE req'[w] = req[w]
    <3>1. q.proposal \in proposals /\ Settled(q.read)  BY <2>1, <1>5 DEF Learned
    <3> QED  BY <3>1, <1>1, <1>2 DEF RecoveryGrows
  <2>2. CASE Checks(w)
    <3>1. PICK p \in proposals : ConfirmRead(w, p)  BY <2>2 DEF Checks
    <3>2. q = [op |-> "CONFIRM", proposal |-> p, read |-> clock] /\ OpenIncidents = {}
      BY <3>1, <1>0, <1>5 DEF ConfirmRead, Begin
    <3>3. Settled(clock)
      <4>1. ASSUME NEW i \in incidents PROVE \E r \in resolutions : r.incident = i /\ r.created <= clock
        <5>1. Resolved(i)  BY <3>2 DEF OpenIncidents
        <5> QED  BY <5>1, <1>0 DEF Resolved, Recovered
      <4> QED  BY <4>1, <1>0 DEF Settled
    <3>4. PICK read : read = clock  OBVIOUS
    <3>5. Settled(read)' /\ q.read = read /\ q.proposal = p  BY <3>2, <3>3, <3>4, <1>2
    <3> QED  BY <3>5, <1>1 DEF RecoveryGrows
  <2>3. req'[w] # Idle /\ ~SyncRead(w) /\ ~Records(w)
    <3>1. SyncRead(w) => req'[w].op = "SYNC"  BY <1>0 DEF SyncRead, Begin
    <3> QED  BY <3>1, <1>0, <1>5, OtherRequests
  <2> QED  BY <2>1, <2>2, <2>3 DEF Writers, RequestSteps
<1>6. (\A w \in Workers : req[w].op = "CONFIRM" => req[w].proposal \in proposals /\ Settled(req[w].read))'
  <2>1. ASSUME NEW w \in Workers, req'[w].op = "CONFIRM"
        PROVE  req'[w].proposal \in proposals' /\ Settled(req[w].read)'
    <3>1. PICK q : q = req'[w]  OBVIOUS
    <3>2. q.proposal \in proposals' /\ Settled(q.read)'  BY <3>1, <2>1, <1>5
    <3> QED  BY <3>1, <3>2 DEF Settled
  <2> QED  BY <2>1
<1>7. /\ IsFiniteSet(confirmations)' /\ OneDraftPerConfirmation'
      /\ (\A c \in confirmations : c.proposal \in proposals /\ Settled(c.read))'
  BY <1>3, <1>4 DEF Writers, Learned
<1> QED  BY <1>1, <1>6, <1>7 DEF Learned
-----------------------------------------------------------------------------
(* The invariants *)

LEMMA InvInit ==
  ASSUME Init
  PROVE  GovernanceInv
<1>1. max.clock \in Nat /\ max.file \in Seq(Rows) /\ Len(max.file) <= max.rows
  BY GovernanceAssumption DEF Init, max
<1>2. Len(file) \in Nat  BY <1>1 DEF Init
<1>3. Payloads = {} /\ Beginning(0) = {}  BY DEF Init, Payloads, Beginning
<1>4. IsFiniteSet({}) /\ Cardinality({}) = 0  BY FS_EmptySet
<1>5. publication \in Publications /\ publication.status = "WAITING" /\ publication.control = None
  BY DEF Init, Publications
<1>6. \A w \in Workers : req[w].op = "IDLE"  BY DEF Init, Idle
<1>7. TypeOK  BY <1>1, <1>2, <1>5, <1>6 DEF Init, TypeOK
<1>8. EventsArePrefix  BY <1>2, <1>3 DEF EventsArePrefix, Payloads, Beginning
<1>9. EvidenceItemsStayVerified /\ RecoveryPredatesBlock /\ OneDraftPerConfirmation
  BY <1>4 DEF Init, EvidenceItemsStayVerified, RecoveryPredatesBlock, OneDraftPerConfirmation
<1>10. TelemetrySound  BY <1>5, <1>6 DEF Init, TelemetrySound
<1>11. RowsSound /\ LearningSound  BY <1>4, <1>6 DEF Init, RowsSound, Numbered, LearningSound
<1> QED  BY <1>7, <1>8, <1>9, <1>10, <1>11 DEF GovernanceInv

LEMMA InvStep ==
  ASSUME GovernanceInv, Writers
  PROVE  GovernanceInv'
<1>0. TypeOK /\ TelemetryInv /\ RowsSound  BY DEF GovernanceInv, TelemetryInv
<1>1. EventsKept /\ TelemetrySound' /\ PublicationSound' /\ Lasts  BY <1>0, TelemetrySteps
<1>2. Tables  BY <1>0, <1>1, TableSteps
<1>3. RowsUnique /\ RowsUnique'
  <2>1. RowsUnique  BY RowsAreUnique DEF GovernanceInv, RowsSound
  <2>2. RowsUnique'  BY <1>1, <1>2 DEF TelemetrySound, Tables, RowsUnique
  <2> QED  BY <2>1, <2>2
<1>4. Journaled'
  <2>1. Journaled  BY DEF GovernanceInv, TypeOK, RowsSound, Journaled
  <2> QED  BY <2>1, <1>2, <1>3, JournalSteps
<1>5. Learned'
  <2>1. Learned  BY DEF GovernanceInv, TypeOK, RowsSound, LearningSound, Learned, Recovered
  <2> QED  BY <2>1, <1>0, LearningSteps
<1>6. Terminated'  BY <1>0, TerminalSteps
<1>7. \A w \in Workers : req'[w].op \in {"IDLE", "SYNC", "INCIDENT", "CONFIRM"}
  <2>1. ASSUME NEW w \in Workers PROVE req'[w].op \in {"IDLE", "SYNC", "INCIDENT", "CONFIRM"}
    <3>1. DOMAIN req = Workers /\ req[w].op \in {"IDLE", "SYNC", "INCIDENT", "CONFIRM"}  BY <1>0 DEF TypeOK
    <3>2. SyncRead(w) => req'[w].op = "SYNC"  BY <3>1 DEF SyncRead, Begin
    <3>3. RequestSteps(w)  BY DEF Writers
    <3> QED  BY <3>1, <3>2, <3>3, OtherRequests DEF RequestSteps
  <2> QED  BY <2>1
<1>8. TypeOK'
  <2>1. DOMAIN req' = Workers  BY <1>0 DEF Writers, TypeOK
  <2> QED  BY <2>1, <1>1, <1>4, <1>5, <1>6, <1>7
    DEF TypeOK, Terminated, PublicationSound, Journaled, Learned, Recovered, EventsKept, EventsSound
<1>9. RecoveryPredatesBlock'
  <2>1. ASSUME NEW r \in resolutions', NEW e \in events', NEW f \in events',
               publication'.control # None, Source("GENERIC_TELEMETRY", e.seq) \in r.evidence
        PROVE  e.read <= publication'.control.at
    BY <2>1, <1>1 DEF TelemetrySound, ReadInTime
  <2> QED  BY <2>1 DEF RecoveryPredatesBlock
<1>10. RowsSound'  BY <1>2, <1>4, <1>5 DEF RowsSound, Tables, Journaled, Learned
<1>11. LearningSound'  BY <1>5 DEF LearningSound, Learned, Recovered
<1> QED  BY <1>1, <1>4, <1>5, <1>8, <1>9, <1>10, <1>11 DEF GovernanceInv, EventsKept, Journaled, Learned

LEMMA InvIdle ==
  ASSUME GovernanceInv, UNCHANGED vars
  PROVE  GovernanceInv'
<1>1. Writers  BY DEF Writers, RequestSteps, vars
<1> QED  BY <1>1, InvStep

LEMMA InvNext ==
  GovernanceInv /\ [Next]_vars => GovernanceInv'
BY InvStep, InvIdle, WritersOf DEF GovernanceInv

\* The stored events are the beginning of the terminal's file, evidence items
\* verify for good, an incident recovers only by rows read before its block,
\* and each confirmation has one draft; whatever requests run at once.
THEOREM GovernanceInvariant == Spec => []GovernanceInv
<1>1. Init => GovernanceInv  BY InvInit
<1>2. GovernanceInv /\ [Next]_vars => GovernanceInv'  BY InvNext
<1> QED  BY <1>1, <1>2, PTL DEF Spec

\* No draft is made while an incident on record when its confirmation was
\* checked is unresolved.
THEOREM DraftSafety == Spec => []NoDraftOverAnOpenIncident
<1>1. GovernanceInv => NoDraftOverAnOpenIncident
  BY DEF GovernanceInv, LearningSound, Settled, NoDraftOverAnOpenIncident
<1> QED  BY <1>1, GovernanceInvariant, PTL
-----------------------------------------------------------------------------
(* A block and its incident *)

\* What a step does to the disturbances: a crash is remembered.
LEMMA CrashRemembered ==
  ASSUME Next
  PROVE  /\ "CRASH" \in faults => "CRASH" \in faults'
         /\ \A w \in Workers : Crash(w) => "CRASH" \in faults'
<1>1. faults' = faults \/ \E what : Disturb(what)
  <2>1. \A w \in Workers : Records(w) => faults' = faults
    BY DEF Records, RecordIncident, IncidentBegins
  <2> QED
    BY <2>1 DEF Next, Terminal, PublicationRequests, ForwardRequests, JournalRequests, RecoveryRequests, LearningRequests,
       ReadinessRequests, TelemetrySync, IncidentRequests, Confirmations, Records, Tick, Emit, LoseCounter,
       PollAcknowledgement, OwnerBlocks, Retire, ReconcileLifecycle, Crash, SyncRead, SyncCommit, FreezeEvidence, VerifyChain, Index, IncidentCommit,
       AcknowledgeIncident, Resolve, Propose, ConfirmRead, ConfirmCommit, Assess, Accept
<1> QED  BY <1>1 DEF Disturb, Crash

Reported(reason) ==
  \/ \E i \in incidents : i.reason = reason
  \/ \E w \in Workers : req[w].op = "INCIDENT" /\ req[w].row.reason = reason

\* A reason once reported stays so, unless its request dies.
LEMMA ReportKept ==
  ASSUME TypeOK, Next, NEW reason, Reported(reason)
  PROVE  Reported(reason)' \/ "CRASH" \in faults'
<1>0. DOMAIN req = Workers /\ Writers  BY WritersOf DEF TypeOK
<1>1. incidents \subseteq incidents'
  <2>1. ASSUME NEW w \in Workers, IncidentCommit(w) PROVE incidents \subseteq incidents'  BY <2>1 DEF IncidentCommit
  <2> QED  BY <2>1, <1>0 DEF Writers
<1>2. CASE \E i \in incidents : i.reason = reason  BY <1>1, <1>2 DEF Reported
<1>3. ASSUME NEW w \in Workers, req[w].op = "INCIDENT", req[w].row.reason = reason
      PROVE  Reported(reason)' \/ "CRASH" \in faults'
  <2>1. CASE req'[w] = req[w]  BY <2>1, <1>3 DEF Reported
  <2>2. ASSUME IncidentCommit(w) PROVE Reported(reason)'
    <3>1. PICK row : row = req[w].row  OBVIOUS
    <3>2. CASE \E i \in incidents : Key(i) = Key(row)
      <4>1. PICK i \in incidents : Key(i) = Key(row)  BY <3>2
      <4>2. i.reason = row.reason  BY <4>1 DEF Key
      <4> QED  BY <4>1, <4>2, <3>1, <1>1, <1>3 DEF Reported
    <3>3. CASE ~\E i \in incidents : Key(i) = Key(row)
      <4>1. Incident(row) \in incidents'  BY <2>2, <3>1, <3>3 DEF IncidentCommit
      <4>2. Incident(row).reason = row.reason  BY DEF Incident
      <4> QED  BY <4>1, <4>2, <3>1, <1>3 DEF Reported
    <3> QED  BY <3>2, <3>3
  <2>3. req'[w] = req[w] \/ Crash(w) \/ IncidentCommit(w)
    <3>1. req[w] # Idle  BY <1>3 DEF Idle
    <3>2. \A v \in Workers : Records(v) => req'[w] = req[w]
      BY <3>1, <1>0 DEF Records, RecordIncident, IncidentBegins, Begin
    <3>3. \A v \in Workers : Checks(v) \/ SyncRead(v) => req'[w] = req[w]
      BY <3>1, <1>0 DEF Checks, ConfirmRead, SyncRead, Begin
    <3>4. \A v \in Workers : Crash(v) => v = w \/ req'[w] = req[w]  BY <1>0 DEF Crash
    <3>5. \A v \in Workers : IncidentCommit(v) => v = w \/ req'[w] = req[w]  BY <1>0 DEF IncidentCommit, Respond
    <3>6. \A v \in Workers : SyncCommit(v) \/ ConfirmCommit(v) => req'[w] = req[w]
      BY <1>0, <1>3 DEF SyncCommit, ConfirmCommit, Respond
    <3> QED
      BY <3>2, <3>3, <3>4, <3>5, <3>6 DEF Next, Terminal, PublicationRequests, ForwardRequests, JournalRequests,
         RecoveryRequests, LearningRequests, ReadinessRequests, TelemetrySync, IncidentRequests, Confirmations, Records,
         Checks, Tick, Emit, LoseCounter, PollAcknowledgement, OwnerBlocks, Retire, ReconcileLifecycle, FreezeEvidence,
         VerifyChain, Index, AcknowledgeIncident, Resolve, Propose, Assess, Accept
  <2> QED  BY <2>1, <2>2, <2>3, CrashRemembered
<1> QED  BY <1>2, <1>3 DEF Reported

LEMMA BlockStep ==
  ASSUME TypeOK, BlockHasIncident, Next
  PROVE  BlockHasIncident'
<1>1. SUFFICES ASSUME publication'.control # None, publication'.control.by = "INCIDENT", "CRASH" \notin faults'
      PROVE  Reported(publication.control.reason)'
  BY DEF BlockHasIncident, Reported
<1>2. Writers /\ DOMAIN req = Workers  BY WritersOf DEF TypeOK
<1>3. PICK reason : reason = publication'.control.reason  OBVIOUS
<1>4. CASE publication' = publication
  <2>1. Reported(reason)  BY <1>1, <1>3, <1>4, CrashRemembered DEF BlockHasIncident, Reported
  <2>2. Reported(reason)'  BY <2>1, <1>1, ReportKept
  <2> QED  BY <2>2, <1>3 DEF Reported
<1>5. ASSUME NEW w \in Workers, Records(w), publication' # publication
      PROVE  Reported(publication.control.reason)'
  <2>1. PICK because \in max.reasons, t \in 0 .. clock, j \in journal :
          \E fact \in Signals(because) : RecordIncident(w, because, fact, j, t)
    BY <1>5 DEF Records
  <2>2. PICK fact \in Signals(because) : IncidentBegins(w, because, fact, j, t)  BY <2>1 DEF RecordIncident
  <2>3. publication' = Blocked(because, "INCIDENT")  BY <1>5, <2>2 DEF IncidentBegins
  <2>4. req'[w].op = "INCIDENT" /\ req'[w].row.reason = because  BY <1>2, <2>2 DEF IncidentBegins, Begin
  <2>5. reason = because  BY <1>3, <2>3 DEF Blocked
  <2> QED  BY <2>4, <2>5, <1>3 DEF Reported
<1>6. ~PollAcknowledgement \/ publication'.control = publication.control  BY DEF PollAcknowledgement
<1>7. CASE PollAcknowledgement
  <2>1. publication'.control = publication.control  BY <1>6, <1>7
  <2>2. Reported(reason)  BY <1>1, <1>3, <2>1, CrashRemembered DEF BlockHasIncident, Reported
  <2>3. Reported(reason)'  BY <2>2, <1>1, ReportKept
  <2> QED  BY <2>3, <1>3 DEF Reported
<1>8. ~OwnerBlocks /\ ~ReconcileLifecycle  BY <1>1 DEF OwnerBlocks, ReconcileLifecycle, Blocked
<1> QED  BY <1>2, <1>4, <1>5, <1>7, <1>8 DEF Writers

\* A block that an incident installed has its incident, on record or about to
\* be, unless the request died in between.
THEOREM BlockSafety == Spec => []BlockHasIncident
<1>1. Init => BlockHasIncident  BY DEF Init, BlockHasIncident
<1>2. GovernanceInv /\ BlockHasIncident /\ [Next]_vars => BlockHasIncident'
  <2>1. ASSUME BlockHasIncident, UNCHANGED vars PROVE BlockHasIncident'  BY <2>1 DEF BlockHasIncident, vars
  <2> QED  BY <2>1, BlockStep DEF GovernanceInv
<1> QED  BY <1>1, <1>2, GovernanceInvariant, PTL DEF Spec
-----------------------------------------------------------------------------
(* Readiness *)

\* How far a publication has come; whatever changes it moves it on.
Stage(p) == CASE p.status = "WAITING" -> 0 [] p.status = "ACTIVE" -> 1 [] OTHER -> 2
Reached(p) == p = publication \/ Stage(p) < Stage(publication)

\* What a stored assessment was computed from is still there, and what a READY
\* one found resolved is.
InputsKept(a) ==
  /\ a.events \subseteq events /\ a.journal \subseteq Indexed /\ a.incidents \subseteq incidents
  /\ a.evidence \in 0 .. LatestId(evidence) /\ a.chain \in 0 .. LatestId(chains)
  /\ a.status = "READY" => \A i \in a.incidents : Resolved(i)

ReportsSound ==
  /\ \A c \in chains : Reached(c.sources.publication)
  /\ \A a \in assessments : InputsKept(a)

\* The inputs of an assessment only grow.
InputsGrow ==
  /\ Tables /\ Indexed \subseteq Indexed' /\ incidents \subseteq incidents'
  /\ resolutions \subseteq resolutions'
  /\ publication' = publication \/ Stage(publication) < Stage(publication')
  /\ retired => retired'

LEMMA RetiredForGood ==
  ASSUME Next
  PROVE  retired' = retired \/ Retire
<1>1. CASE Tick \/ Terminal \/ Retire \/ PublicationRequests \/ ForwardRequests \/ JournalRequests \/ Accept
  BY <1>1 DEF Tick, Terminal, LoseCounter, Emit, PublicationRequests, PollAcknowledgement, OwnerBlocks,
     ReconcileLifecycle, ForwardRequests, FreezeEvidence, VerifyChain, JournalRequests, Index, Accept, lifecycle
<1>2. CASE RecoveryRequests \/ LearningRequests \/ ReadinessRequests
  BY <1>2 DEF RecoveryRequests, AcknowledgeIncident, Resolve, LearningRequests, Propose, ReadinessRequests,
     Assess, lifecycle
<1>3. ASSUME NEW w \in Workers, Crash(w) \/ TelemetrySync(w) \/ IncidentRequests(w) \/ Confirmations(w)
      PROVE  retired' = retired
  BY <1>3 DEF Crash, TelemetrySync, SyncRead, SyncCommit, IncidentRequests, RecordIncident, IncidentBegins,
     IncidentCommit, Confirmations, ConfirmRead, ConfirmCommit, lifecycle
<1> QED  BY <1>1, <1>2, <1>3 DEF Next

LEMMA AssessmentsAreInserted ==
  ASSUME Next
  PROVE  assessments' = assessments \/ \E t \in 0 .. clock : Assess(t)
<1>1. CASE Tick \/ Terminal \/ Retire \/ PublicationRequests \/ ForwardRequests \/ JournalRequests \/ Accept
  BY <1>1 DEF Tick, Terminal, LoseCounter, Emit, Retire, PublicationRequests, PollAcknowledgement, OwnerBlocks,
     ReconcileLifecycle, ForwardRequests, FreezeEvidence, VerifyChain, JournalRequests, Index, Accept, reports
<1>2. CASE RecoveryRequests \/ LearningRequests
  BY <1>2 DEF RecoveryRequests, AcknowledgeIncident, Resolve, LearningRequests, Propose, reports
<1>3. ASSUME NEW w \in Workers, Crash(w) \/ TelemetrySync(w) \/ IncidentRequests(w) \/ Confirmations(w)
      PROVE  assessments' = assessments
  BY <1>3 DEF Crash, TelemetrySync, SyncRead, SyncCommit, IncidentRequests, RecordIncident, IncidentBegins,
     IncidentCommit, Confirmations, ConfirmRead, ConfirmCommit, reports
<1> QED  BY <1>1, <1>2, <1>3 DEF Next, ReadinessRequests

LEMMA InputsOnlyGrow ==
  ASSUME GovernanceInv, GovernanceInv', Next
  PROVE  InputsGrow
<1>1. Writers  BY WritersOf DEF GovernanceInv
<1>2. events \subseteq events'  BY <1>1 DEF Writers, SyncCommit
<1>3. evidence \subseteq evidence' /\ chains \subseteq chains'  BY <1>1 DEF Writers, FreezeEvidence, VerifyChain
<1>4. Tables  BY <1>2, <1>3 DEF GovernanceInv, RowsSound, Tables
<1>5. Indexed \subseteq Indexed'  BY <1>1 DEF Writers, Index, Indexed
<1>6. incidents \subseteq incidents'  BY <1>1 DEF Writers, IncidentCommit
<1>7. resolutions \subseteq resolutions'  BY <1>1 DEF Writers, Resolve
<1>8. publication' = publication \/ Stage(publication) < Stage(publication')
  <2>1. publication.status \in {"WAITING", "ACTIVE", "BLOCKED"}  BY DEF GovernanceInv, TypeOK, Publications
  <2>2. CASE PollAcknowledgement  BY <2>2 DEF PollAcknowledgement, Stage
  <2>3. ASSUME NEW reason, NEW by, publication.status # "BLOCKED", publication' = Blocked(reason, by)
        PROVE  Stage(publication) < Stage(publication')
    BY <2>1, <2>3 DEF Blocked, Stage
  <2>4. CASE OwnerBlocks \/ ReconcileLifecycle  BY <2>3, <2>4 DEF OwnerBlocks, ReconcileLifecycle
  <2>5. ASSUME NEW w \in Workers, Records(w), publication' # publication
        PROVE  Stage(publication) < Stage(publication')
    BY <2>3, <2>5 DEF Records, RecordIncident, IncidentBegins
  <2> QED  BY <1>1, <2>2, <2>4, <2>5 DEF Writers
<1>9. retired => retired'  BY RetiredForGood DEF Retire
<1> QED  BY <1>4, <1>5, <1>6, <1>7, <1>8, <1>9 DEF InputsGrow

\* Of rows numbered by insertion the newest is numbered last.
LEMMA NewestIsLast ==
  ASSUME NEW rows, Numbered(rows), rows # {}
  PROVE  /\ Newest(rows) \in rows /\ Newest(rows).id \in Nat
         /\ \A r \in rows : r.id <= Newest(rows).id
<1> DEFINE size == Cardinality(rows)
           number == [r \in rows |-> r.id]
<1>1. IsFiniteSet(rows) /\ size \in Nat /\ size # 0  BY FS_CardinalityType, FS_EmptySet DEF Numbered
<1>2. number \in [rows -> 1 .. size] /\ \A r, q \in rows : number[r] = number[q] => r = q  BY DEF Numbered
<1>3. \E r \in rows : number[r] = size
  <2> HIDE DEF number
  <2>1. IsFiniteSet(1 .. size) /\ Cardinality(1 .. size) = size  BY <1>1, FS_Interval
  <2>2. number \in Injection(rows, 1 .. size)  BY <1>2, Fun_IsInj
  <2>3. number \in Surjection(rows, 1 .. size)  BY <1>1, <2>1, <2>2, FS_Injection
  <2> QED  BY <1>1, <2>3 DEF Surjection
<1>4. \E r \in rows : \A s \in rows : s.id <= r.id  BY <1>1, <1>2, <1>3
<1> QED  BY <1>1, <1>2, <1>4 DEF Newest

LEMMA LatestIds ==
  ASSUME NEW rows, Numbered(rows)
  PROVE  /\ LatestId(rows) \in Nat /\ (\A r \in rows : r.id \in Nat /\ r.id <= LatestId(rows))
         /\ rows # {} => Newest(rows) \in rows /\ Newest(rows).id = LatestId(rows)
<1>1. CASE rows = {}  BY <1>1 DEF LatestId
<1>2. CASE rows # {}
  <2>1. Cardinality(rows) \in Nat /\ \A r \in rows : r.id \in 1 .. Cardinality(rows)  BY FS_CardinalityType DEF Numbered
  <2> QED  BY <1>2, <2>1, NewestIsLast DEF LatestId
<1> QED  BY <1>1, <1>2

\* A table whose latest number is one it had already has no new row.
LEMMA NothingInserted ==
  ASSUME NEW rows, Numbered(rows), NEW new, new.id = Cardinality(rows) + 1,
         NEW n, n <= LatestId(rows)
  PROVE  LatestId(rows \cup {new}) # n
<1>1. Numbered(rows \cup {new})  BY NumberedGrows
<1>2. Cardinality(rows) \in Nat /\ (\A r \in rows : r.id \in 1 .. Cardinality(rows))  BY FS_CardinalityType DEF Numbered
<1>3. LatestId(rows) \in Nat /\ LatestId(rows) <= Cardinality(rows)
  <2>1. CASE rows = {}  BY <1>2, <2>1 DEF LatestId
  <2>2. CASE rows # {}  BY <1>2, <2>2, LatestIds
  <2> QED  BY <2>1, <2>2
<1>4. LatestId(rows \cup {new}) \in Nat /\ new.id <= LatestId(rows \cup {new})  BY <1>1, LatestIds
<1> QED  BY <1>2, <1>3, <1>4

LEMMA LatestGrows ==
  ASSUME NEW old, NEW rows, Numbered(old), Numbered(rows), old \subseteq rows
  PROVE  LatestId(old) <= LatestId(rows)
<1>1. CASE old = {}  BY <1>1, LatestIds DEF LatestId
<1>2. CASE old # {}  BY <1>2, LatestIds
<1> QED  BY <1>1, <1>2

\* Every gate of an assessment that comes out READY is open.
ReadyIsExact(t) ==
  Readiness(Gates(t)) = "READY" =>
    ~retired /\ ChainExact(t) /\ \A i \in OpenIncidents : ~BlocksReadiness(i.reason)

LEMMA ReadyGates == \A t : ReadyIsExact(t)
<1> SUFFICES ASSUME NEW t, Readiness(Gates(t)) = "READY"
             PROVE  ~retired /\ ChainExact(t) /\ \A i \in OpenIncidents : ~BlocksReadiness(i.reason)
  BY DEF ReadyIsExact
<1>1. {g \in DOMAIN Gates(t) : ~Gates(t)[g]} = {}  BY DEF Readiness
<1>2. Gates(t).lifecycle /\ Gates(t).incidents /\ Gates(t).journal  BY <1>1 DEF Gates
<1> QED  BY <1>2 DEF Gates

LEMMA ReadyGatesNext == (\A t : ReadyIsExact(t))'
BY ReadyGates, PTL

LEMMA ReportsStep ==
  ASSUME GovernanceInv, GovernanceInv', ReportsSound, Next
  PROVE  ReportsSound'
<1>1. InputsGrow /\ Writers  BY InputsOnlyGrow, WritersOf DEF GovernanceInv
<1>2. publication.status \in {"WAITING", "ACTIVE", "BLOCKED"}  BY DEF GovernanceInv, TypeOK, Publications
<1>3. ASSUME NEW p, Reached(p) PROVE Reached(p)'
  <2>1. Stage(p) \in Nat /\ Stage(publication) \in Nat  BY DEF Stage
  <2>2. Stage(publication') \in Nat  BY DEF Stage
  <2> QED  BY <1>1, <1>3, <2>1, <2>2 DEF Reached, InputsGrow
<1>4. Reached(publication)'
  BY <1>1 DEF InputsGrow, Reached
<1>5. ASSUME NEW c \in chains' PROVE Reached(c.sources.publication)'
  <2>1. CASE c \in chains
    <3>1. PICK p : p = c.sources.publication  OBVIOUS
    <3>2. Reached(p)'  BY <1>3, <2>1, <3>1 DEF ReportsSound
    <3> QED  BY <3>1, <3>2
  <2>2. CASE c \notin chains
    <3>1. c = Chain /\ publication' = publication  BY <1>1, <1>5, <2>2 DEF Writers, VerifyChain, lifecycle
    <3>2. c.sources.publication = publication  BY <3>1 DEF Chain, ChainSources
    <3> QED  BY <3>1, <3>2 DEF Reached
  <2> QED  BY <2>1, <2>2
<1>6. /\ Numbered(evidence) /\ Numbered(chains) /\ Numbered(evidence') /\ Numbered(chains')
  BY <1>1 DEF GovernanceInv, RowsSound, InputsGrow, Tables, Numbered
<1>7. /\ LatestId(evidence) <= LatestId(evidence') /\ LatestId(chains) <= LatestId(chains')
      /\ LatestId(evidence) \in Nat /\ LatestId(chains) \in Nat
      /\ LatestId(evidence') \in Nat /\ LatestId(chains') \in Nat
  BY <1>1, <1>6, LatestGrows, LatestIds DEF InputsGrow, Tables
<1>8. \A i : Resolved(i) => Resolved(i)'  BY <1>1 DEF InputsGrow, Resolved
<1>9. ASSUME NEW a \in assessments' PROVE InputsKept(a)'
  <2>1. CASE a \in assessments
    <3>1. InputsKept(a)  BY <2>1 DEF ReportsSound
    <3>2. a.evidence \in 0 .. LatestId(evidence') /\ a.chain \in 0 .. LatestId(chains')
      BY <1>7, <3>1 DEF InputsKept
    <3> QED  BY <1>1, <1>8, <3>1, <3>2 DEF InputsKept, InputsGrow, Tables
  <2>2. CASE a \notin assessments
    <3>1. PICK t \in 0 .. clock : Assess(t) /\ a = Assessment(t)
      BY <1>9, <2>2, AssessmentsAreInserted DEF Assess
    <3>2. /\ a.events = events /\ a.journal = Indexed /\ a.incidents = {i \in incidents : BlocksReadiness(i.reason)}
          /\ a.evidence = LatestId(evidence) /\ a.chain = LatestId(chains) /\ a.status = Readiness(Gates(t))
      BY <3>1 DEF Assessment
    <3>3. a.status = "READY" => \A i \in a.incidents : Resolved(i)
      BY <3>2, ReadyGates DEF ReadyIsExact, OpenIncidents
    <3>4. a.evidence \in 0 .. LatestId(evidence') /\ a.chain \in 0 .. LatestId(chains')
      BY <1>7, <3>2
    <3> QED  BY <1>1, <1>8, <3>2, <3>3, <3>4 DEF InputsKept, InputsGrow, Tables
  <2> QED  BY <2>1, <2>2
<1> QED  BY <1>5, <1>9 DEF ReportsSound

\* What an assessment is computed from has not changed in a step after which a
\* READY one of before verifies.
LEMMA ReadyInputs ==
  ASSUME GovernanceInv, GovernanceInv', ReportsSound, Next,
         NEW a \in assessments, a.status = "READY", AssessmentVerifies(a)'
  PROVE  /\ UNCHANGED <<publication, retired, events, evidence, chains, journal>>
         /\ {i \in incidents : BlocksReadiness(i.reason)} = a.incidents
         /\ \A i \in a.incidents : Resolved(i)
         /\ Readiness(Gates(a.at))' = "READY"
         /\ a = Assessment(a.at)'
<1>1. InputsGrow /\ Writers  BY InputsOnlyGrow, WritersOf DEF GovernanceInv
<1>2. InputsKept(a)  BY DEF ReportsSound
<1>3. a = Assessment(a.at)'  BY DEF AssessmentVerifies
<1>4. /\ a.events = events' /\ a.journal = Indexed' /\ a.incidents = {i \in incidents' : BlocksReadiness(i.reason)}
      /\ a.evidence = LatestId(evidence') /\ a.chain = LatestId(chains') /\ a.status = Readiness(Gates(a.at))'
  BY <1>3 DEF Assessment
<1>5. events' = events  BY <1>1, <1>2, <1>4 DEF InputsKept, InputsGrow, Tables
<1>6. journal' = journal
  <2>1. Indexed' \subseteq Indexed  BY <1>2, <1>4 DEF InputsKept
  <2>2. ASSUME NEW s \in Sources, Index(s) PROVE FALSE
    <3>1. s \notin Indexed /\ Item(s) \in journal'  BY <2>2 DEF Index
    <3>2. Item(s).source = s  BY DEF Item
    <3> QED  BY <2>1, <3>1, <3>2 DEF Indexed
  <2> QED  BY <1>1, <2>2 DEF Writers
<1>7. Numbered(evidence) /\ Numbered(chains)  BY DEF GovernanceInv, RowsSound
<1>8. evidence' = evidence
  <2>1. ASSUME FreezeEvidence PROVE FALSE
    <3>1. PICK new : new = Evidence  OBVIOUS
    <3>2. evidence' = evidence \cup {new} /\ new.id = Cardinality(evidence) + 1
      BY <2>1, <3>1 DEF FreezeEvidence, Evidence
    <3> QED  BY <1>2, <1>4, <1>7, <3>2, NothingInserted DEF InputsKept
  <2> QED  BY <1>1, <2>1 DEF Writers
<1>9. chains' = chains
  <2>1. ASSUME VerifyChain PROVE FALSE
    <3>1. PICK new : new = Chain  OBVIOUS
    <3>2. chains' = chains \cup {new} /\ new.id = Cardinality(chains) + 1
      BY <2>1, <3>1 DEF VerifyChain, Chain
    <3> QED  BY <1>2, <1>4, <1>7, <3>2, NothingInserted DEF InputsKept
  <2> QED  BY <1>1, <2>1 DEF Writers
<1>10. Readiness(Gates(a.at))' = "READY"  BY <1>4
<1>11. (~retired /\ ChainExact(a.at) /\ \A i \in OpenIncidents : ~BlocksReadiness(i.reason))'
  BY <1>10, ReadyGatesNext DEF ReadyIsExact
<1>12. retired' = retired
  BY <1>1, <1>11, RetiredForGood DEF Retire
<1>13. publication' = publication
  <2>1. Newest(chains).sources.publication = publication' /\ chains # {}
    BY <1>9, <1>11 DEF ChainExact, ChainSources
  <2>2. Newest(chains) \in chains  BY <1>7, <2>1, NewestIsLast
  <2>3. PICK p : p = publication'  OBVIOUS
  <2>4. Reached(p)  BY <2>1, <2>2, <2>3 DEF ReportsSound
  <2>5. Stage(p) \in Nat /\ Stage(publication) \in Nat  BY DEF Stage
  <2> QED  BY <1>1, <2>3, <2>4, <2>5 DEF InputsGrow, Reached
<1>14. {i \in incidents : BlocksReadiness(i.reason)} = a.incidents
  BY <1>1, <1>2, <1>4 DEF InputsGrow, InputsKept
<1>15. \A i \in a.incidents : Resolved(i)
  BY <1>2 DEF InputsKept
<1> QED  BY <1>3, <1>5, <1>6, <1>8, <1>9, <1>10, <1>12, <1>13, <1>14, <1>15

LEMMA StaleStays ==
  ASSUME GovernanceInv, GovernanceInv', ReportsSound, Next
  PROVE  StaleAssessmentsStay
<1> SUFFICES ASSUME NEW a \in assessments, a.status = "READY", AssessmentVerifies(a)'
             PROVE  AssessmentVerifies(a)
  BY DEF StaleAssessmentsStay
<1> PICK t : t = a.at  OBVIOUS
<1>1. /\ UNCHANGED <<publication, retired, events, evidence, chains, journal>>
      /\ {i \in incidents : BlocksReadiness(i.reason)} = a.incidents
      /\ \A i \in a.incidents : Resolved(i)
      /\ Readiness(Gates(t))' = "READY" /\ a = Assessment(t)'
  BY ReadyInputs
<1>2. UNCHANGED <<ChainResult(t), ChainSources(t), Indexed>>
  BY <1>1 DEF ChainResult, ChainSources, FreshAt, LastHeartbeat, Indexed
<1>3. ASSUME NEW j \in journal PROVE ItemVerifies(j)' = ItemVerifies(j)
  BY <1>1 DEF ItemVerifies, LineageHolds, HasAcknowledgement, Snapshot, Origin, RowOf
<1>4. ChainExact(t)' = ChainExact(t)
  BY <1>1, <1>2 DEF ChainExact
<1>5. {i \in OpenIncidents : BlocksReadiness(i.reason)} = {}
  BY <1>1 DEF OpenIncidents
<1>6. ({i \in OpenIncidents : BlocksReadiness(i.reason)} = {})'
  BY <1>1, ReadyGatesNext DEF ReadyIsExact
<1>7. Gates(t)' = Gates(t)
  BY <1>1, <1>2, <1>3, <1>4, <1>5, <1>6 DEF Gates
<1>8. Readiness(Gates(t))' = Readiness(Gates(t))
  BY <1>1, <1>7 DEF Readiness
<1>9. LatestId(evidence)' = LatestId(evidence) /\ LatestId(chains)' = LatestId(chains)
  BY <1>1
<1>10. {i \in incidents : BlocksReadiness(i.reason)}' = {i \in incidents : BlocksReadiness(i.reason)}
  BY <1>1 DEF Assessment
<1>11. Assessment(t)' = Assessment(t)
  BY <1>1, <1>2, <1>7, <1>8, <1>9, <1>10 DEF Assessment
<1> QED  BY <1>1, <1>11 DEF AssessmentVerifies

\* An assessment that said READY and no longer verifies never verifies again,
\* whatever was opened, recovered or inserted since.
THEOREM ReadySafety == Spec => [][StaleAssessmentsStay]_vars
<1>1. Init => ReportsSound  BY DEF Init, ReportsSound
<1>2. GovernanceInv /\ GovernanceInv' /\ ReportsSound /\ [Next]_vars => ReportsSound'
  <2>1. ASSUME ReportsSound, UNCHANGED vars PROVE ReportsSound'
    BY <2>1 DEF ReportsSound, InputsKept, Reached, Indexed, Resolved, vars
  <2> QED  BY <2>1, ReportsStep
<1>3. GovernanceInv /\ GovernanceInv' /\ ReportsSound /\ [Next]_vars => [StaleAssessmentsStay]_vars
  BY StaleStays
<1> QED  BY <1>1, <1>2, <1>3, GovernanceInvariant, PTL DEF Spec
==============================================================================
