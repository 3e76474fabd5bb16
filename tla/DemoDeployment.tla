--------------------------- MODULE DemoDeployment ---------------------------
(***************************************************************************)
(* DEMO deployment of an approved strategy through strategy.ini            *)
(* (deployments.py) and the terminal that reads it (the legacy branch of   *)
(* ReloadConfig in ARKANA_ENGINE.mq5, taken while no generic configuration *)
(* is loaded).                                                             *)
(*                                                                         *)
(* Every request writes one temporary file, strategy.tmp, and renames it   *)
(* over strategy.ini.  An open file handle follows the file, not its name: *)
(* a request that has opened the temporary file when another one renames   *)
(* it goes on to write into strategy.ini itself.                           *)
(***************************************************************************)
EXTENDS Naturals, Sequences, FiniteSets

CONSTANTS
    Contracts,      \* a strategy version with the broker symbol it is for
    OnChart,        \* those the terminal accepts: its rule set, its chart's symbol
    MaxDeployments, \* bound: rows and requests that will insert one
    Workers,        \* requests the service can have in flight
    NoFile, Empty, Garbled, \* what a file is that holds no configuration
    NoConfig

ASSUME DeploymentAssumption ==
    /\ OnChart \subseteq Contracts
    /\ MaxDeployments \in Nat
    /\ {NoFile, Empty, Garbled, NoConfig}
          \cap [contract : Contracts, enabled : {"true", "false"}] = {}
    /\ NoFile \notin {Empty, Garbled} /\ Empty # Garbled

VARIABLES
    approved, \* contracts whose strategy version is APPROVED
    rows,     \* committed deployments, in order of their commit
    clock,    \* acknowledgements recorded so far
    temp,     \* strategy.tmp
    live,     \* strategy.ini
    loaded,   \* the configuration the terminal has cached
    journal,  \* configurations telemetry.csv has a CONFIG_LOADED row of
    req       \* the request each worker is serving

database == <<approved, rows, clock>>
files == <<temp, live>>
terminal == <<loaded, journal>>
vars == <<database, files, terminal, req>>

\* The text of a configuration follows from its contract and the flag.
Configs == [contract : Contracts, enabled : {"true", "false"}]
Armed(c) == [contract |-> c, enabled |-> "true"]
Disarmed(c) == [contract |-> c, enabled |-> "false"]

Contents == Configs \cup {NoFile, Empty, Garbled}

Statuses == {"AWAITING_ACK", "DEMO_ACTIVE", "FAILED", "ROLLED_BACK", "STOPPED"}
Rows == [contract : Contracts, status : Statuses, previous : Nat,
         acknowledged : Nat]

Idle == [step |-> "idle", kind |-> "none", id |-> 0, seen |-> "NONE",
         previous |-> 0, config |-> NoConfig, handle |-> "closed"]

RequestStates ==
    [step : {"idle", "open", "write", "replace", "commit"},
     kind : {"none", "create", "rollback", "stop", "poll"},
     id : Nat, seen : Statuses \cup {"NONE"}, previous : Nat,
     config : Configs \cup {NoConfig}, handle : {"closed", "temp", "live", "gone"}]

-----------------------------------------------------------------------------
Active == {d \in DOMAIN rows : rows[d].status = "DEMO_ACTIVE"}

\* The active deployment acknowledged last, or 0.
Prior ==
    IF Active = {} THEN {0}
    ELSE {d \in Active : \A e \in Active : rows[e].acknowledged <= rows[d].acknowledged}

Row(r, outcome) == [contract |-> r.config.contract, status |-> outcome,
                    previous |-> r.previous, acknowledged |-> 0]

Deployable(c) == c \in approved

\* Writing from offset 0 over what the file holds by then: a longer text
\* leaves its tail behind.
Overwrite(old, text) ==
    IF old \in {Empty, text} THEN {text} ELSE {text, Garbled}

\* Slip: any CONFIG_LOADED row will do.
AcknowledgedByAnyRow(d) == journal # {}

\* A row of exactly this strategy, version, symbol and checksum.
Acknowledged(d) == Armed(rows[d].contract) \in journal

Begin(w, fields) == req[w].step = "idle" /\ req' = [req EXCEPT ![w] = fields]

-----------------------------------------------------------------------------
(* Requests *)

\* The owner approves a strategy version; nothing takes that back.
Approve(c) ==
    /\ approved' = approved \cup {c}
    /\ UNCHANGED <<rows, clock, files, terminal, req>>

BeginCreate(w, c) ==
    /\ Deployable(c)
    /\ Len(rows) + Cardinality({v \in Workers : req[v].kind = "create"}) < MaxDeployments
    /\ \E prior \in Prior :
          Begin(w, [Idle EXCEPT !.step = "open", !.kind = "create",
                                !.previous = prior, !.config = Armed(c)])
    /\ UNCHANGED <<database, files, terminal>>

\* The status of the deployment itself is not asked for.
BeginRollback(w, d) ==
    /\ rows[d].previous # 0
    /\ rows[rows[d].previous].status = "DEMO_ACTIVE"
    /\ Begin(w, [Idle EXCEPT !.step = "open", !.kind = "rollback", !.id = d,
                             !.seen = rows[d].status,
                             !.config = Armed(rows[rows[d].previous].contract)])
    /\ UNCHANGED <<database, files, terminal>>

BeginStop(w, d) ==
    /\ rows[d].status = "DEMO_ACTIVE"
    /\ Begin(w, [Idle EXCEPT !.step = "open", !.kind = "stop", !.id = d,
                             !.seen = "DEMO_ACTIVE",
                             !.config = Disarmed(rows[d].contract)])
    /\ UNCHANGED <<database, files, terminal>>

BeginPoll(w, d) ==
    /\ rows[d].status = "AWAITING_ACK"
    /\ Begin(w, [Idle EXCEPT !.step = "commit", !.kind = "poll", !.id = d,
                             !.seen = "AWAITING_ACK"])
    /\ UNCHANGED <<database, files, terminal>>

-----------------------------------------------------------------------------
(* write_config *)

\* Opening the temporary file truncates it for whoever else has it open.
OpenTemp(w) ==
    /\ req[w].step = "open"
    /\ temp' = Empty
    /\ req' = [req EXCEPT ![w].step = "write", ![w].handle = "temp"]
    /\ UNCHANGED <<database, live, terminal>>

WriteTemp(w) ==
    /\ req[w].step = "write"
    /\ IF req[w].handle = "temp"
          THEN temp' \in Overwrite(temp, req[w].config) ELSE UNCHANGED temp
    /\ IF req[w].handle = "live"
          THEN live' \in Overwrite(live, req[w].config) ELSE UNCHANGED live
    /\ req' = [req EXCEPT ![w].step = "replace", ![w].handle = "closed"]
    /\ UNCHANGED <<database, terminal>>

\* The rename takes the open handles along.
Replace(w) ==
    /\ req[w].step = "replace" /\ temp # NoFile
    /\ live' = temp /\ temp' = NoFile
    /\ req' = [v \in Workers |->
          IF v = w THEN [req[w] EXCEPT !.step = "commit"]
          ELSE [req[v] EXCEPT !.handle =
                   CASE @ = "temp" -> "live" [] @ = "live" -> "gone" [] OTHER -> @]]
    /\ UNCHANGED <<database, terminal>>

\* OSError, the only way on when another request has renamed the temporary
\* file away: a new deployment is recorded as FAILED, the other requests
\* leave the database alone.
IoError(w) ==
    /\ req[w].step \in {"open", "write", "replace"}
    /\ rows' = IF req[w].kind # "create" THEN rows
          ELSE Append(rows, Row(req[w], "FAILED"))
    /\ req' = [req EXCEPT ![w] = Idle]
    /\ UNCHANGED <<approved, clock, files, terminal>>

-----------------------------------------------------------------------------
(* Commits, by primary key whatever the row says by then *)

CommitCreate(w) ==
    /\ req[w].step = "commit" /\ req[w].kind = "create"
    /\ rows' = Append(rows, Row(req[w], "AWAITING_ACK"))
    /\ req' = [req EXCEPT ![w] = Idle]
    /\ UNCHANGED <<approved, clock, files, terminal>>

\* An UPDATE carries the columns whose value differs from the one loaded.
CommitRollback(w) ==
    /\ req[w].step = "commit" /\ req[w].kind = "rollback"
    /\ rows' = IF req[w].seen = "ROLLED_BACK" THEN rows
          ELSE [rows EXCEPT ![req[w].id].status = "ROLLED_BACK"]
    /\ req' = [req EXCEPT ![w] = Idle]
    /\ UNCHANGED <<approved, clock, files, terminal>>

CommitStop(w) ==
    /\ req[w].step = "commit" /\ req[w].kind = "stop"
    /\ rows' = [rows EXCEPT ![req[w].id].status = "STOPPED"]
    /\ req' = [req EXCEPT ![w] = Idle]
    /\ UNCHANGED <<approved, clock, files, terminal>>

CommitPoll(w) ==
    /\ req[w].step = "commit" /\ req[w].kind = "poll"
    /\ IF Acknowledged(req[w].id)
          THEN /\ clock' = clock + 1
               /\ rows' = [rows EXCEPT ![req[w].id].status = "DEMO_ACTIVE",
                                       ![req[w].id].acknowledged = clock + 1]
          ELSE UNCHANGED <<rows, clock>>
    /\ req' = [req EXCEPT ![w] = Idle]
    /\ UNCHANGED <<approved, files, terminal>>

\* The service restarts: transactions roll back, files stay.
Crash ==
    /\ \E w \in Workers : req[w] # Idle
    /\ req' = [w \in Workers |-> Idle]
    /\ UNCHANGED <<database, files, terminal>>

-----------------------------------------------------------------------------
(* The terminal *)

\* A whole configuration for the symbol of the chart.
Readable == live \in Configs /\ live.contract \in OnChart

\* Slip: a disarmed file is not loaded.
LoadArmed ==
    /\ Readable /\ live.enabled = "true"
    /\ loaded' = live
    /\ journal' = journal \cup {live}
    /\ UNCHANGED <<database, files, req>>

\* Slip: an unchanged file is not loaded again.
LoadChanged ==
    /\ Readable /\ loaded # live
    /\ loaded' = live
    /\ journal' = journal \cup {live}
    /\ UNCHANGED <<database, files, req>>

\* Every firing of the timer loads the file again.
Load ==
    /\ Readable
    /\ loaded' = live
    /\ journal' = journal \cup {live}
    /\ UNCHANGED <<database, files, req>>

\* telemetry.csv cannot be opened: nobody hears of the reload.
LoadUnheard ==
    /\ Readable
    /\ loaded' = live
    /\ UNCHANGED <<journal, database, files, req>>

\* A rejected reload keeps the cached configuration; a restart forgets it.
RestartTerminal ==
    /\ loaded # NoConfig
    /\ loaded' = NoConfig
    /\ UNCHANGED <<journal, database, files, req>>

-----------------------------------------------------------------------------
Init ==
    /\ approved = {} /\ rows = <<>> /\ clock = 0
    /\ temp = NoFile /\ live = NoFile
    /\ loaded = NoConfig /\ journal = {}
    /\ req = [w \in Workers |-> Idle]

Write(w) == OpenTemp(w) \/ WriteTemp(w) \/ Replace(w) \/ IoError(w)

Commit(w) == CommitCreate(w) \/ CommitRollback(w) \/ CommitStop(w) \/ CommitPoll(w)

Serve(w) ==
    \/ \E c \in Contracts : BeginCreate(w, c)
    \/ \E d \in DOMAIN rows : BeginRollback(w, d) \/ BeginStop(w, d) \/ BeginPoll(w, d)
    \/ Write(w) \/ Commit(w)

Next ==
    \/ \E c \in Contracts : Approve(c)
    \/ \E w \in Workers : Serve(w)
    \/ Crash
    \/ Load \/ LoadUnheard \/ RestartTerminal

Spec == Init /\ [][Next]_vars

\* The reload timer keeps firing, and telemetry.csv can be opened again.
FairSpec == Spec /\ WF_vars(Load)

-----------------------------------------------------------------------------
(* Safety *)

TypeOK ==
    /\ approved \subseteq Contracts
    /\ rows \in Seq(Rows)
    /\ clock \in Nat
    /\ temp \in Contents /\ live \in Contents
    /\ loaded \in Configs \cup {NoConfig} /\ journal \subseteq Configs
    /\ req \in [Workers -> RequestStates]

\* docs/.../SPRINT_07 "Exact strategy/version/checksum acknowledgement
\* matching": a deployment is active, or was before it was stopped, only if
\* the terminal has loaded its very configuration, armed, for its chart.
ActiveWasLoaded ==
    \A d \in DOMAIN rows :
        rows[d].status \in {"DEMO_ACTIVE", "STOPPED"} =>
            /\ Armed(rows[d].contract) \in journal
            /\ rows[d].contract \in OnChart

\* "Approved-only DEMO preflight and deployment": whatever two requests do to
\* the shared temporary file, and whatever a crash leaves in it, the terminal
\* holds a whole configuration of an approved strategy for its own symbol.
RunsApprovedOnly ==
    loaded # NoConfig =>
        loaded.contract \in approved /\ loaded.contract \in OnChart

\* "Rollback writes the previous acknowledged DEMO config": the configuration
\* a rollback is writing is one the terminal has loaded before, and the chain
\* of previous deployments leads back in time.
RollbackIsKnownGood ==
    /\ \A w \in Workers : req[w].kind = "rollback" => req[w].config \in journal
    /\ \A d \in DOMAIN rows :
          rows[d].previous # 0 =>
              /\ rows[d].previous < d
              /\ Armed(rows[rows[d].previous].contract) \in journal

\* What may be in a file: an armed configuration of an approved strategy, or
\* a disarmed one of a deployment the terminal has run.
ConfigSound(c) ==
    c \in Configs =>
        /\ c.contract \in approved
        /\ c.enabled = "false" => Armed(c.contract) \in journal

\* What a request can rely on until it commits.
RequestSound(r) ==
    /\ ConfigSound(r.config)
    /\ r.step \in {"open", "write", "replace"} => r.kind \in {"create", "rollback", "stop"}
    /\ r.kind \in {"create", "rollback", "stop"} => r.config \in Configs
    /\ r.kind = "rollback" => r.config \in journal
    /\ r.kind \in {"rollback", "stop", "poll"} => r.id \in DOMAIN rows
    /\ r.kind = "stop" => Armed(rows[r.id].contract) \in journal
    /\ r.kind = "create" => r.previous \in 0..Len(rows)
    /\ r.kind = "create" /\ r.previous # 0 =>
          Armed(rows[r.previous].contract) \in journal

\* The conjunction that every step preserves.
DeploymentInv ==
    /\ TypeOK
    /\ ConfigSound(temp) /\ ConfigSound(live) /\ ConfigSound(loaded)
    /\ \A c \in journal : c.contract \in approved /\ c.contract \in OnChart
    /\ \A d \in DOMAIN rows : rows[d].contract \in approved
    /\ \A w \in Workers : RequestSound(req[w])
    /\ ActiveWasLoaded /\ RunsApprovedOnly /\ RollbackIsKnownGood

-----------------------------------------------------------------------------
(* Liveness *)

\* stop's docstring: the stop is expressed in the file the terminal reads.
\* A disarmed configuration that stays in strategy.ini disarms the terminal.
DisarmedInTheEnd ==
    <>[](live \in Configs /\ live.contract \in OnChart /\ live.enabled = "false")
        => <>[](loaded = NoConfig \/ loaded.enabled = "false")

\* A configuration the terminal accepts is acknowledged or replaced.
ConfigIsAcknowledged ==
    \A c \in OnChart : (live = Armed(c)) ~> (live # Armed(c) \/ Armed(c) \in journal)
=============================================================================
