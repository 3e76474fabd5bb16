# TLA+ project for ARKANA

ARKANA is a local trading-research and DEMO command centre: a FastAPI service
(`services/research/app`) over PostgreSQL that registers market data, researches
and validates strategies, and publishes an approved configuration to a
MetaTrader 5 terminal, where an expert advisor (`mt5/Experts/ARKANA_ENGINE.mq5`)
trades it on a DEMO account. This directory holds TLA+ models of its parts, the
TLC runs that check them on small instances, and proofs of the main theorems.

## How the system runs

* Every endpoint of `main.py` is a synchronous function: FastAPI serves it on a
  threadpool worker with a database session of its own (`database.py`), in READ
  COMMITTED isolation, `autoflush=False`. Two requests interleave at every
  statement. There are almost no row locks and no version columns; exclusion
  comes from unique constraints (the loser of an `INSERT` gets an
  `IntegrityError` and re-reads the winner), from conditional `UPDATE`s, and from
  two in-process locks (`_publication_lock`, `_historical_scheduler_lock`).
* The service is one uvicorn process. Killing it rolls back open transactions and
  leaves files as they are.
* Service and terminal share a directory (FILE_COMMON): the service replaces the
  manifest, the configurations and the control file, the terminal appends
  acknowledgements and telemetry. Neither calls the other.
* The advisor is single-threaded: `OnInit`, `OnTimer`, `OnTick` and
  `OnTradeTransaction` never overlap, but the service may replace a file between
  two reads of one callback.


## Components

| Component (source, all under `services/research/app` unless a path is given) | State | Operations | Talks to |
|---|---|---|---|
| Generic MT5 publication: `generic_mt5_publications.py`, `_publication_lock` of `main.py` | publication rows; manifest, per-checksum configurations, control file | publish, poll acknowledgement, block entries, reconcile with the lifecycle | terminal, through files; retirement |
| Expert advisor, reload part: `mt5/Experts/ARKANA_ENGINE.mq5` | loaded configuration, entry block; acknowledgement file | OnInit, OnTimer, ReloadConfig, GenericControlState | publication and deployment, through files |
| DEMO deployment: `deployments.py`, `deployment_contract.py` | deployment rows, approvals; `strategy.ini` and its temporary file | create, poll acknowledgement, rollback, stop | terminal, through files and `telemetry.csv` |
| Telemetry and forward evidence: `generic_forward_telemetry.py`, `generic_forward_evidence.py`, `generic_chain_verification.py` | ingested events, evidence, chain verifications; an append-only file with a counter | sync, freeze evidence, verify the chain | terminal, through files; incidents, readiness |
| Governance: `governance_incidents.py`, `governance_journal.py`, `controlled_learning.py`, `live_readiness.py`, `sprint21_acceptance.py` | incidents, journal items, proposals and confirmations, readiness assessments and acceptances | record, acknowledge, resolve; index and verify; propose, confirm; assess, verify, accept | publication (entry block), telemetry, lifecycle |
| Edge-search campaign: `edge_search*.py` | campaign, trials, final-OOS openings, gate decisions, one conclusion; breadth rows; verification rows | create, execute (sweep), open and evaluate, conclude, measure breadth, verify | OOS gate, dataset, capability registry, promotions |
| Validation lifecycle: `generic_evidence_*.py`, `generic_validation_*.py` | combined decision, acknowledgement, verification, eligibility snapshot, promotion, retirement, status of the strategy version | one endpoint for each | dataset, OOS and robustness evidence, publication |
| Lifecycle verifier: `generic_validation_lifecycle_verification.py` | one row per fingerprint | materialize | reads the lifecycle |
| Variant experiment: `variant_*.py` | contract, train run, holdout run, selection lock, confirmation, OOS evidence, verification; a lease in each run | declare, run, heartbeat, recover, confirm, materialize | dataset, OOS evaluation, strategy versions |
| Strategy router: `strategy_router_*.py` | eligibility snapshots, decisions, parameters, verifications | materialize, parameterize, verify | lifecycle, dataset |
| Historical acquisition: `mt5_acquisition.py`, `market_data.py`, `mt5/Experts/ARKANA_DATA_COLLECTOR.mq5` | sync state and jobs, request and response files, Parquet fragments, dataset | scheduler tick, manual sync, bootstrap | collector, through files; everything that reads the dataset |
| Candle kernel: `completed_candle_evaluator.py`, `backtesting.py`, replay part of `oos_validation.py` | none of its own between runs | decide, replay a split in one pass | OOS, variants, campaigns |
| OOS, robustness: `oos_validation.py`, `generic_robustness.py` | evidence rows | run | dataset; lifecycle and variants |
| Engine journal: `telemetry.py`, `demo_validation.py` | rows of a second file, trades | sync | terminal, through files |
| Research: `level_touch.py`, `research_*.py`, `hypotheses.py`, `discovery.py` | definitions, rules, runs | publish, run | market data |
| Strategy registry: `strategies.py`, `strategy_blocks.py`, `strategy_c*.py`, `strategy_lineage.py`, `generic_mt5_compiler.py` | strategy versions, contracts | register, compile, verify | lifecycle |
| Capital: `capital_*.py`, `fractional_risk_simulations.py`, `constrained_capital_simulations.py`, `broker_metadata.py` | contracts, simulations, a verification with a lease | simulate, verify | full-history evidence |
| Web application, AI gateway, reports, backup scripts | none the others depend on | | |

What makes each hard, and what makes it correct:

* **Publication chain.** A publication is three stores (configuration, manifest,
  row) and a fourth one, the control file, that all publications share; either
  side may stop between any two. Correct when the manifest never names a
  configuration that is not there, one request has one publication, an
  acknowledgement belongs to its publication, and a block is effective before
  the row says so and reaches the terminal in the end.
* **Deployment.** One temporary file for every writer, and an acknowledgement file
  that never forgets. Correct when the terminal never runs a mixture of two
  writes, nothing is active that was not loaded, and a stop arrives.
* **Telemetry and governance.** Each record is a commit of its own that rests on
  records which move on: a block is committed before its incident, a proposal waits
  while incidents open, a READY report ages. Correct when ingested rows are a
  prefix of the file, a block has its incident or the request that will try to
  insert it, an incident opened in the meantime stops a confirmation, and a
  READY report that has gone stale never verifies again.
* **Campaign.** A budget counted and spent in two statements; final OOS that must
  be paid for before it is looked at; a verdict that several requests race for; a
  verifier that reads five tables one after another.
* **Lifecycle.** Snapshots whose fingerprint and content are read apart, a dataset
  that grows, promotions of different decisions of one strategy. Correct when
  what is promoted had its evidence and exactly one promotion takes place.
* **Variant experiment.** Leases that are taken over while their worker may still
  write, three runs chained by what they select, a partition frozen by the length
  of a dataset that grows, and a ranking over measurements that may be infinite or
  undefined. Correct when what was decided (lock, evidence, outcome, validation)
  is never undone, whoever writes last.
* **Router.** A decision gathers strategies in successive queries and stores one
  answer; strategies retire and the market moves between any two of them.
* **Acquisition.** Three parties (scheduler, collector, whoever reads) meet in
  files; a response may come late, twice or revised, and bars are files before
  they are rows. Correct when what finished requests delivered is final and
  extended only behind its end, nothing but a request answered anew can leave a
  hole, and otherwise the rows never promise more than the files hold.
* **Candle kernel.** Pure, but written twice: a streaming evaluator with a bounded
  history beside a batch one, and a single-pass ledger beside the loop it
  replaced. Correct when each pair agrees and nothing looks ahead.

`PROJECT.json` lists the hazards at their lines, each with the property that covers it.

## Modules

| Module | Models | How it corresponds |
|---|---|---|
| `GenericFiles` | the FILE_COMMON directory | manifest, configurations, control, acknowledgements. Replacing a file is one step, as `os.replace` is |
| `GenericPublication` | `generic_mt5_publications.py`, the lock of `main.py` | `service`: committed rows, the lock, and a request per worker with the row its session loaded. One action per stretch between two database answers or file operations: `Begin…`, `WriteConfig`, `WriteManifest`, `ReadbackManifest`, `Commit…`; any of them may end in an I/O error, and `Crash` empties every request |
| `ArkanaEngine` | reload and control of `ARKANA_ENGINE.mq5` | `engine`: what is loaded, whether entries are blocked, the candidate between reading the manifest and reading its configuration |
| `GenericDemoChain` | both, over the same files | the composed system and its properties; `installed` is a history variable |
| `PublicationLedger` | what a publication promises | the abstract specification: a record is issued, acknowledged, failed or blocked, once each. `GenericDemoChain` implements it (`KeepsLedger`) |
| `DemoDeployment` | `deployments.py`, `write_config`, the terminal's `LoadConfig` | `temp`, `live`, `journal`, `rows`, a request per worker. A handle that outlives the rename of its file is modelled: what it writes appears in the file under its new name |
| `DemoGovernance` | telemetry, forward evidence, chain verification, incidents, journal, learning, readiness, acceptance | one set or sequence per table, `file` with the terminal's counter. A request that inserts what it computed from one read is one step; sync, incident and confirmation are cut between check (or committed block) and insert. `POLICY` is the table of severities and recovery sources, reduced to one reason of each kind |
| `EdgeSearchGrid` | the frozen grid of `edge_search.py`, the contract of a point, capability blocks | operators: `GridRecord`, `Points`, `Contract`, `Restrict`, `Ready` |
| `EdgeSearch` | campaign after its pre-registration | ledgers `trials`, `openings`, `outcomes`, `conclusion`; a request per worker cut at each commit |
| `EdgeSearchVerification` | `create`, `edge_search_verification.py`, `edge_search_breadth.py` around the campaign | EXTENDS both: the verifier's five queries are five steps between which the campaign moves; registry releases, growth and promotions are the world's steps |
| `ValidationLifecycle` | decision to retirement | one variable per table, `version` for the dataset; each endpoint a read step and a commit step, with what it read kept in the request |
| `LifecycleVerification` | the verifier beside the lifecycle | EXTENDS the lifecycle; fingerprint and checks are two reads |
| `VariantExperiments` | the life of one declared experiment | one record per row, a lease as state of the record, revisions and evidence of final OOS; `rows` is the dataset's length, partitions are computed from it as `split_bounds` does. A row whose heartbeat is old is taken over whether or not its worker is alive; the history variable `overtaken` remembers that one was. What a stage selects is a choice: the abstract machine of the next module |
| `VariantSelection` | normalization and assessment of a declaration, the matrix, comparison, gate and ranking | operators over replays; a number keeps how it was written, since contracts are checksummed as text |
| `DeclaredExperiment` | the experiment that decides by these rules | EXTENDS both; `DeclareContract` is `create`, and every step is one of `VariantExperiments` (`ImplementsExperiment`) |
| `StrategyRouter` | `strategy_router_*.py` | eligibilities, decisions, parameters and verifications as rows that keep what they saw; a request reads lifecycle, market and bars of each candidate in steps of their own. The market's `sync` goes through SYNCING, UP_TO_DATE, FAILED and MT5_UNAVAILABLE as the sync state does |
| `HistoricalSync` | `mt5_acquisition.py`, the fragments of `market_data.py`, the collector | rows and files apart (`datasets`, `disk`), one tick in progress in `worker`, the collector's three writes; a bucket stands for the five higher timeframes. A fragment is named by its request, so a second answer to one request replaces the first's file; `refilled` remembers which requests that happened to |
| `CandleRules` | rule blocks of `completed_candle_evaluator.py` | operators over the completed candles of each timeframe, and `RequiredLookback` |
| `CandleReplay` | `StreamingCompletedCandleEvaluator`, `simulate_kernel`, the regimes and metrics of `oos_validation._evaluate` | one action is one turn of the kernel's loop with its callbacks; the batch evaluator and the legacy loop are the reference definitions |
| `…Proofs` | | theorems of the module they extend |
| `MC…` | | constants and symmetry for TLC |

A request is cut where another one can come between: at a commit, at a query whose
result a later statement uses, at a file operation. What lies between two cuts is
one action, with every check and early return of the code as a guard. What an
input carries is reduced to what decides: a payload that fails a pure check
changes nothing and is left out, a fingerprint is the tuple it hashes, the
outcome of an evaluation is chosen from the outcomes the code can store.

## Runs

| Run | Instance | Shows |
|---|---|---|
| `chain` | 2 workers, 2 publications of one configuration, crashes and I/O errors anywhere; two requests race between two reloads, or one request races a reload of a terminal that may have a legacy configuration (`MCRaces`) | the safety of the chain and the invariant of the proofs |
| `chain_liveness` | 1 worker, two target accounts and configurations, fairness | the chain implements `PublicationLedger`; blocks reach the terminal, manifests are acknowledged or superseded, the lock is given back |
| `block_race` | 2 workers, 1 publication, 2 reasons | *violated*: a block is immutable |
| `demo_deployment` | 2 workers, 2 deployments, 2 contracts of which one is for another chart | what runs is approved, what is active was loaded, a rollback is to something known; a stop arrives |
| `governance` | four instances in one run, chosen initially. *Recovery*: 2 workers, 1 incident, 2 rows, 2 journal items, one disturbance (lost counter, Owner's block, crash). *Learning*: the same with 1 proposal, 1 item of each kind, a crash the only disturbance. *Readiness*: 1 worker, a recovered terminal's file, 1 assessment, 1 acceptance, then an incident or a retirement. *Drift*: the same, then another row | rows are a prefix of the file, a block has its incident, recovery follows the acknowledgement, a proposal stops at an open incident, a READY gone stale stays stale |
| `edge_search` | 2 points, budget 1, 2 requests of which one may be the verifier (alone once the dataset has grown), 2 breadth rows | budget, paid openings, ground of a verdict; a PASSED verification agrees with the ledgers, a FAILED one has a ground; breadth selection is determined |
| `validation_lifecycle` | 2 decisions, 2 workers, 2 reasons, the dataset grows once; two requests race, or one request races the verifier (`MCRaces`) | eligibility has its ground, one promotion wins, evidence is never rewritten, the status moves forward, the verifier agrees with promoted and retired strategies |
| `variant_experiments` | 2 workers, 3 variants of which 2 is the baseline, lengths 5, 6, 7, 4 declarations, 2 strategies, 8 holdouts | lock and evidence together, evidence on the frozen partitions, final OOS only behind lock and confirmation, no decision undone by a worker that lost its lease, finished rows unchanged until one did, the selected variant beaten by none, refinement |
| `strategy_router` | 2 strategies that collide on one bar; one worker and two changes of the world, or two workers and one change each | what is READY rests on one market, nothing stale becomes READY or PASSED, an eligible snapshot gone stale stays so through failing syncs, rows are immutable |
| `historical_sync` | a snapshot of 3 minutes that grows to at most 6, 2 requests, 2 faults, 1 revised bar, 2 datasets | holes only by the replacement of a fragment, finished history append-only, rows ahead of no file until then, overlapping fragments agree, answers are consumed |
| `candle_replay` | every sequence of up to six candles out of five shapes, two calendars, two context assets, seven contracts | streaming against batch, single-pass ledger against the legacy loop, metrics against the ledger, no look-ahead |
| `legacy_direction` | the same markets, one contract with the legacy direction shape on the execution timeframe | *violated*: the two evaluators agree |

Some invariants are conjunctions that one run checks together; their parts are
defined, and commented, each on its own.

| Invariant | Parts beside the type invariant |
|---|---|
| `IInv` (`GenericDemoChain`) | `ManifestPointsToConfig`, `BlockedWasInstalled`, `ControlRecorded`, `LockSound`, `PublishersExclusive`, `ReadbackSeesOwnWrite`, `LoadedSound`, `RequestSound` |
| `IInv` (`EdgeSearch`) | `BudgetRespected`, `NoRepeatedSequence`, `FinalOosIsPaidFor`, `VerdictHasGround`, and what requests in flight know |
| `CampaignInv` | that `IInv`, `PassedRowAgrees`, `FailureHasGround`, and what makes them inductive: `CampaignSound`, `AuditSound`, `RowsSound`, `BreadthSound` |
| `IInv` (`ValidationLifecycle`) | `EligibilityHasGround`, `PromotionIsExact`, `RetirementIsExact`, `RequestSound` |
| `IInv` (`VariantExperiments`) | always: `RowsSound`, `EvidenceIsOnFrozenSplit`, `ValidationIsEarned`, `RequestSound`; until a worker is overtaken: `TablesSound` (finished rows with evidence, confirmation and revision agree, a verdict has ground), `LeaseIsKept`, `VerifierSound` |
| `DeploymentInv` | `ConfigSound` of every copy, `ActiveWasLoaded`, `RunsApprovedOnly`, `RollbackIsKnownGood` |
| `VerifierInv` | `TransitionsVerify`, `CheckSound` |
| `GovernanceInv` | `EventsArePrefix`, `EvidenceItemsStayVerified`, `RecoveryPredatesBlock`, `OneDraftPerConfirmation`, and what makes them inductive: `TelemetrySound`, `RowsSound`, `LearningSound` |
| `RouterInv` | `ReadyRestsOnOneMarket`, `StaleNeverBecomesReady`, and what makes them inductive: `SourcesSound`, `DecisionsSound`, `ArtifactsSound`, `RequestSound` |
| `RegistryInv` | `HolesOnlyByReplacement`, `RegistryNeverAhead`, `FragmentOrderIsInert`, `UpToDateMeansNoOpenRequest`, and what makes them inductive: `Kept` and `OrderKept` always, `DatasetsSound`, `RequestsSound`, `TickSound` while no fragment was replaced, `DatasetsExact` and `WrittenOnce` without faults |
| `KernelInv` | `OnePositionAtATime`, `MetricsMatchLedger` |

**Why the bounds are enough.** Every check of the code is about one row and at most
one competitor: two workers give each pair of operations every interleaving, and
a third would only repeat what one of the two does. Two publications give a retry
and a foreign file. Two campaign points and a budget of one give an opening that
fits, one that does not, and two requests that race for the last unit; in
`edge_search` breadth is measured in quiet before the first opening, no request
follows a verification row, and behind a release, a promotion or (for the
verifier) a grown dataset one request runs alone: each is a conjunct of
`MCBounds`, and each cuts steps that commute with what follows. In `chain` a
reload, which reads manifest, configuration and control in successive steps,
races one request at a time: the two requests that race for the lock meet the
terminal only through files. Three variants give a baseline, a winner
and a loser, and the eight holdouts hold ties, a factor that is infinite, one that
is undefined and a variant below the gate. Lengths 5, 6 and 7 of the dataset are
chosen for `split_bounds`: 5 and 6 have the same train and holdout partitions, 7
has others, so growth is once harmless and once not. Behind an overtaken worker
`MCBounds` allows no further lapse, no growth to 7 rows, no foreign registration
and two of the eight holdouts: what that worker may still write (its heartbeats,
its selection, its error) does not depend on them. `MCRaces` in
`validation_lifecycle` cuts behaviours with more than two eligibility snapshots
(two that compete, or one that has gone stale and its successor) and lets the
verifier, which writes nothing another part reads, race one request at a time. In `governance` one disturbance is enough for any of the
races a record can lose; the four instances share no state because nothing a
READY report rests on is left while an incident is being recovered, and a
proposal waits for incidents whatever they were recovered with. In
`strategy_router` the changes are divided among the workers that serve
(`MaxChanges \div |Serving|`): with two requests at a time a single change already
falls between any two of their queries (`MCBounds` leaves a cohort of two to one
request at a time, whose snapshots were taken up to date; a lone snapshot may have
been taken in any state of the synchronization). In `historical_sync` three minutes beyond the snapshot complete the
bucket it ends in and a whole one (a fault, a revision and a bootstrap cost the
market one of them each), two
requests are one that is answered late and its successor, and two faults are what
a refused answer takes: a crash behind a written fragment, and a terminal that
answers again after the broker revised the bar. In `candle_replay` six candles are a
signal, an entry, an exit, the candle after it and two of context; longer markets
repeat these. `MaxVersion`, `MaxDeployments`, `MaxEligibilities`, `MaxDecisions`,
`Horizon`, `MaxJobs`, `MaxBreadthRows` and `Bounds` are the other bounds; each is
a guard named in its module. The proofs do not have them, apart from those that
are part of the code (the budget).

**Fairness.** Safety runs assume none. `FairSpec` of `GenericDemoChain` assumes that
a worker goes on with its request (a synchronous function on a thread: no lock
but `_publication_lock`, which is always released), that the timer of the
terminal keeps firing (`OnInit` sets it and `OnTimer` reloads), and, strongly,
that opening a file the other side is writing does not fail for ever. Crashes
stay allowed; nobody is obliged to publish, poll or block. `FairSpec` of
`DemoDeployment` assumes only that a reload which stays possible happens. The
specification of `HistoricalSync` assumes that the scheduler thread, as long as it
lives, keeps ticking (`historical_scheduler` sleeps and loops), that a tick goes
on, and that the collector's timer fires; faults are bounded by `MaxFaults`.

**One assumption of a model.** `BootstrapAnytime = FALSE` says that the Owner
bootstraps only while no request is open; with `TRUE`, a second bootstrap after
growth makes a shorter dataset the active one while an answer for the longer one
is open, and TLC finds `HolesOnlyByReplacement` violated. Nothing is assumed of
the leases of a variant run: a worker that goes without a heartbeat for longer
than its lease is taken over and goes on writing. Heartbeats come after each
whole variant, and the confirmation's final OOS has none at all.

## Disagreements found

Two runs show the code doing what a document or a comment says it does not;
`PROJECT.json` has the quotations.

`block_race`: two requests that loaded one publication before either committed.
The later commit rewrites the immutable reason, or lifts the block back to
DEMO_ACKNOWLEDGED.

`legacy_direction`: a CANDLE_DIRECTION leaf in the legacy previous/current shape
reads two candles (`completed_candle_evaluator.py:132`), and `_block_lookback`
declares one for it (line 469). On the execution timeframe the deque of the
streaming evaluator holds one candle more than declared, and that one is the entry
candle, which is not complete at the decision. So the streaming evaluator never
answers true where the batch evaluator does: the historical evidence of such a
contract has no trade, its quick backtest has some. The assessment accepts the
shape. On a context timeframe the spare candle is a complete one, and the two
agree; this is what `NoLegacyPairs` in the proofs says, and why it is needed.

Read in the models and followed there by hand, without a run of their own. Where
a document is quoted it says otherwise; the others are worth knowing of.

*Publication and governance*

* One control file serves all publications: blocking a second one unblocks the
  first on a terminal that still runs it
  (`docs/SPRINT_20_05_OWNER_DEMO_UI_AND_VERIFIER.md:25-26`).
* A WAITING publication that is blocked keeps an acknowledgement of only
  `entry_control`, and polling it raises. Requests with one key may both store
  PRESERVED rows. The terminal's sequence counter is a global variable named by
  the configuration's checksum, so two publications share one.
* The expert advisor never writes the codes recovery and READY need (`OK`,
  `HEALTHY`, `FRESH`, `RESTART_RECOVERED`, `ENTRY_CONTROL_OK`,
  `TELEMETRY_RECONCILED`); with it, incidents that need a telemetry source cannot
  be resolved. The model lets the terminal write them: they are what
  `governance_incidents.py` waits for.
* After a block no sync of that publication's rows succeeds, since every row is
  validated again (`generic_forward_telemetry.py:139`). A GENERIC_PUBLICATION
  journal item fails for good after the status changes, and when the process dies
  between the block and its incident, the incident can no longer be recorded from
  that source. `chain_exact` compares instants to the microsecond.

*Lifecycle and campaign*

* A synced bar makes a verified chain ineligible for good
  (`generic_evidence_verification.py:63`, against the comment at 170-171).
* A lifecycle verdict's fingerprint leaves out some of its sources.
* `open_and_evaluate` never looks at the conclusion
  (`edge_search_final_oos.py:84`): openings stay legal after NO_EDGE_FOUND, and a
  later pass contradicts the verdict; a verdict may also be recorded while another
  opening is being evaluated. A PASSED verification may then conclude
  EDGE_CANDIDATE_FOUND without a passing outcome in its list.
* After a registry rollback `materialize` reuses the older row, and the newest row
  still says FAILED. A legitimate promotion makes every later verification FAILED.
  `create` may register a campaign on a dataset that has just grown. The same grid
  under a new dataset has a budget of its own.

*Variants*

* A verification taken while a confirmation is unfinished is the verdict for good
  (`variant_experiment_verification.py:178`, against
  `docs/SPRINT_15_VARIANT_EXPLORER.md:559-561`).
* A baseline distance written as a whole number passes the assessment, but no
  variant has its checksum; `generate_matrix` raises and the run stays RUNNING
  (`variant_train_runs.py:87`, against `docs/SPRINT_15_VARIANT_EXPLORER.md:37`).
* Variants tied in their worst case are ranked by fingerprint, so a variant
  dominated in the other scenario can be selected. `SelectedIsUnbeaten`
  therefore asks that nothing be better in every scenario. Dataset and bars are read apart in `create`: a sync in between
  makes a contract that can never train.
* A recovered confirmation evaluates final OOS again, on the grown dataset.
* A worker that outlived its lease is never told. Its heartbeat
  (`variant_train_runs.py:269-274`) and its error (308-320) rewrite the row by
  primary key after the worker that took over has completed it, where
  `docs/SPRINT_15_VARIANT_EXPLORER.md:186` says "concurrency produces one immutable
  completed winner" and 209-210 "one immutable `COMPLETED` winner". A holdout that
  loses its evidence so can never complete again, because its lock exists. The run
  `variant_experiments` reaches all of this; asked whether finished rows never
  change, without the condition `~overtaken'`, TLC finds the takeover, the
  completion by the second worker and the overwriting by the first within 15
  steps. `DecisionsSurviveLostLeases` says what survives.

*Router, acquisition, candles*

* A snapshot of a strategy that was not eligible because the market was SYNCING or
  had failed is stale in the next state of the sync and exact again when that state
  comes back with the same `last_successful_sync_at`; `StaleForGood` is therefore
  about eligible snapshots.
* A cohort is evaluated on later bars than it was rechecked on. A blocked
  candidate does not prevent LONG. The first parameters of a decision are final,
  BLOCKED ones too, and a retry with better inputs is refused as different. A PASSED
  verification is returned after retirement; `SafetyPassedIsCurrent` is about the
  audit, which recomputes. Freshness is relative to an instant the caller names.
* A fragment's name is that of its request (`mt5_acquisition.py:139`, 157) and
  writing replaces a file of that name (`market_data.py:238-245`). When a request
  has written its fragment and stays open (a crash or an I/O error before the
  commit) and is answered again, later, its answer counts as new only what is not
  on disk, and the file that held the rest is replaced: those bars are lost, where
  `market_data.py:239` says "Append a self-contained immutable fragment" and
  `ARKANA_Codex_Handoff_v1/docs/02_TECHNICAL_ARCHITECTURE.md:129` "syncs append
  immutable fragments". `HolesOnlyByReplacement` says that nothing else loses bars,
  `FinishedHistoryIsAppendOnly` that a finished request never does.
* An `OSError` in a scheduled tick commits a half-done append
  (`scheduler_tick`, 290-296, against `mt5_acquisition.py:160`). A crash between
  `_migrate_legacy_assets` and its commit leaves rows that name a moved file, and
  the scheduler thread dies on it. `RegistryExactWithoutFaults` therefore asks
  that there was no fault.
* A rule without enough context is false, so its negation is true. `_full_regime_breakdown` labels an entry with the close of its own
  candle, unlike the path `RegimeIsKnownAtEntry` checks.

## Proofs

TLAPS checks all of them from the assumptions declared next to the constants
(finite or non-empty sets, numbers, markers that differ from what they mark; no
bound on workers, publications, points, decisions or contracts).

* **`GenericDemoChainProofs`.** `IInv` adds to the safety properties what a
  request in flight knows: the row it holds is a committed one or its own
  proposal (`RequestSound`), whoever is past taking the lock is its owner
  (`LockSound`, `PublishersExclusive`), the file it is about to read back is the
  one it wrote (`ReadbackSeesOwnWrite`), and what the terminal has loaded was
  issued to it (`LoadedSound`). Without the middle two, `ManifestPointsToConfig`
  is not inductive: another writer could stand between configuration and
  manifest. Each action is a lemma over the variables it changes. With one worker
  the row a request decides on is still the committed one when it writes
  (`SeenIsCommitted`), and a row has a request from its commit and a reason from its
  block (`RowsSettled`); so every commit is a step of `PublicationLedger`, and
  everything else, crashes and I/O errors included, leaves the ledger alone
  (`LedgerIsKept`). Consequences of
  `IInv` that have theorems of their own, such as `RunsOnlyIssuedLocalConfig`,
  need no run beside that of `IInv`.
* **`EdgeSearchProofs`.** Counting openings and inserting the next are two
  statements; `BudgetRespected` holds because the sequence number taken from the
  count is unique in the table. `OpeningSound` relates a request's count to
  the number it will insert, and `NoRepeatedSequence` turns the bound on numbers
  into a bound on openings; the cardinality argument is a lemma. The registered
  campaign then implements this one (`CampaignImplementsSearch`: every step of the
  verifier, of breadth and of the registry leaves the ledgers alone), and
  `CampaignInv` is proved on top of it: openings, outcomes and decisions only
  grow, so what the verifier's first queries found is still there at its last
  (`AuditSound`), which is why five unlocked reads cannot pass an empty verdict
  beside a gate that passed, and can fail only for a ground.
* **`HistoricalValidationProofs`, the lifecycle.** `RequestSound` says that what a request read of
  a decision, its acknowledgement and its verification is still there: these
  tables are append-only, so only the status and the dataset can have moved. This
  is why reading fingerprint and assessment apart does no harm, and why the
  conditional UPDATE is needed to exclude a second promotion. The verifier beside
  the lifecycle follows: `CheckSound` says that a check begun
  about a promoted or retired strategy stays right whatever happens before it
  commits.
* **`HistoricalValidationProofs`, the candle replay**, for every contract the
  assessment accepts, every market, calendar and context asset in the order of time
  (the order `iter_bars` reads a registered asset in, one row for each timestamp:
  `market_data.py:129`, 376-388). `ReplayInv` says what the kernel remembers: the
  split so far (`Fed`), each bounded history the last indices of what was seen of
  its timeframe, as many as declared and one more (`Histories`), trades and the
  open position one behind the other (`Books`), the label before the entry
  (`Labelled`), and the accumulator in closed form (`Measured`: the fall from the
  peak is the worst run of trades that ends now, the losing streak the longest one
  that ends now; without these two the drawdown and the longest streak are not
  inductive). `KernelInv` and `RegimeIsKnownAtEntry` follow.
  Two more invariants rest on it. `Answered`: what a leaf of the declared lookback
  reads of a bounded history it reads of the whole split (`LeafAlike`, `AtrAlike`),
  so every signal is answered as the batch evaluator answers it
  (`StreamingIsBatch`). `Ledgered`: the open position is the one that a loop over
  the whole market has open after the same candles, each trade written is the one
  it takes at that signal, trades lie apart, and no eligible signal has been passed
  over outside a trade; a SHORT position is a LONG one on the mirrored market.
  At the end of the data the legacy loop, turned once for every candle, stands
  behind the first trades of the ledger after each turn (`Loops`, `TurnIs`) and
  behind all of them after the last: the two ledgers are equal (`LedgerIsLegacy`).
  The latter two theorems have the hypothesis `NoLegacyPairs`: no contract has the
  legacy direction shape on the execution timeframe, where they are false (see
  `legacy_direction`).
  Sums, chosen subsequences and the legacy loop are functions defined by recursion;
  that such a function has its values for every argument is proved without an
  induction theorem: a set that has 0 and, up to N, with each number the next has
  all of 0 .. N, because the greatest m with 0 .. m in it must be N; that a greatest
  one exists is the pigeonhole principle (`GreatestExists`, `StepByStep`,
  `Iterated`, `Alike`).
* **`DemoDeploymentProofs`.** `ConfigSound` is carried by the temporary file, the
  file the terminal reads, and every request; a mixture of two writes never
  passes the checksum and is the value `Garbled`, which nothing loads.
* **`VariantExperimentsProofs`.** No lease is assumed, so the invariant has two
  parts. What holds whoever writes last: `RowsSound`, `EvidenceIsOnFrozenSplit`
  and `ValidationIsEarned`, because the writes that matter are inserts under unique
  keys or conditional on them, and `RequestSound`, which says what a request has
  seen that cannot be taken back (a lock, an outcome, a baseline on the frozen
  partition). What holds until a worker is `overtaken`: `LeaseIsKept` (a held row
  is running and held once), and with it the relations between finished rows
  (`TablesSound`) and what a verification has seen (`VerifierSound`); the first
  takeover of a live worker ends them, and nothing in the first part needs them.
  `DecisionsSurviveLostLeases` follows, unconditionally. For
  the experiment that decides by the rules, `RecordRecomputes` says that the
  contract recomputes from the lineage it names and the selection from the replays
  stored with it; so a verification by recomputation agrees with the stored chain,
  and every step of `DeclaredExperiment` is one of `VariantExperiments` or leaves
  its state alone (`DeclaredRefinement`). `IInv` and `DecisionsSurviveLostLeases`
  carry over. `SelectedIsUnbeaten` needs no lease: the sort key is a strict total
  order of the variants (their fingerprints differ: `DeclaredAssumption`), so the
  number of variants ahead of one is a place of its own, the ranking lists each
  eligible variant once (`RankingIsSorted`), and nothing is ahead of the first.
* **`StrategyRouterProofs`.** An argument of ranks: a completed synchronization,
  the end of being up to date and every change of what a lifecycle shows raise a
  rank, nothing lowers it, and a row was at most as new as its sources when it was
  stored. Failing and repeated syncs keep the rank while the market moves between
  SYNCING, FAILED and MT5_UNAVAILABLE; an eligible snapshot was taken in none of
  them. So one that is found exact has been exact since it was stored
  (`StaleForGood`), and whatever a request evaluated after it
  rechecked the newest snapshot of its cohort it evaluated on one market
  (`ReadyRestsOnOneMarket`), although it read lifecycle, market and bars of each
  candidate in successive queries. `SafetyPassedIsCurrent` needs no more than that
  the audit recomputes.
* **`HistoricalSyncProofs`**, while the Owner bootstraps only between requests
  (`~BootstrapAnytime`). The invariant has three layers. `Kept` and `OrderKept`
  survive the replacement of a fragment: an answer is a stretch of the market that
  begins at most one minute behind what was delivered before it, so what is new of
  it leaves a hole only where an earlier fragment of the same request stood
  (`HolesOnlyByReplacement`); only an open request's file can change, and no finished
  fragment holds a bar behind a minute still to be requested, unless that minute is
  in a finished fragment too (`FinishedHistoryIsAppendOnly`). `DatasetsSound`, `RequestsSound` and `TickSound`
  hold while `refilled` is empty and give `RegistryNeverAhead`: `Row` and `Settled`
  say what the tick in progress still owes. `DatasetsExact` and `WrittenOnce` are
  about executions without faults, in which every request is answered and written
  once. That a set of minutes is the market up to its
  greatest one is a lemma, with the existence of greatest and least elements and
  counting by keys, which the library does not have.
* **`DemoGovernanceProofs`.** Nothing is ingested before the terminal acknowledged
  its configuration or after a block, and an acknowledgement is never taken back;
  so the rows an evidence item was computed from are the rows it finds when it is
  verified again (`EvidenceItemsStayVerified`, `ReadInTime`). What a sync has read
  continues the stored rows unless another sync stored a row of it meanwhile, and
  then the unique sequence number refuses all of it (`SyncSound`): stored rows are a
  beginning of the file (`EventsArePrefix`) whatever is lost between. `Settled` says
  that an incident recorded after a confirmation's check is not older than the
  check, which is what `NoDraftOverAnOpenIncident` needs of clocks.
  `BlockHasIncident` follows from a reported reason staying reported, in
  the table or in the request about to insert it, unless that request dies. That a
  READY gone stale stays so (`ReadySafety`) is an argument backwards: the events,
  items, incidents and evidence an assessment was computed from only grow
  (`ReportsSound`), its chain binds a stage of the publication that only advances,
  and it saw every blocking incident resolved, which is not taken back. So if it
  verifies after a step nothing it rests on was added by that step, and it verified
  before. The half about acceptances is model-checked only.

Only model-checked: every liveness property and the fairness it needs, which are
outside the prover. `block_race` shows why `LedgerIsKept` speaks of one worker, and
`legacy_direction` why `StreamingIsBatch` and `LedgerIsLegacy` have a hypothesis.

## Not modelled, and why

The components without a module are in `PROJECT.json` with the reason for each:
reports and read-only queries, the web application, the AI gateway and the
migrations keep no state another part depends on; the rest is in the plan below.
Within the modelled parts these are left out: checksums and the wire format
(only whether a file is whole and whose it is), the arithmetic of gates on OOS
and robustness (their outcome is chosen), exponential smoothing and bands among
the rule blocks, validation of payloads other than a declaration, a grid and the
router's inputs, and deletion of files by hand.

## Plan

In this order; each item names what it composes with.

1. `EngineJournal`: engine telemetry (`telemetry.py`, where a fingerprint of one
   second collapses two deals) and trade pairing. Composes with `DemoDeployment`.
2. `CapitalSimulation`: the equity path as a fold over trades, and the
   verification with a lease.
3. Production of OOS and robustness evidence from `CandleReplay`, feeding
   `ValidationLifecycle`.
4. Level and touch events and rule publication.

The modules with theorems declare no RECURSIVE operator; recursion in them is by
functions or folds, so that later proofs stay possible.
