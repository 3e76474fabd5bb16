---------------------------- MODULE HistoricalSync ----------------------------
(***************************************************************************)
(* Incremental acquisition of M1 bars (mt5_acquisition.py, market_data.py) *)
(* from the MT5 collector (ARKANA_DATA_COLLECTOR.mq5) through request and  *)
(* response files.  The service keeps rows (dataset, assets, jobs, state)  *)
(* in the database and the bars in Parquet fragments beside it: files are  *)
(* written before the one commit that registers them, so a crash or an     *)
(* error between the two is a state of its own.                            *)
(*                                                                         *)
(* A minute is a number; a bucket of BucketMinutes stands for the five     *)
(* higher timeframes and is named by its first minute.  A bar's data is    *)
(* its version: 0, or 1 after the broker revised it.                       *)
(***************************************************************************)
EXTENDS Integers, Sequences, FiniteSets, FiniteSetsExt

CONSTANTS
  Sessions,        \* the minutes in which the market may trade: a set of sets
  BaseEnd,         \* the last minute of the exported snapshot
  Horizon,         \* the last minute of the run
  BucketMinutes,
  MaxJobs, MaxFaults, MaxRevisions, MaxDatasets,   \* bounds
  BootstrapAnytime, \* FALSE: the Owner bootstraps only while no request is open
  Schedulers,      \* the triggers a tick may have: "SCHEDULED", "MANUAL"
  None

\* An exported snapshot has a bar.
ASSUME SyncAssumption ==
  /\ Horizon \in Nat /\ BaseEnd \in 1 .. Horizon /\ BucketMinutes \in Nat \ {0}
  /\ \A S \in Sessions : S \subseteq 1 .. Horizon /\ S \cap 1 .. BaseEnd # {}
  /\ MaxJobs \in Nat /\ MaxFaults \in Nat /\ MaxDatasets \in Nat \ {0}

VARIABLES
  traded, now, revised,  \* the market: its minutes, the last completed one, revisions
  requests,              \* request files, by request id
  csv, manifest,         \* response files, by request id
  export,                \* what the collector is exporting
  datasets,              \* Dataset and DatasetBarAsset rows, oldest first
  disk,                  \* their Parquet files
  jobs,                  \* HistoricalSyncJob rows
  state,                 \* the HistoricalSyncState row
  worker,                \* the tick that holds _historical_scheduler_lock
  scheduler,             \* "RUNNING" or "DEAD": the scheduler thread
  faults,
  refilled               \* history: the requests whose M1 fragment was replaced

marketVars    == <<traded, now, revised>>
collectorVars == <<csv, manifest, export>>
rows == <<datasets, jobs, state>>
vars == <<traded, now, revised, requests, csv, manifest, export, datasets, disk,
          jobs, state, worker, scheduler, faults, refilled>>

Ids == 1 .. MaxJobs
Frags == 0 .. MaxJobs     \* the base file and one fragment per request id
Minutes == 1 .. Horizon
Version(m) == IF m \in revised THEN 1 ELSE 0
BarsOf(S) == {[m |-> m, v |-> Version(m)] : m \in S}
MinutesOf(bars) == {b.m : b \in bars}
-----------------------------------------------------------------------------
(* Timeframes *)

Bucket(m) == BucketMinutes * ((m - 1) \div BucketMinutes) + 1
MinutesIn(b) == b .. b + BucketMinutes - 1

\* resample_m1: every bucket that has a bar.
Resampled(ms) == {[b |-> b, of |-> ms \cap MinutesIn(b)] : b \in {Bucket(m) : m \in ms}}

\* resample_completed_m1: only buckets with all their minutes.
ResampledCompleted(ms) == {r \in Resampled(ms) : r.of = MinutesIn(r.b)}
-----------------------------------------------------------------------------
(* Files of a dataset *)

\* The base file of the snapshot, moved once into the fragment directory, and
\* one fragment per request, named by its id.
BaseFiles(ms) ==
  [base |-> "FILE", m1 |-> [i \in Frags |-> IF i = 0 THEN BarsOf(ms) ELSE {}],
   htf |-> {[frag |-> 0, bars |-> Resampled(ms)]}]
M1(files) == UNION {files.m1[i] : i \in Frags}

\* read_frame: what a reader of the rows' path finds, None if nothing is there.
Readable(path, files) == path = files.base

\* A bucket in several fragments is read from the last by file name; request
\* ids are random, so the order among fragments is arbitrary, the base first.
FragmentsOf(files, b) == {f \in files.htf : b \in {r.b : r \in f.bars}}
BucketsOnDisk(files) == UNION {{r.b : r \in f.bars} : f \in files.htf}
ContentsOf(files, b) ==
  LET fs == FragmentsOf(files, b)
      last == IF \E f \in fs : f.frag > 0 THEN {f \in fs : f.frag > 0} ELSE fs
  IN {r.of : r \in UNION {{q \in f.bars : q.b = b} : f \in last}}

\* The rows of a dataset: its assets and the chain of its fingerprint.
NewDataset(ms) ==
  [path |-> "FILE", m1Rows |-> Cardinality(ms), m1End |-> Max(ms),
   htfRows |-> Cardinality(Resampled(ms)), htfEnd |-> Max({r.b : r \in Resampled(ms)}),
   fingerprint |-> <<BarsOf(ms)>>]

Active == Len(datasets)          \* _active_dataset: the newest import
-----------------------------------------------------------------------------
Snapshot == traded \cap 1 .. BaseEnd

Init ==
  /\ traded \in Sessions /\ now = BaseEnd /\ revised = {}
  /\ requests = {} /\ csv = [i \in Ids |-> None] /\ manifest = [i \in Ids |-> None] /\ export = None
  /\ datasets = <<NewDataset(Snapshot)>>
  /\ disk = <<BaseFiles(Snapshot)>>
  /\ jobs = [i \in Ids |-> None]
  /\ state = [status |-> "UP_TO_DATE", latest |-> BaseEnd, error |-> None]
  /\ worker = None /\ scheduler = "RUNNING" /\ faults = 0 /\ refilled = {}

Open == {i \in Ids : jobs[i] # None /\ jobs[i].status = "REQUESTED"}
Used == {i \in Ids : jobs[i] # None \/ csv[i] # None} \cup {r.id : r \in requests}
-----------------------------------------------------------------------------
(* The market and the collector *)

\* Bound: every fault, revision and bootstrap costs the market a minute of the horizon.
MinutePasses ==
  /\ now < Horizon - faults - Cardinality(revised) - (Len(datasets) - 1) /\ now' = now + 1
  /\ UNCHANGED <<traded, revised, requests, collectorVars, rows, disk, worker, scheduler, faults, refilled>>

\* The broker rewrites a bar it has already delivered.
Revise(m) ==
  /\ Cardinality(revised) < MaxRevisions /\ m \in traded \cap BaseEnd + 1 .. now
  /\ revised' = revised \cup {m}
  /\ UNCHANGED <<traded, now, requests, collectorVars, rows, disk, worker, scheduler, faults, refilled>>

\* ExportRequest up to the final CSV.  A request is [id, from]; one whose first
\* minute has not completed is left for a later poll.
ExportCsv(r) ==
  /\ r \in requests /\ export = None /\ now >= r.from
  /\ LET bars == BarsOf(traded \cap r.from .. now) IN
     /\ csv' = [csv EXCEPT ![r.id] = bars]
     /\ export' = [req |-> r, bars |-> bars, pc |-> "MANIFEST"]
  /\ UNCHANGED <<marketVars, requests, manifest, rows, disk, worker, scheduler, faults, refilled>>

ExportManifest ==
  /\ export # None /\ export.pc = "MANIFEST"
  /\ manifest' = [manifest EXCEPT ![export.req.id] =
       [rows |-> Cardinality(export.bars),
        first |-> IF export.bars = {} THEN 0 ELSE Min(MinutesOf(export.bars))]]
  /\ export' = [export EXCEPT !.pc = "DELETE"]
  /\ UNCHANGED <<marketVars, requests, csv, rows, disk, worker, scheduler, faults, refilled>>

DeleteRequest ==
  /\ export # None /\ export.pc = "DELETE"
  /\ requests' = requests \ {export.req}
  /\ export' = None
  /\ UNCHANGED <<marketVars, csv, manifest, rows, disk, worker, scheduler, faults, refilled>>

\* The terminal restarts; a request it had answered is answered again.
TerminalRestart ==
  /\ export # None /\ faults < MaxFaults
  /\ export' = None /\ faults' = faults + 1
  /\ UNCHANGED <<marketVars, requests, csv, manifest, rows, disk, worker, scheduler, refilled>>
-----------------------------------------------------------------------------
(* One tick of the coordinator (process), under the lock *)

MayTick(trigger) == worker = None /\ (trigger = "SCHEDULED" => scheduler = "RUNNING")

\* Slip: the wall clock decides.
RequestedFromNow == now + 1

\* The first minute the dataset lacks.
RequestedFrom == datasets[Active].m1End + 1

\* _create_request: the request file is written between the flush of the job
\* row and its commit.
WriteRequest(trigger, id) ==
  /\ MayTick(trigger) /\ Open = {} /\ id \in Ids \ Used
  /\ \A i \in Ids \ Used : id <= i
  /\ requests' = requests \cup {[id |-> id, from |-> RequestedFrom]}
  /\ worker' = [pc |-> "COMMIT_REQUEST", trigger |-> trigger, id |-> id, from |-> RequestedFrom]
  /\ UNCHANGED <<marketVars, collectorVars, rows, disk, scheduler, faults, refilled>>

CommitRequest ==
  /\ worker # None /\ worker.pc = "COMMIT_REQUEST"
  /\ jobs' = [jobs EXCEPT ![worker.id] = [status |-> "REQUESTED", from |-> worker.from]]
  /\ state' = [status |-> "SYNCING", latest |-> worker.from - 1, error |-> None]
  /\ worker' = None
  /\ UNCHANGED <<marketVars, requests, collectorVars, datasets, disk, scheduler, faults, refilled>>

Answered(i) == csv[i] # None /\ manifest[i] # None

\* No response yet; after the timeout the state says so and the request stays.
Await(trigger) ==
  /\ MayTick(trigger)
  /\ \E i \in Open : ~Answered(i)
  /\ state' = [state EXCEPT !.status = "MT5_UNAVAILABLE", !.error = "NO_RESPONSE"]
  /\ UNCHANGED <<marketVars, requests, collectorVars, datasets, jobs, disk, worker, scheduler, faults, refilled>>

Finished(i, end) ==
  /\ jobs' = [jobs EXCEPT ![i].status = "COMPLETED"]
  /\ state' = [status |-> "UP_TO_DATE", latest |-> end, error |-> None]

\* Slip: nothing newer, nothing to do.
ConsumeEmptyEarlyReturn(trigger, i) ==
  /\ MayTick(trigger) /\ i \in Open /\ Answered(i) /\ manifest[i].rows = 0
  /\ state' = [state EXCEPT !.error = None]
  /\ UNCHANGED <<marketVars, requests, collectorVars, datasets, jobs, disk, worker, scheduler, faults, refilled>>

\* The collector reported no newer completed minute.
ConsumeEmpty(trigger, i) ==
  /\ MayTick(trigger) /\ i \in Open /\ Answered(i) /\ manifest[i].rows = 0
  /\ Finished(i, datasets[Active].m1End)
  /\ UNCHANGED <<marketVars, requests, collectorVars, datasets, disk, worker, scheduler, faults, refilled>>

HasBars(i) == i \in Open /\ Answered(i) /\ manifest[i].rows > 0
CanRead(d) == Readable(datasets[d].path, disk[d])

\* _validate_overlap: a minute on disk with other values is a conflict, with
\* the same values it is known.
Conflicts(bars, d) == {b \in bars : b.m \in MinutesOf(M1(disk[d])) /\ b \notin M1(disk[d])}

Novel(bars, d) == {b \in bars : b.m \notin MinutesOf(M1(disk[d]))}

ConsumeRefused(trigger, i) ==
  /\ MayTick(trigger) /\ HasBars(i)
  /\ manifest[i].first < jobs[i].from \/ (CanRead(Active) /\ Conflicts(csv[i], Active) # {})
  /\ jobs' = [jobs EXCEPT ![i].status = "FAILED"]
  /\ state' = [state EXCEPT !.status = "FAILED", !.error = "DATA_INTEGRITY_CONFLICT"]
  /\ UNCHANGED <<marketVars, requests, collectorVars, datasets, disk, worker, scheduler, faults, refilled>>

\* Every bar is already on disk: the job completes, the rows stay.
ConsumeKnown(trigger, i) ==
  /\ MayTick(trigger) /\ HasBars(i) /\ manifest[i].first >= jobs[i].from
  /\ CanRead(Active) /\ Conflicts(csv[i], Active) = {} /\ Novel(csv[i], Active) = {}
  /\ Finished(i, datasets[Active].m1End)
  /\ UNCHANGED <<marketVars, requests, collectorVars, datasets, disk, worker, scheduler, faults, refilled>>

\* The rows name a file that was moved: DuckDB's error is neither a ValueError
\* nor an OSError and ends the scheduler's thread.
ConsumeUnreadable(trigger, i) ==
  /\ MayTick(trigger) /\ HasBars(i) /\ manifest[i].first >= jobs[i].from /\ ~CanRead(Active)
  /\ scheduler' = IF trigger = "SCHEDULED" THEN "DEAD" ELSE scheduler
  /\ UNCHANGED <<marketVars, requests, collectorVars, rows, disk, worker, faults, refilled>>

\* New bars: the session's copy of the rows is worked on until the commit.
BeginAppend(trigger, i) ==
  /\ MayTick(trigger) /\ HasBars(i) /\ manifest[i].first >= jobs[i].from
  /\ CanRead(Active) /\ Conflicts(csv[i], Active) = {} /\ Novel(csv[i], Active) # {}
  /\ worker' = [pc |-> IF datasets[Active].path = "FILE" THEN "MIGRATE" ELSE "M1",
                trigger |-> trigger, id |-> i, d |-> Active,
                ds |-> datasets[Active], novel |-> Novel(csv[i], Active), combined |-> {}]
  /\ UNCHANGED <<marketVars, requests, collectorVars, rows, disk, scheduler, faults, refilled>>

Appending(pc) == worker # None /\ worker.pc = pc
OnlyAppend == UNCHANGED <<marketVars, requests, collectorVars, scheduler, faults>>

\* _migrate_legacy_assets: the base file becomes the first fragment.
Migrate ==
  /\ Appending("MIGRATE")
  /\ disk' = [disk EXCEPT ![worker.d].base = "FRAGMENTS"]
  /\ worker' = [worker EXCEPT !.pc = "M1", !.ds.path = "FRAGMENTS"]
  /\ OnlyAppend /\ UNCHANGED <<rows, refilled>>

\* The novel bars and the tail before them, read before the fragment is written.
Combined == {m \in MinutesOf(M1(disk[worker.d])) \cup MinutesOf(worker.novel) :
               m >= Min(MinutesOf(worker.novel)) - BucketMinutes}

AppendM1(m1) ==
  /\ Appending("M1")
  /\ disk' = [disk EXCEPT ![worker.d].m1 = m1]
  /\ worker' = [worker EXCEPT !.pc = "HTF", !.combined = Combined,
                  !.ds.m1Rows = @ + Cardinality(worker.novel),
                  !.ds.m1End = Max({@, Max(MinutesOf(worker.novel))})]
  /\ OnlyAppend /\ UNCHANGED rows

\* Slip: one fragment name for every request, the later replaces the earlier.
WriteM1Replacing ==
  /\ AppendM1([i \in Frags |-> CASE i = 0 -> disk[worker.d].m1[0] [] i = worker.id -> worker.novel [] OTHER -> {}])
  /\ UNCHANGED refilled

\* The fragment carries the id of the request: a request answered a second time,
\* after a crash or an error, replaces the fragment of the first.
WriteM1 ==
  /\ AppendM1([disk[worker.d].m1 EXCEPT ![worker.id] = worker.novel])
  /\ refilled' = IF disk[worker.d].m1[worker.id] = {} THEN refilled ELSE refilled \cup {worker.id}

\* Slip: the novel bars alone, without the tail before them.
DerivedFromNovel ==
  {r \in ResampledCompleted(MinutesOf(worker.novel)) : r.b >= worker.ds.htfEnd - BucketMinutes}

\* The buckets completed by the novel bars and the tail before them; the
\* boundary is one bucket behind the first novel bar and the registered end.
Derived == {r \in ResampledCompleted(worker.combined) : r.b >= worker.ds.htfEnd - BucketMinutes}

WriteHtf ==
  /\ Appending("HTF")
  /\ LET new   == {r \in Derived : r.b > worker.ds.htfEnd}
         other == {f \in disk[worker.d].htf : f.frag # worker.id} IN
     /\ disk' = IF Derived = {} THEN disk
                ELSE [disk EXCEPT ![worker.d].htf = other \cup {[frag |-> worker.id, bars |-> Derived]}]
     /\ worker' = [worker EXCEPT !.pc = "COMMIT",
                     !.ds.htfRows = @ + Cardinality(new),
                     !.ds.htfEnd = Max({@} \cup {r.b : r \in new}),
                     !.ds.fingerprint = Append(@, worker.novel)]
  /\ OnlyAppend /\ UNCHANGED <<rows, refilled>>

CommitAppend ==
  /\ Appending("COMMIT")
  /\ datasets' = [datasets EXCEPT ![worker.d] = worker.ds]
  /\ Finished(worker.id, worker.ds.m1End)
  /\ worker' = None
  /\ OnlyAppend /\ UNCHANGED <<disk, refilled>>

(***************************************************************************)
(* A fragment cannot be written.  scheduler_tick catches an OSError and    *)
(* commits its report with whatever the session has changed so far; every  *)
(* other way out rolls the session back, and ends the scheduler's thread.  *)
(***************************************************************************)
WriteFails ==
  /\ Appending("M1") \/ Appending("HTF")
  /\ faults < MaxFaults
  /\ \/ /\ worker.trigger = "SCHEDULED"
        /\ datasets' = [datasets EXCEPT ![worker.d] = worker.ds]
        /\ state' = [state EXCEPT !.status = "MT5_UNAVAILABLE", !.error = "WRITE_FAILED"]
        /\ UNCHANGED scheduler
     \/ /\ scheduler' = IF worker.trigger = "SCHEDULED" THEN "DEAD" ELSE scheduler
        /\ UNCHANGED <<datasets, state>>
  /\ worker' = None /\ faults' = faults + 1
  /\ UNCHANGED <<marketVars, requests, collectorVars, jobs, disk, refilled>>

\* The service stops between two steps and starts again.
Restart ==
  /\ worker # None \/ scheduler = "DEAD"
  /\ faults < MaxFaults \/ worker = None
  /\ faults' = IF worker = None THEN faults ELSE faults + 1
  /\ worker' = None /\ scheduler' = "RUNNING"
  /\ UNCHANGED <<marketVars, requests, collectorVars, rows, disk, refilled>>

(***************************************************************************)
(* bootstrap takes no lock: a snapshot with the fingerprint of a dataset   *)
(* is reused, any other becomes a new dataset, the newest and so the       *)
(* active one.  A dataset that grew has another fingerprint than its       *)
(* snapshot.                                                               *)
(***************************************************************************)
MayBootstrap == BootstrapAnytime \/ (Open = {} /\ worker = None)

Bootstrap(end) ==
  LET S == traded \cap 1 .. end IN
  /\ MayBootstrap /\ end \in {BaseEnd, now}
  /\ IF \E d \in DOMAIN datasets : datasets[d].fingerprint = <<BarsOf(S)>>
     THEN UNCHANGED <<datasets, disk>>
     ELSE /\ Len(datasets) < MaxDatasets
          /\ datasets' = Append(datasets, NewDataset(S))
          /\ disk' = Append(disk, BaseFiles(S))
  /\ state' = [status |-> "UP_TO_DATE", latest |-> Max(S), error |-> None]
  /\ UNCHANGED <<marketVars, requests, collectorVars, jobs, worker, scheduler, faults, refilled>>
-----------------------------------------------------------------------------
Tick(trigger) ==
  \/ \E id \in Ids : WriteRequest(trigger, id)
  \/ Await(trigger)
  \/ \E i \in Ids : \/ ConsumeEmpty(trigger, i) \/ ConsumeRefused(trigger, i)
                    \/ ConsumeKnown(trigger, i) \/ ConsumeUnreadable(trigger, i)
                    \/ BeginAppend(trigger, i)

TickStep == CommitRequest \/ Migrate \/ WriteM1 \/ WriteHtf \/ CommitAppend
Collector == (\E r \in requests : ExportCsv(r)) \/ ExportManifest \/ DeleteRequest

Next ==
  \/ MinutePasses \/ (\E m \in Minutes : Revise(m))
  \/ Collector \/ TerminalRestart
  \/ (\E trigger \in Schedulers : Tick(trigger)) \/ TickStep
  \/ WriteFails \/ Restart
  \/ (\E end \in Minutes : Bootstrap(end))

(***************************************************************************)
(* Fairness: the scheduler polls every few seconds as long as its thread   *)
(* lives, a tick runs to its end, and the collector's timer polls.  The    *)
(* market, faults, restarts and the Owner are not fair.                    *)
(***************************************************************************)
Fairness ==
  /\ WF_vars(Tick("SCHEDULED")) /\ WF_vars(TickStep) /\ WF_vars(Collector)

Spec == Init /\ [][Next]_vars /\ Fairness
-----------------------------------------------------------------------------
BarSets == SUBSET [m : Minutes, v : {0, 1}]

Requests == [id : Ids, from : Nat]
Manifests == [rows : Nat, first : Nat]
Jobs == [status : {"REQUESTED", "COMPLETED", "FAILED"}, from : Nat]
States ==
  [status : {"UP_TO_DATE", "SYNCING", "FAILED", "MT5_UNAVAILABLE"}, latest : Nat,
   error : {None, "NO_RESPONSE", "DATA_INTEGRITY_CONFLICT", "WRITE_FAILED"}]

TypeOK ==
  /\ traded \in Sessions /\ now \in BaseEnd .. Horizon /\ revised \subseteq Minutes
  /\ requests \subseteq Requests
  /\ csv \in [Ids -> BarSets \cup {None}] /\ manifest \in [Ids -> Manifests \cup {None}]
  /\ export \in [req : Requests, bars : BarSets, pc : {"MANIFEST", "DELETE"}] \cup {None}
  /\ jobs \in [Ids -> Jobs \cup {None}]
  /\ state \in States /\ scheduler \in {"RUNNING", "DEAD"} /\ faults \in 0 .. MaxFaults
  /\ refilled \subseteq Ids

OnDisk(d) == MinutesOf(M1(disk[d]))

\* The minutes answered to a request whose fragment was replaced.
Replaced == UNION {MinutesOf(csv[i]) : i \in refilled}
Covered(t) == \A m \in traded : m <= t => m \in OnDisk(Active) \cup Replaced

\* The M1 bars of the active dataset are those of the market up to the last of
\* them, since the next request begins where they end.  A hole can only be left
\* by the replacement of a fragment, which loses what the request had delivered
\* before; whatever else is interrupted or retried leaves none.
HolesOnlyByReplacement == Covered(Max(OnDisk(Active)))

\* Files come before rows: while no fragment was replaced, the rows never promise
\* bars that are not on disk.
RegistryNeverAhead ==
  refilled = {} =>
    \A d \in DOMAIN datasets :
      /\ datasets[d].m1Rows <= Cardinality(OnDisk(d)) /\ datasets[d].m1End \in OnDisk(d)
      /\ datasets[d].htfRows <= Cardinality(BucketsOnDisk(disk[d])) /\ datasets[d].htfEnd \in BucketsOnDisk(disk[d])

\* Fragments are read in the order of random request ids: wherever two of them
\* hold the same bucket they agree, and only the snapshot's last bucket is partial.
FragmentOrderIsInert ==
  \A d \in DOMAIN datasets : \A b \in BucketsOnDisk(disk[d]) : Cardinality(ContentsOf(disk[d], b)) = 1

Completed == {i \in Ids : jobs[i] # None /\ jobs[i].status = "COMPLETED"}

\* What the snapshot and finished requests delivered is final, through crashes,
\* retries, late answers and revisions: their files never change again, and new
\* bars come behind all bars of the snapshot and of completed requests.
FinishedHistoryIsAppendOnly ==
  [][\A d \in DOMAIN datasets :
       /\ \A i \in Frags \ Open : disk'[d].m1[i] = disk[d].m1[i]
       /\ \A b \in M1(disk'[d]) \ M1(disk[d]) :
            \A i \in Completed \cup {0} : \A c \in disk[d].m1[i] : c.m < b.m]_vars

\* Without a fault the rows count what is on disk, and every bucket that has
\* all its minutes is there.
RegistryExactWithoutFaults ==
  faults = 0 /\ worker = None =>
    \A d \in DOMAIN datasets :
      /\ datasets[d].m1Rows = Cardinality(OnDisk(d)) /\ datasets[d].m1End = Max(OnDisk(d))
      /\ datasets[d].htfRows = Cardinality(BucketsOnDisk(disk[d]))
      /\ {r.b : r \in ResampledCompleted(OnDisk(d))} \subseteq BucketsOnDisk(disk[d])

\* UP_TO_DATE is never shown while a request is open.
UpToDateMeansNoOpenRequest == state.status = "UP_TO_DATE" => Open = {}

\* A late answer is still consumed: an answered request does not stay open
\* while the dataset can be read and the scheduler lives.
AnswerOpen == \E i \in Open : Answered(i)
AnswerIsConsumed == AnswerOpen ~> (~AnswerOpen \/ ~CanRead(Active) \/ scheduler = "DEAD")

-----------------------------------------------------------------------------
(* The inductive invariant.  An answer is what the market traded from the    *)
(* requested minute up to some later one, and every minute before a request  *)
(* is on disk, or was lost with a replaced fragment.                         *)

Fragments == [frag : Nat, bars : SUBSET [b : Minutes, of : SUBSET Minutes]]
Files == [base : {"FILE", "FRAGMENTS"}, m1 : [Frags -> BarSets], htf : SUBSET Fragments]
DatasetRows ==
  [path : {"FILE", "FRAGMENTS"}, m1Rows : Nat, m1End : Minutes, htfRows : Nat, htfEnd : Minutes,
   fingerprint : Seq(BarSets)]
Requesting == [pc : {"COMMIT_REQUEST"}, trigger : Schedulers, id : Ids, from : Nat]
AppendingTicks ==
  [pc : {"MIGRATE", "M1", "HTF", "COMMIT"}, trigger : Schedulers, id : Ids, d : Nat,
   ds : DatasetRows, novel : BarSets, combined : SUBSET Minutes]
Ticks == Requesting \cup AppendingTicks

\* None is no row, no answer and no tick.
ASSUME NoneAssumption ==
  /\ None \notin Ticks /\ None \notin Jobs /\ None \notin Manifests
  /\ \A bars \in BarSets : bars # None

Busy(d) == worker # None /\ worker.pc # "COMMIT_REQUEST" /\ worker.d = d
NovelMinutes == MinutesOf(worker.novel)

\* Every bucket of a later fragment is complete.
HtfSound(files) ==
  /\ \A f \in files.htf, g \in files.htf : f.frag = 0 /\ g.frag = 0 => f = g
  /\ \A f \in files.htf : f.frag = 0 => \A r, q \in f.bars : r.b = q.b => r = q
  /\ \A f \in files.htf : f.frag > 0 => \A r \in f.bars : r.of = MinutesIn(r.b)

\* The part of the invariant that the replacement of a fragment leaves alone:
\* the files hold minutes of the market,
FilesKept ==
  /\ datasets \in Seq(DatasetRows) /\ disk \in Seq(Files)
  /\ Len(disk) = Len(datasets) /\ Len(datasets) \in 1 .. MaxDatasets
  /\ \A d \in DOMAIN datasets : HtfSound(disk[d]) /\ OnDisk(d) \subseteq traded /\ disk[d].m1[0] # {}

\* every fragment what its request was answered,
Known(id) == csv[id] # None /\ csv[id] # {} /\ manifest[id] # None /\ manifest[id].rows > 0
AnswersKept ==
  /\ \A i \in Ids : csv[i] # None => MinutesOf(csv[i]) \subseteq traded \cap 1 .. now
  /\ \A r \in requests : csv[r.id] # None => \A m \in MinutesOf(csv[r.id]) : m >= r.from
  /\ \A r, q \in requests : r.id = q.id => r = q
  /\ export # None => export.req \in requests /\ csv[export.req.id] # None
                      /\ (export.pc = "MANIFEST" => export.bars = csv[export.req.id])
  /\ \A i \in refilled : Known(i)
  /\ \A d \in DOMAIN datasets, i \in Ids : disk[d].m1[i] # {} =>
       Known(i) /\ jobs[i] # None /\ MinutesOf(disk[d].m1[i]) \subseteq MinutesOf(csv[i])

\* a request begins behind what is covered, and is answered from there,
RequestKept(id, from) ==
  /\ from \in Nat \ {0} /\ Covered(from - 1) /\ from - 1 <= datasets[Active].m1End
  /\ \A r \in requests : r.id = id => r.from = from
  /\ csv[id] # None => \E t \in Minutes : MinutesOf(csv[id]) = traded \cap from .. t
RequestsKept ==
  /\ \A i \in Open : RequestKept(i, jobs[i].from)
  /\ \A i, j \in Open : i = j
  /\ Covered(Max(OnDisk(Active))) /\ Covered(datasets[Active].m1End)

\* and the tick in progress holds the one open request.
AppendKept ==
  /\ worker.id \in Open /\ worker.d = Active /\ worker.novel # {}
  /\ Known(worker.id) /\ NovelMinutes \subseteq MinutesOf(csv[worker.id])
  /\ Covered(worker.ds.m1End) /\ datasets[Active].m1End <= worker.ds.m1End
  /\ worker.pc \in {"MIGRATE", "M1"} =>
       \E t \in Minutes : NovelMinutes = (traded \cap jobs[worker.id].from .. t) \ OnDisk(worker.d)
TickKept ==
  worker # None =>
    /\ worker \in Ticks
    /\ IF worker.pc = "COMMIT_REQUEST"
       THEN Open = {} /\ jobs[worker.id] = None /\ RequestKept(worker.id, worker.from)
       ELSE AppendKept

Kept == FilesKept /\ AnswersKept /\ RequestsKept /\ TickKept

\* Final are the minutes in the fragments of requests that are no longer open.
\* The snapshot and the completed requests hold no bar behind a minute that is
\* still to be requested, unless that minute is final too.
Final == UNION {MinutesOf(disk[Active].m1[i]) : i \in Frags \ Open}
FinalAfter(t) ==
  \A i \in Completed \cup {0} : \A c \in MinutesOf(disk[Active].m1[i]) :
    \A m \in traded : t < m /\ m <= c => m \in Final
OrderKept ==
  /\ \A i \in Open : FinalAfter(jobs[i].from - 1)
  /\ Open = {} => FinalAfter(datasets[Active].m1End)
  /\ worker # None =>
       /\ worker.pc = "COMMIT_REQUEST" => worker.from = datasets[Active].m1End + 1
       /\ worker.pc \in {"HTF", "COMMIT"} =>
            \A m \in MinutesOf(disk[worker.d].m1[worker.id]) : m <= worker.ds.m1End

\* The part that holds while no fragment was replaced.  The minutes whose buckets
\* have been written, and the row of dataset d as the session has it:
Settled(d) == IF Busy(d) /\ worker.pc = "HTF" THEN OnDisk(d) \ NovelMinutes ELSE OnDisk(d)
Row(d) == IF Busy(d) THEN worker.ds ELSE datasets[d]

\* The files of a dataset hold whole minutes of the market; every bucket comes
\* from minutes on disk, and is complete unless it is of the base file.
FilesSound(files) ==
  LET ms == MinutesOf(M1(files)) IN
  /\ ms # {} /\ ms = traded \cap 1 .. Max(ms)
  /\ HtfSound(files)
  /\ \A f \in files.htf : f.frag > 0 => f.frag \in Ids /\ files.m1[f.frag] # {}

RowSound(row, files) ==
  /\ row \in DatasetRows
  /\ row.m1Rows <= Cardinality(MinutesOf(M1(files))) /\ row.m1End \in MinutesOf(M1(files))
  /\ row.htfRows <= Cardinality({b \in BucketsOnDisk(files) : b <= row.htfEnd})
  /\ row.htfEnd \in BucketsOnDisk(files)

DatasetsSound ==
  /\ datasets \in Seq(DatasetRows) /\ disk \in Seq(Files)
  /\ Len(disk) = Len(datasets) /\ Len(datasets) \in 1 .. MaxDatasets
  /\ \A d \in DOMAIN datasets :
       /\ FilesSound(disk[d]) /\ RowSound(datasets[d], disk[d])
       /\ BucketsOnDisk(disk[d]) \subseteq {Bucket(m) : m \in Settled(d)}

\* What the market traded from the requested minute up to some later one.
AnswerSound(from, bars) ==
  /\ bars \in BarSets /\ \A b, c \in bars : b.m = c.m => b = c
  /\ \E t \in Minutes : MinutesOf(bars) = traded \cap from .. t

\* A request for the minutes behind what is on disk, its file and its answer.
RequestSound(id, from) ==
  /\ from \in Nat \ {0} /\ from <= Max(OnDisk(Active)) + 1
  /\ \A r \in requests : r.id = id => r.from = from
  /\ csv[id] # None => AnswerSound(from, csv[id])
RequestsSound ==
  /\ \A i \in Open : RequestSound(i, jobs[i].from)
  /\ \A i, j \in Open : i = j
  /\ export # None => export.req \in requests

\* A tick that appends holds the one open request, and knows which of its bars
\* are not on disk yet.
AppendSound ==
  /\ worker.id \in Open /\ worker.d = Active /\ worker.novel # {}
  /\ RowSound(worker.ds, disk[worker.d])
  /\ \A b, c \in worker.novel : b.m = c.m => b = c
  /\ worker.pc \in {"MIGRATE", "M1"} =>
       /\ NovelMinutes \cap OnDisk(worker.d) = {}
       /\ \E t \in Minutes : OnDisk(worker.d) \cup NovelMinutes = traded \cap 1 .. t
  /\ worker.pc = "HTF" =>
       /\ NovelMinutes \subseteq OnDisk(worker.d)
       /\ \A m \in NovelMinutes, n \in Settled(worker.d) : n < m
       /\ worker.combined = {m \in OnDisk(worker.d) : m >= Min(NovelMinutes) - BucketMinutes}
       /\ disk[worker.d].m1[worker.id] = worker.novel
       /\ \A f \in disk[worker.d].htf : f.frag # worker.id
TickSound ==
  worker # None =>
    /\ worker \in Ticks
    /\ IF worker.pc = "COMMIT_REQUEST" THEN Open = {} /\ RequestSound(worker.id, worker.from)
       ELSE AppendSound

\* Rows that count exactly what is on disk, and a request whose answer has not
\* been written yet.
RowExact(row, files) ==
  /\ row.m1Rows = Cardinality(MinutesOf(M1(files))) /\ \A m \in MinutesOf(M1(files)) : m <= row.m1End
  /\ row.htfRows = Cardinality(BucketsOnDisk(files)) /\ \A b \in BucketsOnDisk(files) : b <= row.htfEnd
DatasetsExact ==
  \A d \in DOMAIN datasets :
    /\ RowExact(Row(d), disk[d])
    /\ {r.b : r \in ResampledCompleted(Settled(d))} \subseteq BucketsOnDisk(disk[d])
WrittenOnce ==
  /\ refilled = {}
  /\ \A d \in DOMAIN datasets, i \in Open :
       disk[d].m1[i] # {} => worker # None /\ worker.pc \in {"HTF", "COMMIT"} /\ worker.id = i

\* Whatever is interrupted or revised, the history stays whole but for what a
\* replaced fragment held, no order of the fragments decides on a bucket, and no
\* request is open behind UP_TO_DATE; while no fragment was replaced no row is
\* ahead of its file; and what rows, requests and the tick in progress know that
\* makes it so.
RegistryInv ==
  /\ TypeOK
  /\ HolesOnlyByReplacement /\ RegistryNeverAhead
  /\ FragmentOrderIsInert /\ UpToDateMeansNoOpenRequest
  /\ Kept /\ OrderKept
  /\ refilled = {} => DatasetsSound /\ RequestsSound /\ TickSound
  /\ faults = 0 => DatasetsExact /\ WrittenOnce
==============================================================================
