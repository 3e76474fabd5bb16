------------------------ MODULE DemoDeploymentProofs ------------------------
(***************************************************************************)
(* DeploymentInv is inductive: for any number of contracts, requests and   *)
(* deployments the terminal holds only approved configurations for its     *)
(* chart, and only what it has loaded is active or rolled back to.         *)
(***************************************************************************)
EXTENDS DemoDeployment, TLAPS

\* What has been approved, loaded or recorded stays so; no step rewrites the
\* contract of a row.
Growing ==
    /\ approved \subseteq approved' /\ journal \subseteq journal'
    /\ Len(rows) <= Len(rows')
    /\ \A d \in DOMAIN rows :
          d \in DOMAIN rows' /\ rows'[d].contract = rows[d].contract

-----------------------------------------------------------------------------
\* A configuration that is sound stays sound as the history grows.
LEMMA ConfigKept ==
    ASSUME NEW c, ConfigSound(c),
           approved \subseteq approved', journal \subseteq journal'
    PROVE  ConfigSound(c)'
  BY DEF ConfigSound

\* What a request relies on is not taken away from it by another one.
LEMMA RequestKept ==
    ASSUME NEW r, RequestSound(r), TypeOK, TypeOK', Growing
    PROVE  RequestSound(r)'
<1>1. ConfigSound(r.config)'
  BY ConfigKept DEF RequestSound, Growing
<1>2. (r.kind \in {"rollback", "stop", "poll"} => r.id \in DOMAIN rows)'
  BY DEF RequestSound, Growing
<1>3. (r.kind = "stop" => Armed(rows[r.id].contract) \in journal)'
  BY DEF RequestSound, Growing
<1>4. Len(rows) \in Nat /\ Len(rows') \in Nat /\ DOMAIN rows = 1..Len(rows)
  BY DEF TypeOK
<1>5. (r.kind = "create" => r.previous \in 0..Len(rows))'
  BY <1>4 DEF RequestSound, Growing
<1>6. ASSUME r.kind = "create", r.previous # 0
      PROVE  (Armed(rows[r.previous].contract) \in journal)'
  <2>1. r.previous \in DOMAIN rows
    BY <1>4, <1>6 DEF RequestSound
  <2> QED  BY <1>6, <2>1 DEF RequestSound, Growing
<1> QED  BY <1>1, <1>2, <1>3, <1>5, <1>6 DEF RequestSound, Growing

\* An idle request relies on nothing.
LEMMA IdleSound == Idle \in RequestStates /\ RequestSound(Idle)
<1>1. Idle \in RequestStates
  BY DEF Idle, RequestStates
<1>2. NoConfig \notin Configs
  BY DeploymentAssumption DEF Configs
<1> QED  BY <1>1, <1>2 DEF Idle, RequestSound, ConfigSound

\* A step that leaves database and terminal alone keeps the invariant if the
\* files and every request are sound after it.
LEMMA FileStep ==
    ASSUME DeploymentInv, UNCHANGED <<database, terminal>>,
           temp' \in Contents, live' \in Contents,
           ConfigSound(temp'), ConfigSound(live'),
           req' \in [Workers -> RequestStates],
           \A w \in Workers : RequestSound(req'[w])
    PROVE  DeploymentInv'
<1> USE DEF database, terminal
<1>1. TypeOK'
  BY DEF DeploymentInv, TypeOK
<1>2. ConfigSound(temp)' /\ ConfigSound(live)' /\ ConfigSound(loaded)'
  BY DEF DeploymentInv, ConfigSound
<1>3. \A w \in Workers : RequestSound(req[w])'
  BY DEF RequestSound, ConfigSound
<1>4. ActiveWasLoaded' /\ RunsApprovedOnly'
  BY DEF DeploymentInv, ActiveWasLoaded, RunsApprovedOnly
<1>5. RollbackIsKnownGood'
  BY <1>3 DEF DeploymentInv, RollbackIsKnownGood, RequestSound
<1> QED  BY <1>1, <1>2, <1>3, <1>4, <1>5 DEF DeploymentInv

\* A step that rewrites rows or the terminal keeps what the requests in
\* flight and the files rely on.
LEMMA GrowingStep ==
    ASSUME DeploymentInv, TypeOK', Growing, UNCHANGED files,
           \A w \in Workers : req'[w] \in {req[w], Idle},
           ConfigSound(loaded)',
           (\A c \in journal : c.contract \in approved /\ c.contract \in OnChart)',
           (\A d \in DOMAIN rows : rows[d].contract \in approved)',
           ActiveWasLoaded', RunsApprovedOnly',
           (\A d \in DOMAIN rows : rows[d].previous # 0 =>
              /\ rows[d].previous < d
              /\ Armed(rows[rows[d].previous].contract) \in journal)'
    PROVE  DeploymentInv'
<1>1. ConfigSound(temp)' /\ ConfigSound(live)'
  BY DEF DeploymentInv, Growing, files, ConfigSound
<1>2. ASSUME NEW w \in Workers
      PROVE  RequestSound(req[w])'
  <2>1. RequestSound(req[w]) /\ RequestSound(Idle)
    BY IdleSound DEF DeploymentInv
  <2> DEFINE r == req'[w]
  <2>2. RequestSound(r)
    BY <2>1
  <2>3. TypeOK
    BY DEF DeploymentInv
  <2> QED  BY <2>2, <2>3, RequestKept
<1>3. RollbackIsKnownGood'
  BY <1>2 DEF RollbackIsKnownGood, RequestSound
<1> QED  BY <1>1, <1>2, <1>3 DEF DeploymentInv

\* The worker that moves on is the only one to check.
LEMMA Served ==
    ASSUME DeploymentInv, NEW w \in Workers, NEW r \in RequestStates,
           RequestSound(r), req' = [req EXCEPT ![w] = r]
    PROVE  /\ req' \in [Workers -> RequestStates]
           /\ \A v \in Workers : RequestSound(req'[v])
<1>1. req \in [Workers -> RequestStates] /\ \A v \in Workers : RequestSound(req[v])
  BY DEF DeploymentInv, TypeOK
<1>2. \A v \in Workers : req'[v] = IF v = w THEN r ELSE req[v]
  BY <1>1
<1> QED  BY <1>1, <1>2

-----------------------------------------------------------------------------
(* Requests: files, database and terminal stay *)

\* A request that begins or moves on without touching anything else.
LEMMA RequestStep ==
    ASSUME DeploymentInv, NEW w \in Workers, NEW r \in RequestStates,
           RequestSound(r), req' = [req EXCEPT ![w] = r],
           UNCHANGED <<database, files, terminal>>
    PROVE  DeploymentInv'
<1>1. temp' = temp /\ live' = live
  BY DEF files
<1>2. /\ temp' \in Contents /\ live' \in Contents
      /\ ConfigSound(temp') /\ ConfigSound(live')
  BY <1>1 DEF DeploymentInv, TypeOK
<1>3. /\ req' \in [Workers -> RequestStates]
      /\ \A v \in Workers : RequestSound(req'[v])
  BY Served
<1> QED  BY <1>2, <1>3, FileStep

\* A deployment carries an approved configuration, and the latest active one
\* the terminal has loaded.
LEMMA CreateBegins ==
    ASSUME DeploymentInv, NEW w \in Workers, NEW c \in Contracts, BeginCreate(w, c)
    PROVE  DeploymentInv'
<1>1. PICK prior \in Prior :
         req' = [req EXCEPT ![w] = [Idle EXCEPT !.step = "open", !.kind = "create",
                                      !.previous = prior, !.config = Armed(c)]]
  BY DEF BeginCreate, Begin
<1> DEFINE r == [Idle EXCEPT !.step = "open", !.kind = "create",
                             !.previous = prior, !.config = Armed(c)]
<1>2. prior = 0 \/ (prior \in DOMAIN rows /\ rows[prior].status = "DEMO_ACTIVE")
  BY DEF Prior, Active
<1>3. rows \in Seq(Rows) /\ Len(rows) \in Nat /\ DOMAIN rows = 1..Len(rows)
  BY DEF DeploymentInv, TypeOK
<1>4. prior \in 0..Len(rows) /\ prior \in Nat
  BY <1>2, <1>3
<1>5. Armed(c) \in Configs /\ Armed(c).contract = c /\ Armed(c).enabled = "true"
  BY DEF Armed, Configs
<1>6. r \in RequestStates
  BY <1>4, <1>5, IdleSound DEF RequestStates
<1>7. /\ r.step = "open" /\ r.kind = "create" /\ r.previous = prior
      /\ r.config = Armed(c)
  BY DEF Idle
<1> HIDE DEF r
<1>8. ConfigSound(r.config)
  BY <1>5, <1>7 DEF ConfigSound, BeginCreate, Deployable
<1>9. prior # 0 => Armed(rows[prior].contract) \in journal
  BY <1>2 DEF DeploymentInv, ActiveWasLoaded
<1>10. RequestSound(r)
  BY <1>4, <1>5, <1>7, <1>8, <1>9 DEF RequestSound
<1> QED  BY <1>1, <1>6, <1>10, RequestStep DEF BeginCreate, r

\* The deployment before an active one that is rolled back to was loaded.
LEMMA RollbackBegins ==
    ASSUME DeploymentInv, NEW w \in Workers, NEW d \in DOMAIN rows, BeginRollback(w, d)
    PROVE  DeploymentInv'
<1> DEFINE p == rows[d].previous
<1> DEFINE target == Armed(rows[p].contract)
<1> DEFINE r == [Idle EXCEPT !.step = "open", !.kind = "rollback", !.id = d,
                             !.seen = rows[d].status, !.config = target]
<1>1. req' = [req EXCEPT ![w] = r]
  BY DEF BeginRollback, Begin
<1>2. rows \in Seq(Rows) /\ Len(rows) \in Nat /\ DOMAIN rows = 1..Len(rows)
  BY DEF DeploymentInv, TypeOK
<1>3. rows[d] \in Rows /\ d \in Nat
  BY <1>2
<1>4. p \in Nat /\ p # 0 /\ p < d
  BY <1>3 DEF BeginRollback, Rows, DeploymentInv, RollbackIsKnownGood
<1>5. p \in DOMAIN rows
  BY <1>2, <1>4
<1>6. target \in journal
  BY <1>4 DEF DeploymentInv, RollbackIsKnownGood
<1>7. target \in Configs /\ target.enabled = "true"
  BY <1>6 DEF DeploymentInv, TypeOK, Armed
<1>8. target.contract \in approved
  BY <1>6 DEF DeploymentInv
<1> HIDE DEF target, p
<1>9. r \in RequestStates
  BY <1>3, <1>7, IdleSound DEF RequestStates, Rows
<1>10. /\ r.step = "open" /\ r.kind = "rollback" /\ r.id = d /\ r.config = target
  BY DEF Idle
<1> HIDE DEF r
<1>11. RequestSound(r)
  BY <1>6, <1>7, <1>8, <1>10 DEF RequestSound, ConfigSound
<1> QED  BY <1>1, <1>9, <1>11, RequestStep DEF BeginRollback

\* What is stopped was loaded.
LEMMA StopBegins ==
    ASSUME DeploymentInv, NEW w \in Workers, NEW d \in DOMAIN rows, BeginStop(w, d)
    PROVE  DeploymentInv'
<1> DEFINE target == Disarmed(rows[d].contract)
<1> DEFINE r == [Idle EXCEPT !.step = "open", !.kind = "stop", !.id = d,
                             !.seen = "DEMO_ACTIVE", !.config = target]
<1>1. req' = [req EXCEPT ![w] = r]
  BY DEF BeginStop, Begin
<1>2. rows \in Seq(Rows) /\ Len(rows) \in Nat /\ DOMAIN rows = 1..Len(rows)
  BY DEF DeploymentInv, TypeOK
<1>3. rows[d] \in Rows /\ d \in Nat
  BY <1>2
<1>4. Armed(rows[d].contract) \in journal /\ rows[d].contract \in approved
  BY DEF BeginStop, DeploymentInv, ActiveWasLoaded
<1>5. target \in Configs /\ target.contract = rows[d].contract
  BY <1>3 DEF Disarmed, Configs, Rows
<1> HIDE DEF target
<1>6. r \in RequestStates
  BY <1>3, <1>5, IdleSound DEF RequestStates, Statuses
<1>7. /\ r.step = "open" /\ r.kind = "stop" /\ r.id = d /\ r.config = target
  BY DEF Idle
<1> HIDE DEF r
<1>8. RequestSound(r)
  BY <1>4, <1>5, <1>7 DEF RequestSound, ConfigSound
<1> QED  BY <1>1, <1>6, <1>8, RequestStep DEF BeginStop

\* A poll goes straight to its commit.
LEMMA PollBegins ==
    ASSUME DeploymentInv, NEW w \in Workers, NEW d \in DOMAIN rows, BeginPoll(w, d)
    PROVE  DeploymentInv'
<1> DEFINE r == [Idle EXCEPT !.step = "commit", !.kind = "poll", !.id = d,
                             !.seen = "AWAITING_ACK"]
<1>1. req' = [req EXCEPT ![w] = r]
  BY DEF BeginPoll, Begin
<1>2. d \in Nat
  BY DEF DeploymentInv, TypeOK
<1>3. r \in RequestStates
  BY <1>2, IdleSound DEF RequestStates, Statuses
<1>4. r.step = "commit" /\ r.kind = "poll" /\ r.id = d /\ r.config = NoConfig
  BY DEF Idle
<1> HIDE DEF r
<1>5. NoConfig \notin Configs
  BY DeploymentAssumption DEF Configs
<1>6. RequestSound(r)
  BY <1>4, <1>5 DEF RequestSound, ConfigSound
<1> QED  BY <1>1, <1>3, <1>6, RequestStep DEF BeginPoll

-----------------------------------------------------------------------------
(* write_config and crashes: database and terminal stay *)

\* What follows from the invariant for the worker that moves.
LEMMA Moving ==
    ASSUME DeploymentInv, NEW w \in Workers
    PROVE  /\ req \in [Workers -> RequestStates] /\ req[w] \in RequestStates
           /\ \A v \in Workers : req[v] \in RequestStates /\ RequestSound(req[v])
           /\ temp \in Contents /\ live \in Contents
           /\ ConfigSound(temp) /\ ConfigSound(live)
  BY DEF DeploymentInv, TypeOK

\* Moving to a later step of write_config changes nothing a request relies on.
LEMMA StepKept ==
    ASSUME NEW r, NEW s, RequestSound(r), s.kind = r.kind, s.id = r.id,
           s.previous = r.previous, s.config = r.config,
           s.step \in {"open", "write", "replace"} =>
               r.step \in {"open", "write", "replace"}
    PROVE  RequestSound(s)
  BY DEF RequestSound

\* An empty or garbled file holds no configuration.
LEMMA NoConfiguration ==
    ASSUME NEW x \in {NoFile, Empty, Garbled}
    PROVE  x \in Contents /\ ConfigSound(x)
  BY DeploymentAssumption DEF Contents, ConfigSound, Configs

\* What is written is a configuration some request stands for, or garbled.
LEMMA WrittenSound ==
    ASSUME NEW old, NEW text \in Configs, ConfigSound(text), NEW new \in Overwrite(old, text)
    PROVE  new \in Contents /\ ConfigSound(new)
<1>1. new = text \/ new = Garbled
  BY DEF Overwrite
<1> QED  BY <1>1, NoConfiguration DEF Contents

\* Truncating the temporary file harms no one's configuration.
LEMMA Opens ==
    ASSUME DeploymentInv, NEW w \in Workers, OpenTemp(w)
    PROVE  DeploymentInv'
<1> DEFINE r == [req[w] EXCEPT !.step = "write", !.handle = "temp"]
<1>1. req' = [req EXCEPT ![w] = r] /\ live' = live /\ temp' = Empty
  BY Moving DEF OpenTemp
<1>2. r \in RequestStates
  BY Moving DEF RequestStates
<1>3. RequestSound(r)
  BY Moving, StepKept DEF OpenTemp, RequestStates
<1> HIDE DEF r
<1>4. /\ req' \in [Workers -> RequestStates]
      /\ \A v \in Workers : RequestSound(req'[v])
  BY <1>1, <1>2, <1>3, Served
<1>5. temp' \in Contents /\ live' \in Contents /\ ConfigSound(temp') /\ ConfigSound(live')
  BY <1>1, Moving, NoConfiguration
<1>6. UNCHANGED <<database, terminal>>
  BY DEF OpenTemp
<1> QED  BY <1>4, <1>5, <1>6, FileStep

\* Whichever file the handle has come to, it takes a sound configuration.
LEMMA Writes ==
    ASSUME DeploymentInv, NEW w \in Workers, WriteTemp(w)
    PROVE  DeploymentInv'
<1> DEFINE r == [req[w] EXCEPT !.step = "replace", !.handle = "closed"]
<1>1. req' = [req EXCEPT ![w] = r]
  BY Moving DEF WriteTemp
<1>2. r \in RequestStates
  BY Moving DEF RequestStates
<1>3. RequestSound(r)
  BY Moving, StepKept DEF WriteTemp, RequestStates
<1> HIDE DEF r
<1>4. /\ req' \in [Workers -> RequestStates]
      /\ \A v \in Workers : RequestSound(req'[v])
  BY <1>1, <1>2, <1>3, Served
<1>5. req[w].config \in Configs /\ ConfigSound(req[w].config)
  BY Moving DEF RequestSound, WriteTemp
<1>6. temp' = temp \/ temp' \in Overwrite(temp, req[w].config)
  BY DEF WriteTemp
<1>7. live' = live \/ live' \in Overwrite(live, req[w].config)
  BY DEF WriteTemp
<1>8. temp' \in Contents /\ ConfigSound(temp')
  BY <1>5, <1>6, Moving, WrittenSound
<1>9. live' \in Contents /\ ConfigSound(live')
  BY <1>5, <1>7, Moving, WrittenSound
<1>10. UNCHANGED <<database, terminal>>
  BY DEF WriteTemp
<1> QED  BY <1>4, <1>8, <1>9, <1>10, FileStep

\* The temporary file was sound, so strategy.ini is; handles move along.
LEMMA Replaces ==
    ASSUME DeploymentInv, NEW w \in Workers, Replace(w)
    PROVE  DeploymentInv'
<1>1. live' = temp /\ temp' = NoFile /\ UNCHANGED <<database, terminal>>
  BY DEF Replace
<1>2. temp' \in Contents /\ live' \in Contents /\ ConfigSound(temp') /\ ConfigSound(live')
  BY <1>1, Moving, NoConfiguration
<1>3. ASSUME NEW v \in Workers
      PROVE  req'[v] \in RequestStates /\ RequestSound(req'[v])
  <2>1. req[v] \in RequestStates /\ RequestSound(req[v])
    BY Moving
  <2>2. CASE v = w
    <3>1. req'[v] = [req[v] EXCEPT !.step = "commit"]
      BY <2>2 DEF Replace
    <3> QED  BY <2>1, <3>1, StepKept DEF RequestStates
  <2>3. CASE v # w
    <3>1. PICK h \in {"temp", "live", "gone", req[v].handle} :
            req'[v] = [req[v] EXCEPT !.handle = h]
      BY <2>3 DEF Replace
    <3> QED  BY <2>1, <3>1, StepKept DEF RequestStates
  <2> QED  BY <2>2, <2>3
<1>4. req' \in [Workers -> RequestStates]
  <2>1. DOMAIN req' = Workers /\ req' = [v \in Workers |-> req'[v]]
    BY DEF Replace
  <2> QED  BY <1>3, <2>1
<1> QED  BY <1>1, <1>2, <1>3, <1>4, FileStep

\* A restart leaves the files as they are.
LEMMA Crashes == ASSUME DeploymentInv, Crash PROVE DeploymentInv'
<1>1. req' = [w \in Workers |-> Idle] /\ UNCHANGED <<database, terminal>>
      /\ temp' = temp /\ live' = live
  BY DEF Crash, files
<1>2. req' \in [Workers -> RequestStates] /\ \A w \in Workers : RequestSound(req'[w])
  BY <1>1, IdleSound
<1>3. temp' \in Contents /\ live' \in Contents /\ ConfigSound(temp') /\ ConfigSound(live')
  BY <1>1 DEF DeploymentInv, TypeOK
<1> QED  BY <1>1, <1>2, <1>3, FileStep

-----------------------------------------------------------------------------
(* Commits and the terminal: the history grows *)

\* The worker that has answered is idle, the others go on.
LEMMA Answered ==
    ASSUME DeploymentInv, NEW w \in Workers, req' = [req EXCEPT ![w] = Idle]
    PROVE  /\ req' \in [Workers -> RequestStates]
           /\ \A v \in Workers : req'[v] \in {req[v], Idle}
  BY IdleSound DEF DeploymentInv, TypeOK

\* Approving a strategy takes nothing away.
LEMMA Approves ==
    ASSUME DeploymentInv, NEW c \in Contracts, Approve(c)
    PROVE  DeploymentInv'
<1>1. /\ approved' = approved \cup {c} /\ UNCHANGED <<rows, clock, req, loaded, journal>>
      /\ temp' = temp /\ live' = live /\ UNCHANGED files
  BY DEF Approve, terminal, files
<1> USE <1>1
<1>2. TypeOK' /\ Growing /\ ConfigSound(loaded)'
  <2>1. TypeOK'
    BY DEF DeploymentInv, TypeOK
  <2>2. rows \in Seq(Rows) /\ Len(rows) \in Nat
    BY DEF DeploymentInv, TypeOK
  <2>3. Growing
    BY <2>2 DEF Growing
  <2>4. ConfigSound(loaded)'
    BY DEF DeploymentInv, ConfigSound
  <2> QED  BY <2>1, <2>3, <2>4
<1>3. /\ (\A x \in journal : x.contract \in approved /\ x.contract \in OnChart)'
      /\ (\A d \in DOMAIN rows : rows[d].contract \in approved)'
      /\ ActiveWasLoaded' /\ RunsApprovedOnly'
      /\ (\A d \in DOMAIN rows : rows[d].previous # 0 =>
            /\ rows[d].previous < d
            /\ Armed(rows[rows[d].previous].contract) \in journal)'
  BY DEF DeploymentInv, ActiveWasLoaded, RunsApprovedOnly, RollbackIsKnownGood
<1>4. \A w \in Workers : req'[w] \in {req[w], Idle}
  OBVIOUS
<1> QED  BY <1>2, <1>3, <1>4, GrowingStep

\* A row is inserted for the configuration the request wrote, or failed to
\* write; nobody has acknowledged it yet.
LEMMA Inserts ==
    ASSUME DeploymentInv, NEW w \in Workers, req[w].kind = "create",
           NEW outcome \in {"FAILED", "AWAITING_ACK"},
           rows' = Append(rows, Row(req[w], outcome)),
           req' = [req EXCEPT ![w] = Idle],
           UNCHANGED <<approved, clock, files, terminal>>
    PROVE  DeploymentInv'
<1> DEFINE r == req[w]
<1> DEFINE new == Row(r, outcome)
<1>1. rows \in Seq(Rows) /\ Len(rows) \in Nat /\ DOMAIN rows = 1..Len(rows)
  BY DEF DeploymentInv, TypeOK
<1>2. r \in RequestStates /\ RequestSound(r)
  BY Moving
<1>3. r.config \in Configs /\ r.config.contract \in Contracts
      /\ r.config.contract \in approved
  BY <1>2 DEF RequestSound, ConfigSound, Configs
<1>4. r.previous \in 0..Len(rows)
      /\ (r.previous # 0 => Armed(rows[r.previous].contract) \in journal)
  BY <1>2 DEF RequestSound
<1>5. new \in Rows /\ new.contract = r.config.contract /\ new.status = outcome
      /\ new.previous = r.previous
  BY <1>1, <1>3, <1>4 DEF Row, Rows, Statuses
<1> HIDE DEF new, r
<1>6. rows' = Append(rows, new)
  BY DEF new, r
<1>7. /\ rows' \in Seq(Rows) /\ Len(rows') = Len(rows) + 1
      /\ DOMAIN rows' = 1..(Len(rows) + 1)
      /\ \A d \in DOMAIN rows : d \in DOMAIN rows' /\ rows'[d] = rows[d]
      /\ rows'[Len(rows) + 1] = new
  BY <1>1, <1>5, <1>6
<1>8. \A d \in DOMAIN rows' : d \in DOMAIN rows \/ d = Len(rows) + 1
  BY <1>1, <1>7
<1>9. approved' = approved /\ clock' = clock /\ loaded' = loaded /\ journal' = journal
  BY DEF terminal
<1>10. Growing
  BY <1>1, <1>7, <1>9 DEF Growing
<1>11. TypeOK'
  BY <1>7, <1>9, Answered DEF DeploymentInv, TypeOK, files
<1>12. ConfigSound(loaded)' /\ RunsApprovedOnly'
       /\ (\A x \in journal : x.contract \in approved /\ x.contract \in OnChart)'
  BY <1>9 DEF DeploymentInv, ConfigSound, RunsApprovedOnly
<1>13. ASSUME NEW d \in DOMAIN rows'
       PROVE  /\ rows'[d].contract \in approved'
              /\ rows'[d].status \in {"DEMO_ACTIVE", "STOPPED"} =>
                    Armed(rows'[d].contract) \in journal' /\ rows'[d].contract \in OnChart
              /\ rows'[d].previous # 0 =>
                    /\ rows'[d].previous < d
                    /\ Armed(rows'[rows'[d].previous].contract) \in journal'
  <2>1. CASE d \in DOMAIN rows
    <3>1. rows'[d] = rows[d] /\ rows[d] \in Rows
      BY <1>1, <1>7, <2>1
    <3>2. rows[d].previous # 0 => rows[d].previous < d
                  /\ Armed(rows[rows[d].previous].contract) \in journal
      BY <2>1 DEF DeploymentInv, RollbackIsKnownGood
    <3>3. rows[d].previous # 0 => rows[d].previous \in DOMAIN rows
      BY <1>1, <2>1, <3>1, <3>2 DEF Rows
    <3>4. rows[d].previous # 0 => rows'[rows[d].previous] = rows[rows[d].previous]
      BY <1>7, <3>3
    <3> QED  BY <1>9, <2>1, <3>1, <3>2, <3>4 DEF DeploymentInv, ActiveWasLoaded
  <2>2. CASE d = Len(rows) + 1
    <3>1. r.previous # 0 => r.previous \in DOMAIN rows
      BY <1>1, <1>4
    <3>2. r.previous # 0 => rows'[r.previous] = rows[r.previous]
      BY <1>7, <3>1
    <3>3. rows'[d] = new
      BY <1>7, <2>2
    <3>4. rows'[d].contract = r.config.contract /\ rows'[d].previous = r.previous
          /\ rows'[d].status = outcome
      BY <1>5, <3>3
    <3>5. rows'[d].contract \in approved'
      BY <1>3, <1>9, <3>4
    <3>6. rows'[d].status \notin {"DEMO_ACTIVE", "STOPPED"}
      BY <3>4
    <3>7. r.previous # 0 => r.previous < d
      BY <1>1, <1>4, <2>2
    <3>8. r.previous # 0 => Armed(rows'[r.previous].contract) \in journal'
      BY <1>4, <1>9, <3>2
    <3> QED  BY <3>4, <3>5, <3>6, <3>7, <3>8
  <2> QED  BY <1>8, <2>1, <2>2
<1> QED
  <2>1. ActiveWasLoaded' /\ (\A d \in DOMAIN rows : rows[d].contract \in approved)'
        /\ (\A d \in DOMAIN rows : rows[d].previous # 0 =>
              /\ rows[d].previous < d
              /\ Armed(rows[rows[d].previous].contract) \in journal)'
    BY <1>13 DEF ActiveWasLoaded
  <2> QED  BY <1>10, <1>11, <1>12, <2>1, Answered, GrowingStep

\* A status is written over, by primary key: an active or stopped one only of
\* a configuration the terminal has loaded.
LEMMA Rewrites ==
    ASSUME DeploymentInv, NEW w \in Workers, req[w].kind \in {"rollback", "stop", "poll"},
           NEW i, i = req[w].id, NEW row \in Rows,
           row.contract = rows[i].contract, row.previous = rows[i].previous,
           row.status \in {"DEMO_ACTIVE", "STOPPED"} => Armed(row.contract) \in journal,
           rows' = [rows EXCEPT ![i] = row],
           req' = [req EXCEPT ![w] = Idle], clock' \in Nat,
           UNCHANGED <<approved, files, terminal>>
    PROVE  DeploymentInv'
<1>1. rows \in Seq(Rows) /\ Len(rows) \in Nat /\ DOMAIN rows = 1..Len(rows)
  BY DEF DeploymentInv, TypeOK
<1>2. i \in DOMAIN rows
  BY Moving DEF RequestSound
<1>3. rows' \in Seq(Rows) /\ Len(rows') = Len(rows) /\ DOMAIN rows' = DOMAIN rows
      /\ \A d \in DOMAIN rows : rows'[d] = IF d = i THEN row ELSE rows[d]
  BY <1>1, <1>2
<1>4. \A d \in DOMAIN rows : rows'[d].contract = rows[d].contract
                             /\ rows'[d].previous = rows[d].previous
  BY <1>3
<1>5. approved' = approved /\ loaded' = loaded /\ journal' = journal
  BY DEF terminal
<1>6. Growing
  BY <1>1, <1>3, <1>4, <1>5 DEF Growing
<1>7. TypeOK'
  BY <1>3, <1>5, Answered DEF DeploymentInv, TypeOK, files
<1>8. ConfigSound(loaded)' /\ RunsApprovedOnly'
      /\ (\A x \in journal : x.contract \in approved /\ x.contract \in OnChart)'
  BY <1>5 DEF DeploymentInv, ConfigSound, RunsApprovedOnly
<1>9. (\A d \in DOMAIN rows : rows[d].contract \in approved)'
  BY <1>3, <1>4, <1>5 DEF DeploymentInv
<1>10. ActiveWasLoaded'
  <2>1. Armed(row.contract) \in journal => row.contract \in OnChart
    BY DEF DeploymentInv, Armed
  <2> QED  BY <1>3, <1>5, <2>1 DEF DeploymentInv, ActiveWasLoaded
<1>11. ASSUME NEW d \in DOMAIN rows, rows[d].previous # 0
       PROVE  /\ rows[d].previous < d
              /\ Armed(rows'[rows[d].previous].contract) \in journal
  <2>1. rows[d].previous < d /\ Armed(rows[rows[d].previous].contract) \in journal
    BY <1>11 DEF DeploymentInv, RollbackIsKnownGood
  <2>2. rows[d] \in Rows
    BY <1>1
  <2>3. rows[d].previous \in DOMAIN rows
    BY <1>1, <1>11, <2>1, <2>2 DEF Rows
  <2> QED  BY <1>4, <2>1, <2>3
<1>12. (\A d \in DOMAIN rows : rows[d].previous # 0 =>
          /\ rows[d].previous < d
          /\ Armed(rows[rows[d].previous].contract) \in journal)'
  BY <1>3, <1>4, <1>5, <1>11
<1> QED  BY <1>6, <1>7, <1>8, <1>9, <1>10, <1>12, Answered, GrowingStep

\* Only the request is answered.
LEMMA Nothing ==
    ASSUME DeploymentInv, NEW w \in Workers, req' = [req EXCEPT ![w] = Idle],
           UNCHANGED <<database, files, terminal>>
    PROVE  DeploymentInv'
  BY IdleSound, RequestStep

\* What is rolled back is no longer active.
LEMMA RollbackCommits ==
    ASSUME DeploymentInv, NEW w \in Workers, CommitRollback(w)
    PROVE  DeploymentInv'
<1> DEFINE i == req[w].id
<1> DEFINE row == [rows[i] EXCEPT !.status = "ROLLED_BACK"]
<1>1. i \in DOMAIN rows /\ rows \in Seq(Rows)
  BY Moving DEF RequestSound, CommitRollback, DeploymentInv, TypeOK
<1>2. rows[i] \in Rows
  BY <1>1
<1>3. row \in Rows /\ row.contract = rows[i].contract /\ row.previous = rows[i].previous
      /\ row.status = "ROLLED_BACK"
  BY <1>2 DEF Rows, Statuses
<1>4. /\ req[w].kind = "rollback" /\ req' = [req EXCEPT ![w] = Idle]
      /\ clock' = clock /\ UNCHANGED <<approved, clock, files, terminal>>
      /\ rows' = rows \/ rows' = [rows EXCEPT ![i] = row]
  BY DEF CommitRollback
<1>5. clock' \in Nat
  BY <1>4 DEF DeploymentInv, TypeOK
<1>6. CASE rows' = rows
  BY <1>4, <1>6, Nothing DEF database
<1>7. CASE rows' = [rows EXCEPT ![i] = row]
  <2> HIDE DEF row
  <2> QED  BY <1>3, <1>4, <1>5, <1>7, Rewrites
<1> QED  BY <1>4, <1>6, <1>7

\* What is stopped has been loaded before.
LEMMA StopCommits ==
    ASSUME DeploymentInv, NEW w \in Workers, CommitStop(w)
    PROVE  DeploymentInv'
<1> DEFINE i == req[w].id
<1> DEFINE row == [rows[i] EXCEPT !.status = "STOPPED"]
<1>1. i \in DOMAIN rows /\ rows \in Seq(Rows) /\ Armed(rows[i].contract) \in journal
  BY Moving DEF RequestSound, CommitStop, DeploymentInv, TypeOK
<1>2. rows[i] \in Rows
  BY <1>1
<1>3. row \in Rows /\ row.contract = rows[i].contract /\ row.previous = rows[i].previous
  BY <1>2 DEF Rows, Statuses
<1>4. /\ req[w].kind = "stop" /\ req' = [req EXCEPT ![w] = Idle]
      /\ clock' = clock /\ UNCHANGED <<approved, clock, files, terminal>>
      /\ rows' = [rows EXCEPT ![i] = row]
  BY DEF CommitStop
<1>5. clock' \in Nat
  BY <1>4 DEF DeploymentInv, TypeOK
<1> HIDE DEF row
<1> QED  BY <1>1, <1>3, <1>4, <1>5, Rewrites

\* Only an acknowledged deployment becomes active.
LEMMA PollCommits ==
    ASSUME DeploymentInv, NEW w \in Workers, CommitPoll(w)
    PROVE  DeploymentInv'
<1> DEFINE i == req[w].id
<1> DEFINE row == [rows[i] EXCEPT !.status = "DEMO_ACTIVE", !.acknowledged = clock + 1]
<1>1. /\ req[w].kind = "poll" /\ req' = [req EXCEPT ![w] = Idle]
      /\ UNCHANGED <<approved, files, terminal>>
  BY DEF CommitPoll
<1>2. i \in DOMAIN rows /\ rows \in Seq(Rows) /\ clock \in Nat
  BY <1>1, Moving DEF RequestSound, DeploymentInv, TypeOK
<1>3. rows[i] \in Rows
  BY <1>2
<1>4. row \in Rows /\ row.contract = rows[i].contract /\ row.previous = rows[i].previous
  <2>1. clock + 1 \in Nat /\ "DEMO_ACTIVE" \in Statuses
    BY <1>2 DEF Statuses
  <2>2. PICK s, n : s = "DEMO_ACTIVE" /\ n = clock + 1
    OBVIOUS
  <2>3. row = [rows[i] EXCEPT !.status = s, !.acknowledged = n]
    BY <2>2
  <2> QED  BY <1>3, <2>1, <2>2, <2>3 DEF Rows
<1>5. CASE Acknowledged(i)
  <2>1. Armed(row.contract) \in journal
    BY <1>4, <1>5 DEF Acknowledged
  <2>2. rows' = [rows EXCEPT ![i] = row]
    BY <1>5 DEF CommitPoll
  <2>3. clock' \in Nat
    BY <1>2, <1>5 DEF CommitPoll
  <2> HIDE DEF row
  <2> QED  BY <1>1, <1>4, <2>1, <2>2, <2>3, Rewrites
<1>6. CASE ~Acknowledged(i)
  BY <1>1, <1>6, Nothing DEF CommitPoll, database
<1> QED  BY <1>5, <1>6

\* The terminal loads what is whole and for its chart; what it forgets or
\* does not log harms nobody.
LEMMA TerminalSteps ==
    ASSUME DeploymentInv, Load \/ LoadUnheard \/ RestartTerminal
    PROVE  DeploymentInv'
<1>1. UNCHANGED <<approved, rows, clock, req>> /\ UNCHANGED files
      /\ temp' = temp /\ live' = live
  BY DEF Load, LoadUnheard, RestartTerminal, database, files
<1>2. \/ loaded' = NoConfig /\ journal' = journal
      \/ Readable /\ loaded' = live /\ journal' \in {journal, journal \cup {live}}
  BY DEF Load, LoadUnheard, RestartTerminal
<1>3. Readable => live \in Configs /\ live.contract \in approved
                  /\ live.contract \in OnChart /\ ConfigSound(live)
  BY DEF DeploymentInv, Readable, ConfigSound
<1>4. NoConfig \notin Configs
  BY DeploymentAssumption DEF Configs
<1>5. journal \subseteq journal'
  BY <1>2
<1>6. TypeOK'
  BY <1>1, <1>2, <1>3 DEF DeploymentInv, TypeOK
<1>7. Growing
  <2>1. rows \in Seq(Rows) /\ Len(rows) \in Nat
    BY DEF DeploymentInv, TypeOK
  <2> QED  BY <1>1, <1>5, <2>1 DEF Growing
<1>8. ConfigSound(loaded)' /\ RunsApprovedOnly'
  BY <1>1, <1>2, <1>3, <1>4, <1>5 DEF ConfigSound, RunsApprovedOnly
<1>9. (\A x \in journal : x.contract \in approved /\ x.contract \in OnChart)'
  BY <1>1, <1>2, <1>3 DEF DeploymentInv
<1>10. (\A d \in DOMAIN rows : rows[d].contract \in approved)' /\ ActiveWasLoaded'
  BY <1>1, <1>5 DEF DeploymentInv, ActiveWasLoaded
<1>11. (\A d \in DOMAIN rows : rows[d].previous # 0 =>
          /\ rows[d].previous < d
          /\ Armed(rows[rows[d].previous].contract) \in journal)'
  BY <1>1, <1>5 DEF DeploymentInv, RollbackIsKnownGood
<1>12. \A w \in Workers : req'[w] \in {req[w], Idle}
  BY <1>1
<1> QED  BY <1>1, <1>6, <1>7, <1>8, <1>9, <1>10, <1>11, <1>12, GrowingStep

\* An I/O error of a new deployment leaves a FAILED row.
LEMMA Fails ==
    ASSUME DeploymentInv, NEW w \in Workers, IoError(w)
    PROVE  DeploymentInv'
<1>1. CASE req[w].kind = "create"
  BY <1>1, Inserts DEF IoError
<1>2. CASE req[w].kind # "create"
  BY <1>2, Nothing DEF IoError, database
<1> QED  BY <1>1, <1>2

-----------------------------------------------------------------------------
(* The invariant *)

\* Before the first request nothing is approved, written or loaded.
LEMMA Initially == Init => DeploymentInv
<1> SUFFICES ASSUME Init PROVE DeploymentInv
  OBVIOUS
<1> USE DEF Init
<1>1. TypeOK
  BY IdleSound DEF TypeOK, Contents
<1>2. ConfigSound(temp) /\ ConfigSound(live) /\ ConfigSound(loaded)
  <2>1. NoConfig \notin Configs
    BY DeploymentAssumption DEF Configs
  <2> QED  BY <2>1, NoConfiguration DEF ConfigSound
<1>3. \A w \in Workers : RequestSound(req[w]) /\ req[w].kind = "none"
  BY IdleSound DEF Idle
<1>4. RollbackIsKnownGood
  BY <1>3 DEF RollbackIsKnownGood
<1> QED  BY <1>1, <1>2, <1>3, <1>4 DEF DeploymentInv, ActiveWasLoaded, RunsApprovedOnly

\* Every step keeps what files, requests, rows and terminal rest on: an
\* approved configuration, and a loaded one wherever something is active,
\* stopped or rolled back to.
THEOREM StepKeepsDeploymentInv ==
    ASSUME DeploymentInv, [Next]_vars PROVE DeploymentInv'
<1>1. CASE UNCHANGED vars
  <2>1. UNCHANGED <<approved, rows, clock, temp, live, loaded, journal, req>>
    BY <1>1 DEF vars, database, files, terminal
  <2> QED  BY <2>1 DEF DeploymentInv, TypeOK, ConfigSound, RequestSound,
               ActiveWasLoaded, RunsApprovedOnly, RollbackIsKnownGood
<1>2. ASSUME NEW c \in Contracts, Approve(c) PROVE DeploymentInv'
  BY <1>2, Approves
<1>3. ASSUME NEW w \in Workers, Serve(w) PROVE DeploymentInv'
  <2>1. ASSUME NEW c \in Contracts, BeginCreate(w, c) PROVE DeploymentInv'
    BY <2>1, CreateBegins
  <2>2. ASSUME NEW d \in DOMAIN rows,
               BeginRollback(w, d) \/ BeginStop(w, d) \/ BeginPoll(w, d)
        PROVE  DeploymentInv'
    BY <2>2, RollbackBegins, StopBegins, PollBegins
  <2>3. ASSUME Write(w) PROVE DeploymentInv'
    BY <2>3, Opens, Writes, Replaces, Fails DEF Write
  <2>4. ASSUME Commit(w) PROVE DeploymentInv'
    <3>1. CommitCreate(w) => DeploymentInv'
      BY Inserts DEF CommitCreate
    <3> QED  BY <2>4, <3>1, RollbackCommits, StopCommits, PollCommits DEF Commit
  <2> QED  BY <1>3, <2>1, <2>2, <2>3, <2>4 DEF Serve
<1>4. CASE Crash
  BY <1>4, Crashes
<1>5. CASE Load \/ LoadUnheard \/ RestartTerminal
  BY <1>5, TerminalSteps
<1> QED  BY <1>1, <1>2, <1>3, <1>4, <1>5 DEF Next

\* The invariant holds of every behaviour, fair or not.
THEOREM DeploymentInvariant == Spec => []DeploymentInv
  BY Initially, StepKeepsDeploymentInv, PTL DEF Spec

\* Only what the terminal has loaded, armed and for its chart, is active or
\* was before it was stopped.
THEOREM ActiveWasLoadedAlways == Spec => []ActiveWasLoaded
<1>1. DeploymentInv => ActiveWasLoaded
  BY DEF DeploymentInv
<1> QED  BY <1>1, DeploymentInvariant, PTL

\* Whatever requests, failed writes and crashes do to the two files, the
\* terminal runs an approved configuration for its own chart.
THEOREM RunsApprovedOnlyAlways == Spec => []RunsApprovedOnly
<1>1. DeploymentInv => RunsApprovedOnly
  BY DEF DeploymentInv
<1> QED  BY <1>1, DeploymentInvariant, PTL

\* A rollback writes a configuration the terminal has loaded before.
THEOREM RollbackIsKnownGoodAlways == Spec => []RollbackIsKnownGood
<1>1. DeploymentInv => RollbackIsKnownGood
  BY DEF DeploymentInv
<1> QED  BY <1>1, DeploymentInvariant, PTL
=============================================================================
