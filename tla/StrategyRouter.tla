---------------------------- MODULE StrategyRouter ----------------------------
(***************************************************************************)
(* The Strategy Router (strategy_router_*.py): eligibility snapshots of    *)
(* validated strategies, decisions over a cohort of snapshots, parameters  *)
(* of a decision, their verification, and the safety audit.                *)
(*                                                                         *)
(* All of it is evidence about a moving source: the strategy's status, its *)
(* latest stored lifecycle verification, and the market data that the      *)
(* scheduler keeps extending.  A row stores what it saw (`seen` stands for *)
(* the snapshot and its fingerprint); a later request recomputes it, in    *)
(* queries of its own, and compares.  Between two queries of one request   *)
(* anything may commit.                                                    *)
(*                                                                         *)
(* Instants are minutes; `bars` is the M1 range_end, `latest` what the     *)
(* HistoricalSyncState row says it is.  Prices are integers,               *)
(* Point of them one digit of the broker.  There is one dataset and every  *)
(* contract is an XAUUSD LONG contract, as eligibility demands.            *)
(***************************************************************************)
EXTENDS Integers, Sequences, FiniteSets, SequencesExt

CONSTANTS
  Workers, Strategies,
  Evaluation,      \* [Strategies -> [1 .. Horizon -> what the completed candles say]]
  Rules,           \* [Strategies -> stop and take distances, volume]
  Instants,        \* the evaluated_at a caller may name
  Inputs,          \* broker snapshot, capital contract and quote of a request
  MaxAge, Point,
  Horizon, MaxEligibilities, MaxDecisions, MaxChanges,   \* bounds
  None

ASSUME RouterAssumption ==
  /\ Horizon \in Nat \ {0} /\ MaxAge \in Nat /\ Point \in Nat \ {0} /\ Instants \subseteq 0 .. Horizon
  /\ MaxDecisions \in Nat
  /\ Evaluation \in [Strategies -> [1 .. Horizon -> {"SIGNAL", "NO_SIGNAL", "UNAVAILABLE"}]]

VARIABLES
  status, lifecycle,    \* the strategy's status, and the one its stored verification saw
  market,               \* range_end of M1 and the HistoricalSyncState row
  eligibilities,        \* StrategyRouterEligibility rows
  decisions,            \* StrategyRouterDecision rows, oldest first
  parameters,           \* StrategyRouterDecisionParameters row of each decision
  verifications,        \* StrategyRouterVerification result of each decision
  req,                  \* the request each worker serves
  changes               \* of the sources, and failed reads, so far

sources == <<status, lifecycle, market, changes>>
rows == <<eligibilities, decisions, parameters, verifications>>
vars == <<status, lifecycle, market, eligibilities, decisions, parameters, verifications, req,
          changes>>

Idle == [op |-> "IDLE", todo |-> {}, cur |-> None, life |-> None, evaluate |-> FALSE,
         done |-> {}, target |-> 0, inputs |-> None, late |-> FALSE]
-----------------------------------------------------------------------------
(* Sources *)

Init ==
  /\ status = [s \in Strategies |-> "VALIDATED"]
  /\ lifecycle = [s \in Strategies |-> "VALIDATED"] /\ changes = 0
  /\ market = [bars |-> 1, latest |-> 1, sync |-> "UP_TO_DATE", syncedAt |-> 1]
  /\ eligibilities = {} /\ decisions = <<>>
  /\ parameters = [d \in 1 .. MaxDecisions |-> None]
  /\ verifications = [d \in 1 .. MaxDecisions |-> None]
  /\ \E crew \in SUBSET Workers \ {{}} :
        req = [w \in Workers |-> IF w \in crew THEN Idle ELSE [Idle EXCEPT !.op = "AWAY"]]

\* The bound on changes is shared out among the workers in service.
Serving == {w \in Workers : req[w].op # "AWAY"}
Change == changes < MaxChanges \div Cardinality(Serving) /\ changes' = changes + 1

Retire(s) ==
  /\ Change
  /\ status[s] = "VALIDATED" /\ status' = [status EXCEPT ![s] = "RETIRED"]
  /\ UNCHANGED <<lifecycle, market, rows, req>>

VerifyLifecycle(s) ==
  /\ Change
  /\ lifecycle[s] # status[s] /\ lifecycle' = [lifecycle EXCEPT ![s] = status[s]]
  /\ UNCHANGED <<status, market, rows, req>>

\* A new request, also after one that failed: the stamp of the last success stays.
SyncRequested ==
  /\ Change
  /\ market.sync # "SYNCING" /\ market' = [market EXCEPT !.sync = "SYNCING", !.latest = market.bars]
  /\ UNCHANGED <<status, lifecycle, rows, req>>

\* While SYNCING, and often when MT5_UNAVAILABLE, a request is open.  That the
\* latter has none, after a refused answer, is left out: it only answers more.
Awaiting == market.sync \in {"SYNCING", "MT5_UNAVAILABLE"}

\* Nothing answers in time, the answer is refused, or a file operation fails: that
\* one after M1 was extended too, and the scheduler commits how far it came.
SyncFailed ==
  /\ \/ /\ Awaiting /\ UNCHANGED changes
        /\ \/ market' = [market EXCEPT !.sync = "FAILED"]
           \/ \E bars \in market.bars .. Horizon :
                 market' = [market EXCEPT !.sync = "MT5_UNAVAILABLE", !.bars = bars]
     \/ ~Awaiting /\ Change /\ market' = [market EXCEPT !.sync = "MT5_UNAVAILABLE"]
  /\ UNCHANGED <<status, lifecycle, rows, req>>

Synced(bars, at) == [bars |-> bars, latest |-> bars, sync |-> "UP_TO_DATE", syncedAt |-> at]

\* Slip: an answer without bars leaves the stamp.
SyncCompletedQuietly ==
  /\ Awaiting
  /\ \E at \in market.syncedAt + 1 .. Horizon : \E bars \in market.bars .. at :
        market' = Synced(bars, IF bars = market.bars THEN market.syncedAt ELSE at)
  /\ UNCHANGED <<status, lifecycle, changes, rows, req>>

\* One commit extends the rows, possibly by nothing, and stamps the state.
SyncCompleted ==
  /\ Awaiting
  /\ \E at \in market.syncedAt + 1 .. Horizon : \E bars \in market.bars .. at :
        market' = Synced(bars, at)
  /\ UNCHANGED <<status, lifecycle, changes, rows, req>>
-----------------------------------------------------------------------------
(* Eligibility *)

Policy == [status |-> "VALIDATED", sync |-> "UP_TO_DATE", maxAge |-> MaxAge]

SyncStates == {"UP_TO_DATE", "SYNCING", "FAILED", "MT5_UNAVAILABLE"}

Lifecycle(s) == [status |-> status[s], verified |-> lifecycle[s]]

Fresh(at, t) == at - t \in 0 .. Policy.maxAge

Assessed(seen, at) ==
  IF /\ seen.life.status = Policy.status /\ seen.life.verified = seen.life.status
     /\ seen.market.sync = Policy.sync /\ seen.market.latest = seen.market.bars
     /\ Fresh(at, seen.market.bars) /\ Fresh(at, seen.market.syncedAt)
  THEN "ELIGIBLE" ELSE "INELIGIBLE"

Eligibility(s, at, seen) ==
  [strategy |-> s, at |-> at, seen |-> seen, status |-> Assessed(seen, at)]

\* Slip: only the strategy is rechecked.
ExactLifecycle(e, life, now) == e.seen.life = life

\* exact_report: the recomputed snapshot is the recorded one.
Exact(e, life, now) == e.seen = [life |-> life, market |-> now]

\* The row is new or, by its fingerprint, the one that is there.  A request
\* delayed before the insert only stores a snapshot that is already stale.
MaterializeEligibility(s, at) ==
  /\ eligibilities' = eligibilities \cup
       {Eligibility(s, at, [life |-> Lifecycle(s), market |-> market])}
  /\ Cardinality(eligibilities') <= MaxEligibilities
  /\ UNCHANGED <<sources, decisions, parameters, verifications, req>>
-----------------------------------------------------------------------------
(* The recheck of snapshots, shared by decisions, parameters, verifier *)

Begin(w, r) ==
  /\ req[w] = Idle /\ req' = [req EXCEPT ![w] = r]
  /\ UNCHANGED <<sources, rows>>

\* The strategy and its lifecycle verification are read first.
ReadLifecycle(w) ==
  /\ req[w].cur = None
  /\ \E e \in req[w].todo :
        req' = [req EXCEPT ![w].cur = e, ![w].todo = @ \ {e}, ![w].life = Lifecycle(e.strategy)]
  /\ UNCHANGED <<sources, rows>>

\* A candidate of a decision: what it evaluated to, and on which bars.
Candidate(e, seen, result, bars, reason) ==
  [eligibility |-> e, seen |-> seen, status |-> result, bars |-> bars, reason |-> reason]
IsExact(c) == c.seen = c.eligibility.seen

\* A NO_TRADE decision is rechecked without evaluating its candidates.
Evaluates(r) == r.op = "DECISION" \/ decisions[r.target].selected # None

Finish(w, c) ==
  req' = [req EXCEPT ![w].cur = None, ![w].life = None, ![w].evaluate = FALSE, ![w].done = @ \cup {c}]

\* Assets and synchronization state follow; then the snapshot is compared.
ReadMarket(w) ==
  LET r == req[w]
      e == r.cur
      seen == [life |-> r.life, market |-> market]
  IN /\ e # None /\ ~r.evaluate
     /\ IF Exact(e, r.life, market) /\ e.status = "ELIGIBLE" /\ Evaluates(r)
        THEN req' = [req EXCEPT ![w].evaluate = TRUE]
        ELSE Finish(w, Candidate(e, seen, "BLOCKED", 0,
                    IF Exact(e, r.life, market) THEN "ELIGIBILITY_INELIGIBLE" ELSE "STALE_ELIGIBILITY"))
     /\ UNCHANGED <<sources, rows>>

\* _evaluate_candidate reads assets and bars again, as they are by then.  A
\* file that cannot be read is caught and blocks the candidate.
EvaluateCandidate(w) ==
  LET r == req[w]
      unavailable == Candidate(r.cur, r.cur.seen, "BLOCKED", 0, "CURRENT_INPUT_UNAVAILABLE")
      result == Evaluation[r.cur.strategy][market.bars]
  IN /\ r.evaluate
     /\ \/ /\ Finish(w, IF result = "UNAVAILABLE" THEN unavailable
                         ELSE Candidate(r.cur, r.cur.seen, result, market.bars, None))
           /\ UNCHANGED changes
        \/ Change /\ Finish(w, unavailable)
     /\ UNCHANGED <<status, lifecycle, market, rows>>

Complete(r) == r.todo = {} /\ r.cur = None
-----------------------------------------------------------------------------
(* Decisions *)

\* A non-empty cohort of snapshots of one evaluated_at.
BeginDecision(w) ==
  \E cohort \in SUBSET eligibilities \ {{}} :
     /\ \A e, f \in cohort : e.at = f.at
     /\ Begin(w, [Idle EXCEPT !.op = "DECISION", !.todo = cohort])

Signals(candidates) == {c \in candidates : c.status = "SIGNAL"}

\* Exactly one signal, else NO_TRADE; blocked candidates do not count.
Selected(candidates) ==
  IF Cardinality(Signals(candidates)) = 1
  THEN (CHOOSE c \in Signals(candidates) : TRUE).eligibility ELSE None

CommitDecision(w) ==
  LET d == [candidates |-> req[w].done, selected |-> Selected(req[w].done)]
  IN /\ req[w].op = "DECISION" /\ Complete(req[w])
     /\ IF Contains(decisions, d) THEN UNCHANGED decisions
        ELSE Len(decisions) < MaxDecisions /\ decisions' = Append(decisions, d)
     /\ req' = [req EXCEPT ![w] = Idle]
     /\ UNCHANGED <<sources, eligibilities, parameters, verifications>>
-----------------------------------------------------------------------------
(* The recheck of a decision *)

\* What _decision_exact rechecks of decision d.
Rechecked(d) ==
  IF decisions[d].selected = None THEN {c.eligibility : c \in decisions[d].candidates}
  ELSE {decisions[d].selected}
Observed(d) == CHOOSE c \in decisions[d].candidates : c.eligibility = decisions[d].selected

Check(d, done) ==
  IF decisions[d].selected = None
  THEN IF \A c \in done \cup decisions[d].candidates : IsExact(c)
       THEN "NO_TRADE" ELSE "NO_TRADE_DECISION_NOT_EXACT"
  ELSE LET c == CHOOSE c \in done : TRUE
       IN CASE ~IsExact(c) -> "SELECTED_ELIGIBILITY_OR_SIGNAL_STALE"
            [] IsExact(c) /\ c.status = "BLOCKED" -> c.reason
            [] OTHER -> IF c.status = Observed(d).status /\ c.bars = Observed(d).bars
                        THEN "EXACT" ELSE "SIGNAL_EVIDENCE_CHANGED"

Holds(check) == check \in {"EXACT", "NO_TRADE"}
-----------------------------------------------------------------------------
(* Parameters *)

Aligned(v, q) == v % q.tick = 0

Priced(s, q) == [entry |-> q.ask, stop |-> q.ask - Rules[s].stop,
                 take |-> q.ask + Rules[s].take, volume |-> q.volume]

Prices(p) == {p.entry, p.stop, p.take}

InputBlockers(s, at, q) ==
  LET p == Priced(s, q)
      fails == [ INPUTS_NOT_EXACT_READY |-> ~q.exact,
                 EXECUTION_TIME_NOT_EXACT_NEXT_BAR_OPEN |-> q.observed # at,
                 BROKER_SNAPSHOT_STALE_OR_FUTURE |-> ~Fresh(q.observed, q.collected),
                 QUOTE_NOT_EXACT_OR_TICK_ALIGNED |->
                    q.ask <= q.bid \/ ~Aligned(q.bid, q) \/ ~Aligned(q.ask, q),
                 SIZE_POLICY_NOT_EXACT_FIXED_LOT |-> q.volume # Rules[s].volume,
                 CALCULATED_PRICE_NOT_TICK_ALIGNED |->
                    p.stop <= 0 \/ \E v \in Prices(p) : v % Point # 0 \/ ~Aligned(v, q) ]
  IN {code \in DOMAIN fails : fails[code]}

\* `late` remembers, for the properties, whether the selected snapshot was
\* already stale when the request for parameters came in.
Stale(e) == ~Exact(e, Lifecycle(e.strategy), market)

BeginParameters(w) ==
  \E d \in 1 .. Len(decisions), q \in Inputs :
     Begin(w, [Idle EXCEPT !.op = "PARAMETERS", !.todo = Rechecked(d), !.target = d, !.inputs = q,
                           !.late = \E e \in Rechecked(d) : Stale(e)])

\* The artifact; its check and inputs are what its fingerprint covers.
Artifact(r) ==
  LET d == decisions[r.target]
      check == Check(r.target, r.done)
      blockers == InputBlockers(d.selected.strategy, d.selected.at, r.inputs)
                  \cup (IF Holds(check) THEN {} ELSE {check})
      content == [check |-> check, bars |-> {c.bars : c \in r.done}, late |-> r.late]
  IN IF d.selected = None
     THEN [content |-> content, inputs |-> None, status |-> "NO_TRADE", prices |-> None]
     ELSE [content |-> content, inputs |-> r.inputs,
           status |-> IF blockers = {} THEN "READY" ELSE "BLOCKED",
           prices |-> IF blockers = {} THEN Priced(d.selected.strategy, r.inputs) ELSE None]

\* Slip: a later request replaces what an earlier one found.
PersistLatest(w) ==
  /\ req[w].op = "PARAMETERS" /\ Complete(req[w])
  /\ parameters' = [parameters EXCEPT ![req[w].target] = Artifact(req[w])]
  /\ req' = [req EXCEPT ![w] = Idle]
  /\ UNCHANGED <<sources, eligibilities, decisions, verifications>>

\* One artifact per decision: the first is final.  An equal one is reused, any
\* other request is refused, also when its insert loses the race.
PersistParameters(w) ==
  LET d == req[w].target
  IN /\ req[w].op = "PARAMETERS" /\ Complete(req[w])
     /\ parameters' = IF parameters[d] = None THEN [parameters EXCEPT ![d] = Artifact(req[w])]
                      ELSE parameters
     /\ req' = [req EXCEPT ![w] = Idle]
     /\ UNCHANGED <<sources, eligibilities, decisions, verifications>>
-----------------------------------------------------------------------------
(* Verification and audit *)

\* The numbers of the artifact follow from its own lineage.
Arithmetic(d) ==
  LET a == parameters[d]
      s == decisions[d].selected.strategy
  IN CASE a.status = "NO_TRADE" -> decisions[d].selected = None /\ a.prices = None
       [] a.status = "BLOCKED"  -> a.prices = None
       [] a.status = "READY"    -> a.prices = Priced(s, a.inputs) /\ a.inputs.volume = Rules[s].volume

Verdict(d, check) == IF Holds(check) /\ Arithmetic(d) THEN "PASSED" ELSE "FAILED"

\* A stored result of the same decision and parameters is returned as it is.
BeginVerification(w) ==
  \E d \in 1 .. Len(decisions) :
     /\ parameters[d] # None /\ verifications[d] = None
     /\ Begin(w, [Idle EXCEPT !.op = "VERIFICATION", !.todo = Rechecked(d), !.target = d])

StoreVerification(w) ==
  LET d == req[w].target
  IN /\ req[w].op = "VERIFICATION" /\ Complete(req[w])
     /\ verifications' = IF verifications[d] # None THEN verifications
                         ELSE [verifications EXCEPT ![d] = Verdict(d, Check(d, req[w].done))]
     /\ req' = [req EXCEPT ![w] = Idle]
     /\ UNCHANGED <<sources, eligibilities, decisions, parameters>>

\* What a recheck of decision d finds if nothing intervenes.
CandidateNow(e, evaluates) ==
  LET seen == [life |-> Lifecycle(e.strategy), market |-> market]
      result == Evaluation[e.strategy][market.bars]
  IN IF Stale(e) \/ e.status # "ELIGIBLE" \/ ~evaluates \/ result = "UNAVAILABLE"
     THEN Candidate(e, seen, "BLOCKED", 0, "NOT_NOW") ELSE Candidate(e, seen, result, market.bars, None)
CheckNow(d) == Check(d, {CandidateNow(e, decisions[d].selected # None) : e \in Rechecked(d)})

\* Slip: the stored verification is believed.
AuditTrusting ==
  /\ decisions # <<>>
  /\ LET d == Len(decisions)
     IN parameters[d] # None /\ verifications[d] = "PASSED"

\* audit: the latest decision has a complete chain and is exact at present.
AuditPassed ==
  /\ decisions # <<>>
  /\ LET d == Len(decisions)
         e == decisions[d].selected
     IN /\ parameters[d] # None /\ verifications[d] = "PASSED"
        /\ Holds(CheckNow(d))
        /\ e # None => parameters[d].status \in {"READY", "BLOCKED"} /\ status[e.strategy] = "VALIDATED"
-----------------------------------------------------------------------------
Request(w) ==
  \/ BeginDecision(w) \/ BeginParameters(w) \/ BeginVerification(w)
  \/ ReadLifecycle(w) \/ ReadMarket(w) \/ EvaluateCandidate(w)
  \/ CommitDecision(w) \/ PersistParameters(w) \/ StoreVerification(w)

Next ==
  \/ \E s \in Strategies : Retire(s) \/ VerifyLifecycle(s)
  \/ \E s \in Strategies, at \in Instants : MaterializeEligibility(s, at)
  \/ SyncRequested \/ SyncFailed \/ SyncCompleted
  \/ \E w \in Workers : Request(w)

Spec == Init /\ [][Next]_vars
-----------------------------------------------------------------------------
(* Properties *)

Ready(d) == parameters[d] # None /\ parameters[d].status = "READY"

TypeOK ==
  /\ status \in [Strategies -> {"VALIDATED", "RETIRED"}]
  /\ lifecycle \in [Strategies -> {"VALIDATED", "RETIRED"}]
  /\ market.bars \in 1 .. Horizon /\ market.syncedAt \in 1 .. Horizon
  /\ market.latest \in 1 .. Horizon /\ market.sync \in SyncStates
  /\ \A e \in eligibilities : e.strategy \in Strategies /\ e.at \in Instants
  /\ \A d \in 1 .. Len(decisions) :
       /\ {c.eligibility : c \in decisions[d].candidates} \subseteq eligibilities
       /\ decisions[d].selected \in {c.eligibility : c \in Signals(decisions[d].candidates)} \cup {None}
  /\ \A d \in 1 .. MaxDecisions : parameters[d] # None =>
       /\ d <= Len(decisions)
       /\ parameters[d].status \in {"READY", "BLOCKED", "NO_TRADE"}
       /\ parameters[d].prices # None <=> Ready(d)
  /\ verifications \in [1 .. MaxDecisions -> {"PASSED", "FAILED", None}]
  /\ \A w \in Workers : req[w].op \in 
         {"IDLE", "DECISION", "PARAMETERS", "VERIFICATION", "AWAY"}

\* Prices that are ready for the Owner rest on one market: every candidate of
\* the cohort that was evaluated at all saw the bars of its eligibility, and the
\* selected one alone signalled on them, although candidates are rechecked and
\* evaluated one after the other while the market moves.
ReadyRestsOnOneMarket ==
  \A d \in 1 .. Len(decisions) : Ready(d) =>
    LET e == decisions[d].selected
        evaluated == {c \in decisions[d].candidates : c.status # "BLOCKED"}
    IN /\ \A c \in evaluated : c.bars = e.seen.market.bars
       /\ {c \in evaluated : Evaluation[c.eligibility.strategy][e.seen.market.bars] = "SIGNAL"}
            = {Observed(d)}

\* A request that comes in after the strategy was retired, its lifecycle verified
\* again or the market synchronized, never yields prices.
StaleNeverBecomesReady == \A d \in 1 .. Len(decisions) : Ready(d) => ~parameters[d].content.late

\* A passed safety audit is about the present: the verifier, run now, would pass
\* the latest decision, whatever was stored about it before.
SafetyPassedIsCurrent ==
  AuditPassed => LET d == Len(decisions)
                 IN /\ Verdict(d, CheckNow(d)) = "PASSED"
                    /\ decisions[d].selected # None => ~Stale(decisions[d].selected)

\* Evidence is only added: a decision, its parameters and its verification stay
\* what the first request that stored them found, whoever asks again.
EvidenceIsImmutable ==
  [][ /\ IsPrefix(decisions, decisions') /\ eligibilities \subseteq eligibilities'
      /\ \A d \in 1 .. MaxDecisions :
           /\ parameters[d] # None => parameters'[d] = parameters[d]
           /\ verifications[d] # None => verifications'[d] = verifications[d] ]_vars

\* An eligible snapshot that no longer matches its sources never matches them
\* again, through any number of failed, repeated and completed synchronizations.
\* One taken while SYNCING or after a failure may: those states come back with
\* the stamp they had.
StaleForGood ==
  [][ \A e \in eligibilities : e.status = "ELIGIBLE" /\ Stale(e) => Stale(e)' ]_vars

-----------------------------------------------------------------------------
(* The inductive invariant.  Every change of a market that is up to date, and *)
(* every change of what a lifecycle shows, leads to a higher rank, and no     *)
(* change to a lower one.  Markets that are not up to date may come back.  So *)
(* an eligible snapshot that is exact has been so all the time.               *)

MarketRank(m) == 2 * m.syncedAt + (IF m.sync # "UP_TO_DATE" THEN 1 ELSE 0)
LifeRank(l) ==
  (IF l.status = "RETIRED" THEN 1 ELSE 0) + (IF l.verified = "RETIRED" THEN 1 ELSE 0)

Markets == [bars : 1 .. Horizon, latest : 1 .. Horizon, sync : SyncStates, syncedAt : 1 .. Horizon]
Lives   == [status : {"VALIDATED", "RETIRED"}, verified : {"VALIDATED", "RETIRED"}]
Seens   == [life : Lives, market : Markets]
EligibilityRows ==
  [strategy : Strategies, at : Instants, seen : Seens, status : {"ELIGIBLE", "INELIGIBLE"}]
Reasons == {"ELIGIBILITY_INELIGIBLE", "STALE_ELIGIBILITY", "CURRENT_INPUT_UNAVAILABLE"}
CandidateRows ==
  [eligibility : EligibilityRows, seen : Seens, status : {"SIGNAL", "NO_SIGNAL", "BLOCKED"},
   bars : 0 .. Horizon,
   reason : Reasons \cup {None}]
DecisionRows == [candidates : SUBSET CandidateRows, selected : EligibilityRows \cup {None}]
Requests ==
  [op : {"IDLE", "DECISION", "PARAMETERS", "VERIFICATION", "AWAY"},
   todo : SUBSET EligibilityRows, cur : EligibilityRows \cup {None}, life : Lives \cup {None},
   evaluate : BOOLEAN, done : SUBSET CandidateRows, target : Nat,
   inputs : Inputs \cup {None}, late : BOOLEAN]

\* None is not a row, nor prices.
ASSUME NoneAssumption ==
  None \notin EligibilityRows /\ \A s \in Strategies, q \in Inputs : Priced(s, q) # None

\* The one is the other or older, or, of markets that are not up to date, its like.
MarketUpTo(m, n) ==
  /\ MarketRank(m) <= MarketRank(n)
  /\ m.sync = "UP_TO_DATE" /\ MarketRank(m) = MarketRank(n) => m = n
LifeUpTo(l, k) == l = k \/ LifeRank(l) < LifeRank(k)
OutOfDate(e, life, now) ==
  LifeRank(e.seen.life) < LifeRank(life) \/ MarketRank(e.seen.market) < MarketRank(now)

SourcesSound ==
  /\ market \in Markets /\ \A s \in Strategies : Lifecycle(s) \in Lives
  /\ \A s \in Strategies : status[s] = "VALIDATED" => lifecycle[s] = "VALIDATED"
  /\ eligibilities \subseteq EligibilityRows
  /\ \A e \in eligibilities : /\ LifeUpTo(e.seen.life, Lifecycle(e.strategy))
                              /\ MarketUpTo(e.seen.market, market)
                              /\ e.status = "ELIGIBLE" => e.seen.market.sync = "UP_TO_DATE"

\* Candidates out of one cohort: each was evaluated on its own bars, all that
\* were evaluated on the newest market any of the cohort had seen.
Evaluated(candidates) == {c \in candidates : c.status # "BLOCKED"}
CandidatesSound(candidates, cohort) ==
  /\ \A c, f \in candidates : c.eligibility = f.eligibility => c = f
  /\ \A c \in candidates : c.status = "BLOCKED" => c.reason \in Reasons
  /\ \A c \in Evaluated(candidates) :
       /\ c.eligibility.status = "ELIGIBLE"
       /\ c.bars \in 1 .. Horizon /\ c.status = Evaluation[c.eligibility.strategy][c.bars]
       /\ c.eligibility.seen.market = market => c.bars = market.bars
       /\ \A e \in cohort : MarketUpTo(e.seen.market, c.eligibility.seen.market)

Cohort(candidates) == {c.eligibility : c \in candidates}

DecisionsSound ==
  /\ decisions \in Seq(DecisionRows) /\ Len(decisions) <= MaxDecisions
  /\ \A d \in 1 .. Len(decisions) :
       LET candidates == decisions[d].candidates IN
       /\ Cohort(candidates) \subseteq eligibilities
       /\ CandidatesSound(candidates, Cohort(candidates))
       /\ decisions[d].selected # None =>
            \E c \in candidates : Signals(candidates) = {c} /\ decisions[d].selected = c.eligibility

\* What a decision evaluated, it evaluated on the bars its selected snapshot saw.
Settled(d) ==
  \A c \in Evaluated(decisions[d].candidates) : c.bars = decisions[d].selected.seen.market.bars

ArtifactsSound ==
  /\ parameters = [d \in 1 .. MaxDecisions |-> parameters[d]]
  /\ \A d \in 1 .. MaxDecisions :
       /\ parameters[d] # None => Arithmetic(d)
       /\ Ready(d) => decisions[d].selected # None /\ Settled(d)

\* A request knows its cohort; a recheck that has found its snapshot exact knows
\* that the decision is settled, and one that began too late never finds that.
InHand(r) == r.todo \cup Cohort(r.done) \cup (IF r.cur = None THEN {} ELSE {r.cur})
RecheckSound(r) ==
  LET e == decisions[r.target].selected IN
  /\ r.target \in 1 .. Len(decisions)
  /\ e # None =>
       /\ InHand(r) = {e}
       /\ r.evaluate \/ Evaluated(r.done) # {} => Settled(r.target)
       /\ r.late => /\ OutOfDate(e, Lifecycle(e.strategy), market)
                    /\ r.cur # None => OutOfDate(e, r.life, market)
                    /\ ~r.evaluate /\ \A c \in r.done : ~IsExact(c)
RequestSound(r) ==
  /\ r \in Requests /\ IsFiniteSet(r.todo) /\ IsFiniteSet(r.done)
  /\ InHand(r) \subseteq eligibilities
  /\ r.cur \notin r.todo /\ Cohort(r.done) \cap (r.todo \cup {r.cur}) = {}
  /\ r.cur # None => r.life \in Lives
  /\ r.evaluate => /\ r.cur # None /\ r.cur.status = "ELIGIBLE"
                   /\ \A e \in InHand(r) : MarketUpTo(e.seen.market, r.cur.seen.market)
  /\ CandidatesSound(r.done, InHand(r))
  /\ r.op = "PARAMETERS" => r.inputs \in Inputs
  /\ r.op \in {"PARAMETERS", "VERIFICATION"} => RecheckSound(r)

\* Prices that are ready rest on one market, and never come out of a request
\* made after the market, the strategy or its lifecycle had moved on; and what
\* rows and requests know that makes it so.
RouterInv ==
  /\ TypeOK /\ ReadyRestsOnOneMarket /\ StaleNeverBecomesReady
  /\ SourcesSound /\ IsFiniteSet(eligibilities) /\ DecisionsSound /\ ArtifactsSound
  /\ req = [w \in Workers |-> req[w]] /\ \A w \in Workers : RequestSound(req[w])
==============================================================================
