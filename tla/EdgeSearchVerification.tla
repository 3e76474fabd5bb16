----------------------- MODULE EdgeSearchVerification -----------------------
(***************************************************************************)
(* A campaign from its pre-registration to its verified record: create     *)
(* (edge_search.py) freezes the grid, the machine of EdgeSearch runs it,   *)
(* the chain verifier (edge_search_verification.py) writes what it found,  *)
(* and breadth evidence (edge_search_breadth.py) is measured beside it.    *)
(*                                                                         *)
(* The verifier reads the ledgers in one query after the other, so between *)
(* two of them the campaign may move on; and the world it was registered   *)
(* in changes: the dataset grows, a release changes the capability         *)
(* registry, another authorization promotes a campaign's strategy.         *)
(***************************************************************************)
EXTENDS EdgeSearch, EdgeSearchGrid

CONSTANTS
    Payloads,      \* what callers ask to pre-register
    Shipped,       \* the capability registry, block -> definition
    Releases,      \* the registries later releases can ship
    MaxBreadthRows, \* bound: breadth rows of one trial
    None

\* The grids that can be frozen.  Enumerated again from the dimensions it lists, a
\* grid is itself: they are sorted already.
Grids == {GridRecord(payload.dimensions) : payload \in {p \in Payloads : WellDeclared(p.dimensions)}}

ASSUME RowsAssumption == MaxBreadthRows \in Nat
ASSUME GridsAssumption == \A grid \in Grids : GridRecord(grid.dimensions) = grid

VARIABLES
    campaign,      \* the pre-registered campaign; not `recorded` before its commit
    registry,      \* the release's capability registry
    promoted,      \* trials whose strategy another service has promoted to VALIDATED
    audit,         \* the verification request in flight
    verifications, \* EdgeSearchCampaignVerification rows
    breadth        \* EdgeSearchTrialBreadth rows of each trial

surroundings == <<campaign, registry, promoted>>
evidenceRows == <<verifications, breadth>>
allVars == <<vars, surroundings, evidenceRows, audit>>

\* base: verify's own checks.  survivors, opened, decided, verdict: the rows
\* assess lists.  read: what its second assessment of the conclusion has read.
NoAudit == [step |-> "idle", base |-> FALSE, survivors |-> {}, opened |-> {}, decided |-> {},
            verdict |-> "NONE",
            read |-> [complete |-> FALSE, survivors |-> FALSE, decisions |-> {}]]

Registered == campaign # None /\ campaign.recorded

-----------------------------------------------------------------------------
(* create *)

\* The report is ready; the row it leads to holds the dataset and the blocks of
\* this moment (bound: grids of TrialCount points).
ValidatePayload(payload) ==
    /\ campaign = None /\ ~grown
    /\ Ready(payload, registry)
    /\ LET grid == GridRecord(payload.dimensions) IN
       /\ Len(grid.trials) = TrialCount
       /\ campaign' = [recorded |-> FALSE, dataset |-> grown, grid |-> grid,
                       dependencies |-> Dependencies(registry, grid)]
    /\ UNCHANGED <<vars, registry, promoted, evidenceRows, audit>>

\* The campaign is inserted; the same payload again answers with this row.
RegisterCampaign ==
    /\ campaign # None /\ ~campaign.recorded
    /\ campaign' = [campaign EXCEPT !.recorded = TRUE]
    /\ UNCHANGED <<vars, registry, promoted, evidenceRows, audit>>

\* Sweeps, openings and conclusions of the registered campaign.
Run ==
    /\ Registered
    /\ \E w \in Workers : Sweep(w) \/ Open(w) \/ Verdict(w)
    /\ UNCHANGED <<surroundings, evidenceRows, audit>>

-----------------------------------------------------------------------------
(* verify, assess and materialize *)

\* Slip: recomputed from the live dataset row (before ARK-S25-01).
RecomputedLive(c) == [dataset |-> grown, grid |-> GridRecord(c.grid.dimensions)]

\* The fingerprint's material, recomputed from what the campaign recorded.
Recomputed(c) == [dataset |-> c.dataset, grid |-> GridRecord(c.grid.dimensions)]

\* verify: the grid recomputes, its blocks still mean what they meant, and the
\* budget ledger is gapless.
CampaignChecks ==
    /\ Recomputed(campaign) = [dataset |-> campaign.dataset, grid |-> campaign.grid]
    /\ Dependencies(registry, campaign.grid) = campaign.dependencies
    /\ UsedBlocks(campaign.grid) \subseteq DOMAIN registry
    /\ Cardinality(Opened) <= Budget
    /\ {openings[t] : t \in Opened} = 1..Cardinality(Opened)

Audit(from, to, seen) ==
    /\ audit.step = from
    /\ audit' = [seen EXCEPT !.step = to]
    /\ UNCHANGED <<vars, surroundings, evidenceRows>>

BeginAudit ==
    /\ Registered
    /\ Audit("idle", "trials", [NoAudit EXCEPT !.base = CampaignChecks])

ListTrials == Audit("trials", "openings", [audit EXCEPT !.survivors = Survivors])

ListOpenings == Audit("openings", "outcomes", [audit EXCEPT !.opened = Opened])

ListOutcomes == Audit("outcomes", "conclusion", [audit EXCEPT !.decided = Decided])

ReadConclusion ==
    Audit("conclusion", "assess trials", [audit EXCEPT !.verdict = conclusion])

\* assess_conclusion, again three queries.
AssessTrials ==
    Audit("assess trials", "assess outcomes",
          [audit EXCEPT !.read.complete = \A t \in Trials : trials[t] # "PENDING",
                        !.read.survivors = (Survivors # {})])

AssessOutcomes ==
    Audit("assess outcomes", "materialize",
          [audit EXCEPT !.read.decisions = {outcomes[t] : t \in Decided}])

Assessed(read) ==
    CASE "PASS" \in read.decisions -> "EDGE_CANDIDATE_FOUND"
      [] NoEdge(read, Cardinality(Opened)) -> "NO_EDGE_FOUND"
      [] OTHER -> "IN_PROGRESS"

\* Slip: a recorded verdict is not compared with its recomputation.
ChainChecksWithoutVerdict(a) ==
    /\ a.base
    /\ a.decided \subseteq a.opened /\ a.decided \subseteq a.survivors
    /\ \A t \in a.decided : \E version \in BOOLEAN : evidence[t][version] = outcomes[t]
    /\ a.decided \cap promoted = {}

\* The checks of the chain: each listed outcome has a listed opening, is of a
\* listed survivor, says what its evidence says and is of a strategy that is
\* not VALIDATED; a recorded verdict is the one that the ledgers give.
ChainChecks(a) ==
    /\ a.base
    /\ a.decided \subseteq a.opened /\ a.decided \subseteq a.survivors
    /\ \A t \in a.decided : \E version \in BOOLEAN : evidence[t][version] = outcomes[t]
    /\ a.decided \cap promoted = {}
    /\ a.verdict \in {"NONE", Assessed(a.read)}

\* The row's fingerprint is over everything it lists; an equal row is reused.
MaterializeVerification ==
    /\ audit.step = "materialize"
    /\ verifications' = verifications \cup
          {[passed |-> ChainChecks(audit), survivors |-> audit.survivors, opened |-> audit.opened,
            decided |-> audit.decided, verdict |-> audit.verdict,
            promoted |-> audit.decided \cap promoted, registry |-> registry]}
    /\ audit' = NoAudit
    /\ UNCHANGED <<vars, surroundings, breadth>>

-----------------------------------------------------------------------------
(* edge_search_breadth: measure and materialize, from an operator's shell *)

\* Slip: the partitions of the dataset as it is now.
SpanOfToday(t) == grown

\* The partitions whose index ranges the trial recorded: a trial runs only on
\* the dataset of its campaign.
RecordedSpan(t) == campaign.dataset

\* Train and holdout of an evaluated trial are replayed.  What comes out is a
\* function of the bars read and of what the blocks mean.
MeasureBreadth(t) ==
    /\ Registered /\ DOMAIN campaign.dependencies \subseteq DOMAIN registry
    /\ trials[t] \in {"SURVIVOR", "NO_SURVIVOR"}
    /\ Cardinality(breadth[t]) < MaxBreadthRows
    /\ \E within \in BOOLEAN :
          LET row == [span |-> RecordedSpan(t), dataset |-> grown,
                      blocks |-> [b \in DOMAIN campaign.dependencies |-> registry[b]],
                      within |-> within]
          IN /\ \A r \in breadth[t] :
                   r.span = row.span /\ r.blocks = row.blocks => r.within = within
             /\ breadth' = [breadth EXCEPT ![t] = @ \cup {row}]
    /\ UNCHANGED <<vars, surroundings, verifications, audit>>

\* selection: of each measured survivor one row, whichever a query without an
\* order yields last; those within the ceiling are ranked.
Measured == {t \in Survivors : breadth[t] # {}}

Selections ==
    {{t \in Measured : row[t].within} :
        row \in {f \in [Measured -> UNION {breadth[t] : t \in Trials}] :
                    \A t \in Measured : f[t] \in breadth[t]}}

-----------------------------------------------------------------------------
(* The surroundings *)

\* An eligibility and a promotion of the accepted lifecycle, outside the campaign.
PromoteStrategy(t) ==
    /\ t \notin promoted
    /\ \E version \in BOOLEAN : evidence[t][version] = "PASS"
    /\ promoted' = promoted \cup {t}
    /\ UNCHANGED <<vars, campaign, registry, evidenceRows, audit>>

Grow ==
    /\ campaign # None /\ DatasetGrows
    /\ UNCHANGED <<surroundings, evidenceRows, audit>>

\* The service stops and starts, perhaps as another release (bound: once there is
\* a campaign): requests in flight are gone, and a campaign not yet committed.
Restart ==
    /\ req' = [w \in Workers |-> Idle] /\ audit' = NoAudit
    /\ campaign' = IF Registered THEN campaign ELSE None
    /\ registry' \in IF Registered THEN Releases ELSE {registry}
    /\ UNCHANGED <<ledgers, grown, promoted, evidenceRows>>

CampaignInit ==
    /\ Init
    /\ campaign = None /\ registry = Shipped /\ promoted = {}
    /\ audit = NoAudit
    /\ verifications = {} /\ breadth = [t \in Trials |-> {}]

AuditStep ==
    \/ BeginAudit \/ ListTrials \/ ListOpenings \/ ListOutcomes \/ ReadConclusion
    \/ AssessTrials \/ AssessOutcomes \/ MaterializeVerification

CampaignNext ==
    \/ \E payload \in Payloads : ValidatePayload(payload)
    \/ RegisterCampaign
    \/ Run
    \/ AuditStep
    \/ \E t \in Trials : MeasureBreadth(t) \/ PromoteStrategy(t)
    \/ Grow
    \/ Restart

CampaignSpec == CampaignInit /\ [][CampaignNext]_allVars

-----------------------------------------------------------------------------
(* Safety *)

\* A PASSED row never carries an empty verdict beside a gate that passed, in
\* whatever order openings, outcomes and the conclusion commit while it is read.
PassedRowAgrees ==
    \A row \in verifications :
        row.passed /\ row.verdict = "NO_EDGE_FOUND" =>
            \A t \in row.decided : outcomes[t] # "PASS"

\* A FAILED row has a ground in the world it read: the blocks of the campaign
\* changed, a strategy of it was promoted, its empty verdict is contradicted by
\* an outcome, or an outcome was recorded behind the verifier's earlier reads.
\* A dataset that grew and a registry that was extended are no ground.
FailureHasGround ==
    \A row \in verifications :
        \/ row.passed
        \/ Dependencies(row.registry, campaign.grid) # campaign.dependencies
        \/ row.promoted # {}
        \/ row.verdict = "NO_EDGE_FOUND" /\ \E t \in Trials : outcomes[t] = "PASS"
        \/ ~(row.decided \subseteq row.opened \cap row.survivors)

\* Which survivors an opening may be spent on does not depend on how often, and
\* on which growth of the dataset, their breadth was measured.
SelectionIsDetermined ==
    (\A t \in Trials : \A r, s \in breadth[t] : r.blocks = s.blocks)
        => Cardinality(Selections) = 1

-----------------------------------------------------------------------------
(* The inductive invariant of a registered campaign *)

\* What a campaign froze: blocks that the registry had, all those of its grid.
CampaignSound ==
    campaign # None =>
        /\ campaign = [recorded |-> campaign.recorded, dataset |-> campaign.dataset,
                       grid |-> campaign.grid, dependencies |-> campaign.dependencies]
        /\ campaign.recorded \in BOOLEAN
        /\ campaign.grid \in Grids
        /\ DOMAIN campaign.dependencies = UsedBlocks(campaign.grid)

AuditStates ==
    [step : {"idle", "trials", "openings", "outcomes", "conclusion", "assess trials",
             "assess outcomes", "materialize"},
     base : BOOLEAN, survivors : SUBSET Trials, opened : SUBSET Trials, decided : SUBSET Trials,
     verdict : Verdicts \cup {"NONE"},
     read : [complete : BOOLEAN, survivors : BOOLEAN, decisions : SUBSET Decisions]]

BlocksKept(released) == Dependencies(released, campaign.grid) = campaign.dependencies

\* What the verifier has read still holds of the ledgers, or can be told from what
\* it reads later; its own checks fail only over redefined blocks.
AuditSound(a) ==
    /\ a \in AuditStates
    /\ a.step # "idle" => Registered /\ (a.base \/ ~BlocksKept(registry))
    /\ a.decided \subseteq Decided
    /\ a.verdict = "EDGE_CANDIDATE_FOUND" => \E t \in Trials : outcomes[t] = "PASS"
    /\ a.verdict = "NO_EDGE_FOUND" => EmptyHasGround
    /\ a.step \in {"assess outcomes", "materialize"} /\ a.verdict = "NO_EDGE_FOUND" =>
          a.read.complete /\ (a.read.survivors => Survivors # {})
    /\ a.step = "materialize" =>
          /\ \A t \in a.decided : outcomes[t] \in a.read.decisions
          /\ "PASS" \in a.read.decisions => \E t \in Trials : outcomes[t] = "PASS"
          /\ a.verdict = "EDGE_CANDIDATE_FOUND" => "PASS" \in a.read.decisions
          /\ a.verdict = "NO_EDGE_FOUND" =>
                \/ ~a.read.survivors \/ a.read.decisions # {} \/ Cardinality(Opened) >= Budget

RowsSound ==
    /\ verifications # {} => Registered
    /\ \A row \in verifications : row.decided \subseteq Decided

\* Breadth is a function of the recorded span and the blocks.
BreadthSound ==
    \A t \in Trials :
        /\ breadth[t] # {} => Registered
        /\ \A r, s \in breadth[t] :
              r.span = campaign.dataset /\ (r.blocks = s.blocks => r.within = s.within)

\* The ledgers are sound, and what is read of them behind the campaign's back by the
\* verifier and by the breadth measurement agrees with them.
CampaignInv ==
    /\ IInv
    /\ CampaignSound /\ AuditSound(audit) /\ RowsSound /\ BreadthSound
    /\ PassedRowAgrees /\ FailureHasGround
    /\ breadth = [t \in Trials |-> breadth[t]]
=============================================================================
