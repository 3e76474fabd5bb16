------------------------- MODULE StrategyRouterProofs -------------------------
(***************************************************************************)
(* Proofs, for any number of workers, strategies, decisions and changes of *)
(* the sources, of the safety properties of StrategyRouter.                *)
(*                                                                         *)
(* The argument is one of ranks.  A change of a market that is up to date, *)
(* or of what a lifecycle shows, leads to a higher rank, no change leads   *)
(* to a lower one, and a row was at most as new as the sources when it was *)
(* stored; so an eligible snapshot that is exact now has been exact since  *)
(* it was stored, and everything a request evaluated after its recheck of  *)
(* the newest snapshot was evaluated on one market.  Markets that are not  *)
(* up to date share a rank: failed and repeated syncs come back to them.   *)
(***************************************************************************)
EXTENDS StrategyRouter, FiniteSetTheorems, TLAPS

-----------------------------------------------------------------------------
(* Ranks *)

LEMMA MarketRanks ==
    ASSUME NEW m \in Markets
    PROVE  MarketRank(m) \in Int
BY DEF Markets, MarketRank

LEMMA LifeRanks ==
    ASSUME NEW l \in Lives
    PROVE  LifeRank(l) \in Int
BY DEF Lives, LifeRank

\* "Up to" is an order, strict where a market is up to date.
LEMMA MarketOrder ==
    ASSUME NEW m \in Markets, NEW n \in Markets, NEW o \in Markets, MarketUpTo(n, o)
    PROVE  /\ MarketUpTo(m, n) => MarketUpTo(m, o)
           /\ MarketRank(m) < MarketRank(n) => MarketRank(m) < MarketRank(o)
           /\ MarketUpTo(m, n) /\ m = o /\ m.sync = "UP_TO_DATE" => m = n
BY MarketRanks DEF MarketUpTo

LEMMA MarketSelf ==
    ASSUME NEW m \in Markets
    PROVE  MarketUpTo(m, m)
BY MarketRanks DEF MarketUpTo

LEMMA LifeOrder ==
    ASSUME NEW m \in Lives, NEW n \in Lives, NEW o \in Lives, LifeUpTo(n, o)
    PROVE  /\ LifeUpTo(m, n) => LifeUpTo(m, o)
           /\ LifeRank(m) < LifeRank(n) => LifeRank(m) < LifeRank(o)
           /\ LifeUpTo(m, n) /\ m = o => m = n
BY LifeRanks DEF LifeUpTo

-----------------------------------------------------------------------------
(* What happens to the world while a request waits *)

\* The sources only move on to higher ranks, and rows are only added.
World ==
    /\ market' \in Markets /\ MarketUpTo(market, market')
    /\ \A s \in Strategies : Lifecycle(s)' \in Lives /\ LifeUpTo(Lifecycle(s), Lifecycle(s)')
    /\ eligibilities \subseteq eligibilities'
    /\ Len(decisions) <= Len(decisions')
    /\ \A d \in 1 .. Len(decisions) : decisions'[d] = decisions[d]

\* An eligibility that is stored is of the sources, or older.
LEMMA RowFacts ==
    ASSUME SourcesSound, NEW e \in eligibilities
    PROVE  /\ e \in EligibilityRows /\ e.strategy \in Strategies
           /\ e.seen.life \in Lives /\ e.seen.market \in Markets
           /\ e.seen = [life |-> e.seen.life, market |-> e.seen.market]
           /\ LifeUpTo(e.seen.life, Lifecycle(e.strategy)) /\ MarketUpTo(e.seen.market, market)
           /\ e.status = "ELIGIBLE" => e.seen.market.sync = "UP_TO_DATE"
<1>1. e \in EligibilityRows
    BY DEF SourcesSound
<1>2. e.strategy \in Strategies /\ e.seen \in Seens
    BY <1>1 DEF EligibilityRows
<1> QED BY <1>1, <1>2 DEF SourcesSound, Seens

\* An eligible snapshot that is stale is older than the sources in one of them.
LEMMA StaleIsOutOfDate ==
    ASSUME SourcesSound, NEW e \in eligibilities, e.status = "ELIGIBLE", Stale(e)
    PROVE  OutOfDate(e, Lifecycle(e.strategy), market)
<1>1. /\ e.seen.market \in Markets /\ market \in Markets /\ MarketUpTo(e.seen.market, market)
      /\ e.seen.market.sync = "UP_TO_DATE" /\ LifeUpTo(e.seen.life, Lifecycle(e.strategy))
      /\ e.seen = [life |-> e.seen.life, market |-> e.seen.market]
    BY RowFacts DEF SourcesSound
<1>2. e.seen.market # market => MarketRank(e.seen.market) < MarketRank(market)
    BY <1>1, MarketRanks DEF MarketUpTo
<1> QED BY <1>1, <1>2 DEF Stale, Exact, OutOfDate, LifeUpTo

\* Candidates stay sound: none becomes exact on a market that is still to come.
LEMMA CandidatesKept ==
    ASSUME SourcesSound, World, NEW candidates, NEW cohort,
           Cohort(candidates) \subseteq eligibilities, CandidatesSound(candidates, cohort)
    PROVE  CandidatesSound(candidates, cohort)'
<1>1. ASSUME NEW c \in Evaluated(candidates), c.eligibility.seen.market = market'
      PROVE  c.eligibility.seen.market = market /\ market' = market
    <2>1. c.eligibility \in eligibilities /\ c.eligibility.status = "ELIGIBLE"
        BY DEF Cohort, CandidatesSound, Evaluated
    <2>2. /\ c.eligibility.seen.market \in Markets
          /\ MarketUpTo(c.eligibility.seen.market, market)
          /\ c.eligibility.seen.market.sync = "UP_TO_DATE"
        BY <2>1, RowFacts
    <2>3. market \in Markets /\ market' \in Markets /\ MarketUpTo(market, market')
        BY DEF SourcesSound, World
    <2> QED BY <2>2, <2>3, <1>1, MarketOrder
<1>2. Evaluated(candidates) \subseteq candidates
    BY DEF Evaluated
<1> QED BY <1>1, <1>2 DEF CandidatesSound

LEMMA OutOfDateKept ==
    ASSUME SourcesSound, World, NEW e \in eligibilities, NEW l \in Lives, NEW k \in Lives,
           LifeUpTo(l, k), OutOfDate(e, l, market)
    PROVE  OutOfDate(e, k, market')
<1>1. e.seen.life \in Lives /\ e.seen.market \in Markets
    BY RowFacts
<1>2. market \in Markets /\ market' \in Markets /\ MarketUpTo(market, market')
    BY DEF SourcesSound, World
<1> QED BY <1>1, <1>2, MarketOrder, LifeOrder DEF OutOfDate

\* A request that waits stays sound, whatever the world does meanwhile.
LEMMA RequestKept ==
    ASSUME SourcesSound, DecisionsSound, World, NEW r, RequestSound(r)
    PROVE  RequestSound(r)'
<1>1. /\ r \in Requests /\ IsFiniteSet(r.todo) /\ IsFiniteSet(r.done)
      /\ InHand(r) \subseteq eligibilities /\ Cohort(r.done) \subseteq eligibilities
    BY DEF RequestSound, InHand
<1>2. InHand(r) \subseteq eligibilities' /\ CandidatesSound(r.done, InHand(r))'
    BY <1>1, CandidatesKept DEF RequestSound, World
<1>3. ASSUME RecheckSound(r)
      PROVE  RecheckSound(r)'
    <2>1. /\ r.target \in 1 .. Len(decisions) /\ r.target \in 1 .. Len(decisions')
          /\ decisions'[r.target] = decisions[r.target]
        BY <1>3 DEF RecheckSound, World, DecisionsSound
    <2>2. Settled(r.target)' <=> Settled(r.target)
        BY <2>1 DEF Settled
    <2>3. PICK e : e = decisions[r.target].selected
        OBVIOUS
    <2>4. ASSUME e # None, r.late
          PROVE  /\ OutOfDate(e, Lifecycle(e.strategy)', market')
                 /\ r.cur # None => OutOfDate(e, r.life, market')
        <3>1. e \in eligibilities
            BY <1>1, <1>3, <2>3, <2>4 DEF RecheckSound
        <3>2. /\ e.strategy \in Strategies
              /\ Lifecycle(e.strategy) \in Lives /\ Lifecycle(e.strategy)' \in Lives
              /\ LifeUpTo(Lifecycle(e.strategy), Lifecycle(e.strategy)')
            BY <3>1, RowFacts DEF SourcesSound, World
        <3>3. PICK l, k : l = Lifecycle(e.strategy) /\ k = Lifecycle(e.strategy)'
            OBVIOUS
        <3>4. OutOfDate(e, k, market')
            <4>1. OutOfDate(e, l, market)
                BY <1>3, <2>3, <2>4, <3>3 DEF RecheckSound
            <4> QED BY <4>1, <3>1, <3>2, <3>3, OutOfDateKept
        <3>5. r.cur # None => OutOfDate(e, r.life, market')
            <4>1. r.cur # None => r.life \in Lives /\ OutOfDate(e, r.life, market)
                BY <1>3, <2>3, <2>4 DEF RecheckSound, RequestSound
            <4> QED BY <4>1, <3>1, OutOfDateKept DEF LifeUpTo
        <3> QED BY <3>3, <3>4, <3>5
    <2> QED BY <1>3, <2>1, <2>2, <2>3, <2>4 DEF RecheckSound, OutOfDate, Lifecycle
<1> QED BY <1>1, <1>2, <1>3 DEF RequestSound

-----------------------------------------------------------------------------
(* The invariant in parts, as its steps disturb them *)

ArtifactTypes ==
    \A d \in 1 .. MaxDecisions : parameters[d] # None =>
        /\ d <= Len(decisions)
        /\ parameters[d].status \in {"READY", "BLOCKED", "NO_TRADE"}
        /\ parameters[d].prices # None <=> Ready(d)

StatusTypes ==
    /\ status \in [Strategies -> {"VALIDATED", "RETIRED"}]
    /\ lifecycle \in [Strategies -> {"VALIDATED", "RETIRED"}]

Evidence ==
    /\ DecisionsSound /\ ArtifactsSound /\ ArtifactTypes /\ StaleNeverBecomesReady
    /\ verifications \in [1 .. MaxDecisions -> {"PASSED", "FAILED", None}]

RequestsSound == req = [w \in Workers |-> req[w]] /\ \A w \in Workers : RequestSound(req[w])

Core == StatusTypes /\ SourcesSound /\ IsFiniteSet(eligibilities) /\ Evidence /\ RequestsSound

\* A decision's candidates are told apart by their snapshots, so the one that
\* signalled alone is the one the decision observed.
LEMMA ObservedSignal ==
    ASSUME DecisionsSound, NEW d \in 1 .. Len(decisions), decisions[d].selected # None
    PROVE  /\ Observed(d) \in decisions[d].candidates
           /\ Signals(decisions[d].candidates) = {Observed(d)}
           /\ Observed(d).eligibility = decisions[d].selected
<1>1. PICK c \in decisions[d].candidates :
          Signals(decisions[d].candidates) = {c} /\ decisions[d].selected = c.eligibility
    BY DEF DecisionsSound
<1>2. \A f \in decisions[d].candidates : f.eligibility = decisions[d].selected => f = c
    BY <1>1 DEF DecisionsSound, CandidatesSound
<1>3. Observed(d) = c
    BY <1>1, <1>2 DEF Observed
<1> QED BY <1>1, <1>3

\* What the artifacts know makes prices rest on one market.
LEMMA SettledIsOneMarket == DecisionsSound /\ ArtifactsSound => ReadyRestsOnOneMarket
<1> SUFFICES ASSUME DecisionsSound, ArtifactsSound, NEW d \in 1 .. Len(decisions), Ready(d)
             PROVE  LET e == decisions[d].selected
                        evaluated == {c \in decisions[d].candidates : c.status # "BLOCKED"}
                    IN /\ \A c \in evaluated : c.bars = e.seen.market.bars
                       /\ {c \in evaluated :
                             Evaluation[c.eligibility.strategy][e.seen.market.bars] = "SIGNAL"}
                            = {Observed(d)}
    BY DEF ReadyRestsOnOneMarket
<1> DEFINE candidates == decisions[d].candidates
           bars == decisions[d].selected.seen.market.bars
<1>1. d \in 1 .. MaxDecisions
    BY RouterAssumption DEF DecisionsSound
<1>2. decisions[d].selected # None /\ \A c \in Evaluated(candidates) : c.bars = bars
    BY <1>1 DEF ArtifactsSound, Settled
<1>3. \A c \in Evaluated(candidates) : c.status = Evaluation[c.eligibility.strategy][bars]
    BY <1>2 DEF DecisionsSound, CandidatesSound
<1>4. Signals(candidates) = {Observed(d)}
    BY <1>2, ObservedSignal
<1>5. {c \in Evaluated(candidates) : Evaluation[c.eligibility.strategy][bars] = "SIGNAL"}
        = Signals(candidates)
    BY <1>3 DEF Evaluated, Signals
<1> QED BY <1>2, <1>4, <1>5 DEF Evaluated

LEMMA CoreIsInv == Core <=> RouterInv
<1>1. ASSUME RouterInv PROVE Core
    BY <1>1 DEF RouterInv, Core, TypeOK, StatusTypes, Evidence, ArtifactTypes, RequestsSound
<1>2. ASSUME Core PROVE RouterInv
    <2>1. /\ StatusTypes /\ SourcesSound /\ IsFiniteSet(eligibilities) /\ DecisionsSound
          /\ ArtifactsSound /\ ArtifactTypes /\ StaleNeverBecomesReady /\ RequestsSound
          /\ verifications \in [1 .. MaxDecisions -> {"PASSED", "FAILED", None}]
        BY <1>2 DEF Core, Evidence
    <2>2. /\ market.bars \in 1 .. Horizon /\ market.syncedAt \in 1 .. Horizon
          /\ market.latest \in 1 .. Horizon /\ market.sync \in SyncStates
        BY <2>1 DEF SourcesSound, Markets
    <2>3. \A e \in eligibilities : e.strategy \in Strategies /\ e.at \in Instants
        BY <2>1 DEF SourcesSound, EligibilityRows
    <2>4. ASSUME NEW d \in 1 .. Len(decisions)
          PROVE  /\ {c.eligibility : c \in decisions[d].candidates} \subseteq eligibilities
                 /\ decisions[d].selected \in
                      {c.eligibility : c \in Signals(decisions[d].candidates)} \cup {None}
        BY <2>1 DEF DecisionsSound, Cohort
    <2>5. \A w \in Workers :
              req[w].op \in {"IDLE", "DECISION", "PARAMETERS", "VERIFICATION", "AWAY"}
        BY <2>1 DEF RequestsSound, RequestSound, Requests
    <2>6. TypeOK
        BY <2>1, <2>2, <2>3, <2>4, <2>5 DEF TypeOK, StatusTypes, ArtifactTypes
    <2> QED BY <2>1, <2>6, SettledIsOneMarket DEF RouterInv, RequestsSound
<1> QED BY <1>1, <1>2

\* Decisions keep what they know of a world that moves on.
LEMMA DecisionsKept ==
    ASSUME SourcesSound, DecisionsSound, World, UNCHANGED decisions
    PROVE  DecisionsSound'
<1>1. ASSUME NEW d \in 1 .. Len(decisions)
      PROVE  /\ Cohort(decisions[d].candidates) \subseteq eligibilities'
             /\ CandidatesSound(decisions[d].candidates, Cohort(decisions[d].candidates))'
    <2>1. PICK candidates : candidates = decisions[d].candidates
        OBVIOUS
    <2>2. /\ Cohort(candidates) \subseteq eligibilities
          /\ CandidatesSound(candidates, Cohort(candidates))
        BY <2>1 DEF DecisionsSound
    <2>3. CandidatesSound(candidates, Cohort(candidates))'
        BY <2>2, CandidatesKept
    <2> QED BY <2>1, <2>2, <2>3 DEF World, CandidatesSound, Evaluated, Cohort
<1> QED BY <1>1 DEF DecisionsSound

\* So do artifacts, when decisions are only added.
LEMMA ArtifactsKept ==
    ASSUME Evidence, World, DecisionsSound', UNCHANGED parameters,
           verifications' \in [1 .. MaxDecisions -> {"PASSED", "FAILED", None}]
    PROVE  Evidence'
<1>1. \A d \in 1 .. MaxDecisions : parameters[d] # None =>
          /\ d <= Len(decisions) /\ d <= Len(decisions') /\ d \in 1 .. Len(decisions)
          /\ decisions'[d] = decisions[d]
    <2>1. DecisionsSound /\ ArtifactTypes
        BY DEF Evidence
    <2>2. Len(decisions) \in Nat /\ Len(decisions') \in Nat
        BY <2>1 DEF DecisionsSound
    <2>3. /\ Len(decisions) <= Len(decisions')
          /\ \A d \in 1 .. Len(decisions) : decisions'[d] = decisions[d]
        BY DEF World
    <2>4. MaxDecisions \in Nat
        BY RouterAssumption
    <2>5. ASSUME NEW d \in 1 .. MaxDecisions, parameters[d] # None
          PROVE  d <= Len(decisions)
        BY <2>1, <2>5 DEF ArtifactTypes
    <2> QED BY <2>2, <2>3, <2>4, <2>5
<1>2. \A d \in 1 .. MaxDecisions : Ready(d)' <=> Ready(d)
    BY DEF Ready
<1>3. \A d \in 1 .. MaxDecisions : parameters[d] # None =>
          (Settled(d)' <=> Settled(d)) /\ (Arithmetic(d)' <=> Arithmetic(d))
    BY <1>1 DEF Settled, Arithmetic
<1>4. ArtifactsSound'
    BY <1>1, <1>2, <1>3 DEF Evidence, ArtifactsSound, Ready
<1>5. ArtifactTypes'
    BY <1>1, <1>2 DEF Evidence, ArtifactTypes
<1>6. StaleNeverBecomesReady'
    <2>1. \A d \in 1 .. Len(decisions') : d \in 1 .. MaxDecisions
        BY RouterAssumption DEF DecisionsSound
    <2> QED BY <1>1, <1>2, <2>1 DEF Evidence, StaleNeverBecomesReady, Ready
<1> QED BY <1>4, <1>5, <1>6 DEF Evidence

\* Requests that wait; one that moves to r.
LEMMA RequestsWait ==
    ASSUME SourcesSound, DecisionsSound, World, RequestsSound, UNCHANGED req
    PROVE  RequestsSound'
<1>1. ASSUME NEW v \in Workers
      PROVE  RequestSound(req[v])'
    <2>1. PICK q : q = req[v]
        OBVIOUS
    <2>2. RequestSound(q)
        BY <2>1 DEF RequestsSound
    <2>3. RequestSound(q)'
        BY <2>2, RequestKept
    <2> QED BY <2>1, <2>3 DEF RequestSound, RecheckSound, CandidatesSound, InHand, Cohort,
            Evaluated, Settled, OutOfDate, IsExact
<1> QED BY <1>1 DEF RequestsSound

LEMMA RequestsMove ==
    ASSUME SourcesSound, DecisionsSound, World, RequestsSound,
           NEW w \in Workers, NEW r, RequestSound(r)', req' = [req EXCEPT ![w] = r]
    PROVE  RequestsSound'
<1>1. ASSUME NEW v \in Workers
      PROVE  RequestSound(req[v])'
    <2>1. PICK q : q = req'[v]
        OBVIOUS
    <2>2. q = IF v = w THEN r ELSE req[v]
        BY <2>1 DEF RequestsSound
    <2>3. RequestSound(q)'
        <3>1. CASE v = w
            BY <2>2, <3>1
        <3>2. CASE v # w
            <4>1. RequestSound(q)
                BY <2>2, <3>2 DEF RequestsSound
            <4> QED BY <4>1, RequestKept
        <3> QED BY <3>1, <3>2
    <2> QED BY <2>1, <2>3 DEF RequestSound, RecheckSound, CandidatesSound, InHand, Cohort,
            Evaluated, Settled, OutOfDate, IsExact
<1> QED BY <1>1 DEF RequestsSound

LEMMA SameWorld ==
    ASSUME SourcesSound, DecisionsSound,
           UNCHANGED <<status, lifecycle, market, eligibilities, decisions>>
    PROVE  World /\ SourcesSound'
<1>1. \A s \in Strategies : Lifecycle(s)' = Lifecycle(s)
    BY DEF Lifecycle
<1>2. World
    BY <1>1, MarketSelf DEF World, SourcesSound, LifeUpTo, DecisionsSound
<1>3. SourcesSound'
    BY DEF SourcesSound, Lifecycle, LifeUpTo
<1> QED BY <1>2, <1>3

\* A step that moves one request and nothing else.
LEMMA RequestMoves ==
    ASSUME Core, NEW w \in Workers, NEW r, RequestSound(r), req' = [req EXCEPT ![w] = r],
           UNCHANGED <<status, lifecycle, market, eligibilities, decisions, parameters, verifications>>
    PROVE  Core'
<1>1. SourcesSound /\ DecisionsSound /\ RequestsSound /\ Evidence
    BY DEF Core, Evidence
<1>2. World /\ SourcesSound'
    BY <1>1, SameWorld
<1>3. DecisionsSound' /\ RequestSound(r)'
    BY <1>1, <1>2, DecisionsKept, RequestKept
<1>4. Evidence' /\ RequestsSound'
    BY <1>1, <1>2, <1>3, ArtifactsKept, RequestsMove DEF Evidence
<1> QED BY <1>2, <1>4 DEF Core, StatusTypes

\* A step of the sources, or a new snapshot of them.
LEMMA WorldMoves ==
    ASSUME Core, World, SourcesSound', StatusTypes', IsFiniteSet(eligibilities'),
           UNCHANGED <<decisions, parameters, verifications, req>>
    PROVE  Core'
<1>1. SourcesSound /\ DecisionsSound /\ RequestsSound /\ Evidence
    BY DEF Core, Evidence
<1>2. DecisionsSound' /\ RequestsSound'
    BY <1>1, DecisionsKept, RequestsWait
<1>3. Evidence'
    BY <1>1, <1>2, ArtifactsKept DEF Evidence
<1> QED BY <1>2, <1>3 DEF Core

-----------------------------------------------------------------------------
(* The steps of the world *)

LEMMA CoreTypes ==
    ASSUME Core
    PROVE  /\ SourcesSound /\ StatusTypes /\ IsFiniteSet(eligibilities)
           /\ DecisionsSound /\ ArtifactsSound /\ Evidence /\ RequestsSound
           /\ decisions \in Seq(DecisionRows) /\ Len(decisions) \in Nat
           /\ market \in Markets
           /\ \A s \in Strategies : Lifecycle(s) \in Lives
<1>1. /\ SourcesSound /\ StatusTypes /\ IsFiniteSet(eligibilities)
      /\ DecisionsSound /\ ArtifactsSound /\ Evidence /\ RequestsSound
    BY DEF Core, Evidence
<1>2. decisions \in Seq(DecisionRows) /\ Len(decisions) \in Nat
    BY <1>1 DEF DecisionsSound
<1> QED BY <1>1, <1>2 DEF SourcesSound

\* A strategy is retired, or its lifecycle is verified again.
LEMMA LifecycleStep ==
    ASSUME Core, NEW s \in Strategies, Retire(s) \/ VerifyLifecycle(s)
    PROVE  Core' /\ World
<1>1. UNCHANGED <<market, eligibilities, decisions, parameters, verifications, req>>
    BY DEF Retire, VerifyLifecycle, rows
<1>2. SourcesSound /\ StatusTypes /\ market \in Markets /\ Len(decisions) \in Nat
    BY CoreTypes
<1>3. StatusTypes'
    BY <1>2 DEF StatusTypes, Retire, VerifyLifecycle
<1>4. \A t \in Strategies : t # s => Lifecycle(t)' = Lifecycle(t)
    BY <1>2 DEF StatusTypes, Retire, VerifyLifecycle, Lifecycle
<1>5. /\ status'[s] = "VALIDATED" => lifecycle'[s] = "VALIDATED"
      /\ LifeRank(Lifecycle(s)) < LifeRank(Lifecycle(s)')
    BY <1>2 DEF SourcesSound, StatusTypes, Retire, VerifyLifecycle, Lifecycle, LifeRank
<1>6. \A t \in Strategies : Lifecycle(t)' \in Lives
    BY <1>3 DEF StatusTypes, Lifecycle, Lives
<1>7. \A t \in Strategies : LifeUpTo(Lifecycle(t), Lifecycle(t)')
    BY <1>4, <1>5 DEF LifeUpTo
<1>8. World
    BY <1>1, <1>2, <1>6, <1>7, MarketSelf DEF World
<1>9. SourcesSound'
    <2>1. \A t \in Strategies : status'[t] = "VALIDATED" => lifecycle'[t] = "VALIDATED"
        BY <1>2, <1>4, <1>5 DEF SourcesSound, Lifecycle
    <2>2. ASSUME NEW e \in eligibilities
          PROVE  LifeUpTo(e.seen.life, Lifecycle(e.strategy)')
        <3>1. /\ e.strategy \in Strategies /\ e.seen.life \in Lives
              /\ LifeUpTo(e.seen.life, Lifecycle(e.strategy))
            BY <1>2, RowFacts
        <3>2. PICK l, k : l = Lifecycle(e.strategy) /\ k = Lifecycle(e.strategy)'
            OBVIOUS
        <3>3. l \in Lives /\ k \in Lives /\ LifeUpTo(l, k)
            BY <1>2, <1>6, <1>7, <3>1, <3>2 DEF SourcesSound
        <3> QED BY <3>1, <3>2, <3>3, LifeOrder
    <2> QED BY <1>1, <1>2, <1>6, <2>1, <2>2 DEF SourcesSound, Lifecycle, LifeUpTo
<1> QED BY <1>1, <1>3, <1>8, <1>9, WorldMoves DEF Core

\* The scheduler begins a synchronization, fails with it, or commits it.
LEMMA SyncStep ==
    ASSUME Core, SyncRequested \/ SyncFailed \/ SyncCompleted
    PROVE  Core' /\ World
<1>1. UNCHANGED <<status, lifecycle, eligibilities, decisions, parameters, verifications, req>>
    BY DEF SyncRequested, SyncFailed, SyncCompleted, rows
<1>2. SourcesSound /\ StatusTypes /\ market \in Markets /\ Len(decisions) \in Nat
    BY CoreTypes
<1>3. market' \in Markets /\ MarketUpTo(market, market')
    <2>1. CASE SyncRequested
        <3>1. market' = [bars |-> market.bars, latest |-> market.bars, sync |-> "SYNCING",
                         syncedAt |-> market.syncedAt]
            BY <2>1, <1>2 DEF SyncRequested, Markets
        <3>2. market.bars \in 1 .. Horizon /\ market.syncedAt \in 1 .. Horizon
            BY <1>2 DEF Markets
        <3>3. /\ market' \in Markets /\ market.syncedAt \in Int
              /\ market'.syncedAt = market.syncedAt /\ market'.sync # "UP_TO_DATE"
            BY <3>1, <3>2 DEF Markets, SyncStates
        <3> QED BY <3>3 DEF MarketUpTo, MarketRank
    <2>2. CASE SyncFailed
        <3>1. PICK m \in Markets :
                  m = market' /\ m.syncedAt = market.syncedAt /\ m.sync # "UP_TO_DATE"
            <4>1. CASE market' = [market EXCEPT !.sync = "FAILED"]
                BY <4>1, <1>2 DEF Markets, SyncStates
            <4>2. ASSUME NEW bars \in market.bars .. Horizon,
                         market' = [market EXCEPT !.sync = "MT5_UNAVAILABLE", !.bars = bars]
                  PROVE  \E m \in Markets :
                             m = market' /\ m.syncedAt = market.syncedAt /\ m.sync # "UP_TO_DATE"
                <5>1. bars \in 1 .. Horizon
                    BY <1>2, RouterAssumption DEF Markets
                <5>2. market' = [bars |-> bars, latest |-> market.latest,
                                 sync |-> "MT5_UNAVAILABLE", syncedAt |-> market.syncedAt]
                    BY <4>2, <1>2 DEF Markets
                <5>3. market.latest \in 1 .. Horizon /\ market.syncedAt \in 1 .. Horizon
                    BY <1>2 DEF Markets
                <5> QED BY <5>1, <5>2, <5>3 DEF Markets, SyncStates
            <4>3. CASE market' = [market EXCEPT !.sync = "MT5_UNAVAILABLE"]
                BY <4>3, <1>2 DEF Markets, SyncStates
            <4> QED BY <2>2, <4>1, <4>2, <4>3 DEF SyncFailed
        <3>2. market.syncedAt \in Int
            BY <1>2 DEF Markets
        <3> QED BY <3>1, <3>2 DEF MarketUpTo, MarketRank
    <2>3. CASE SyncCompleted
        <3> PICK at \in market.syncedAt + 1 .. Horizon :
                 \E bars \in market.bars .. at : market' = Synced(bars, at)
            BY <2>3 DEF SyncCompleted
        <3>1. PICK bars \in market.bars .. at : market' = Synced(bars, at)
            OBVIOUS
        <3>2. /\ market.bars \in 1 .. Horizon /\ market.syncedAt \in 1 .. Horizon
              /\ Horizon \in Nat
            BY <1>2, RouterAssumption DEF Markets
        <3>3. bars \in 1 .. Horizon /\ at \in 1 .. Horizon /\ market.syncedAt + 1 <= at
            BY <3>1, <3>2
        <3>4. market' \in Markets /\ market'.syncedAt = at /\ market'.sync = "UP_TO_DATE"
            BY <3>1, <3>3 DEF Synced, Markets, SyncStates
        <3>5. MarketRank(market) < MarketRank(market')
            BY <3>2, <3>3, <3>4 DEF MarketRank
        <3>6. MarketRank(market) \in Int /\ MarketRank(market') \in Int
            BY <3>2, <3>3, <3>4 DEF MarketRank
        <3> QED BY <3>4, <3>5, <3>6 DEF MarketUpTo
    <2> QED BY <2>1, <2>2, <2>3
<1>4. \A s \in Strategies : Lifecycle(s)' = Lifecycle(s)
    BY <1>1 DEF Lifecycle
<1>5. World
    BY <1>1, <1>2, <1>3, <1>4 DEF World, LifeUpTo, SourcesSound
<1>6. SourcesSound'
    <2>1. ASSUME NEW e \in eligibilities
          PROVE  MarketUpTo(e.seen.market, market')
        <3>1. e.seen.market \in Markets /\ MarketUpTo(e.seen.market, market)
            BY <1>2, RowFacts
        <3>2. PICK m : m = market'
            OBVIOUS
        <3>3. MarketUpTo(market, m) /\ m \in Markets
            BY <1>3, <3>2
        <3> QED BY <3>1, <3>2, <3>3, <1>2, MarketOrder
    <2> QED BY <1>1, <1>2, <1>3, <2>1 DEF SourcesSound, Lifecycle, LifeUpTo, MarketUpTo
<1> QED BY <1>1, <1>2, <1>5, <1>6, WorldMoves DEF Core, StatusTypes

\* A new snapshot is of the sources as they are.
LEMMA MaterializeStep ==
    ASSUME Core, NEW s \in Strategies, NEW at \in Instants, MaterializeEligibility(s, at)
    PROVE  Core'
<1>1. UNCHANGED <<status, lifecycle, market, decisions, parameters, verifications, req>>
    BY DEF MaterializeEligibility, sources
<1>2. /\ SourcesSound /\ StatusTypes /\ market \in Markets /\ Len(decisions) \in Nat
      /\ IsFiniteSet(eligibilities) /\ \A t \in Strategies : Lifecycle(t) \in Lives
    BY CoreTypes
<1>3. PICK e : /\ e = Eligibility(s, at, [life |-> Lifecycle(s), market |-> market])
               /\ eligibilities' = eligibilities \cup {e}
    BY DEF MaterializeEligibility
<1>4. /\ e \in EligibilityRows /\ e.strategy = s
      /\ e.seen.life = Lifecycle(s) /\ e.seen.market = market
      /\ e.status = "ELIGIBLE" => market.sync = "UP_TO_DATE"
    <2>1. /\ Assessed(e.seen, at) \in {"ELIGIBLE", "INELIGIBLE"}
          /\ Assessed(e.seen, at) = "ELIGIBLE" => e.seen.market.sync = "UP_TO_DATE"
        BY DEF Assessed, Policy
    <2> QED BY <1>2, <1>3, <2>1 DEF Eligibility, EligibilityRows, Seens
<1>5. \A t \in Strategies : Lifecycle(t)' = Lifecycle(t)
    BY <1>1 DEF Lifecycle
<1>6. World
    BY <1>1, <1>2, <1>3, <1>5, MarketSelf DEF World, LifeUpTo
<1>7. SourcesSound'
    <2>1. MarketUpTo(market, market)
        BY <1>2, MarketSelf
    <2> QED BY <1>1, <1>2, <1>3, <1>4, <2>1 DEF SourcesSound, Lifecycle, LifeUpTo, MarketUpTo
<1>8. IsFiniteSet(eligibilities')
    BY <1>2, <1>3, FS_AddElement
<1> QED BY <1>1, <1>2, <1>6, <1>7, <1>8, WorldMoves DEF StatusTypes

-----------------------------------------------------------------------------
(* The steps of a request *)

\* What a decision selected signalled, so it was evaluated, so it was eligible.
LEMMA SelectedIsEligible ==
    ASSUME DecisionsSound, NEW d \in 1 .. Len(decisions), decisions[d].selected # None
    PROVE  decisions[d].selected.status = "ELIGIBLE"
<1>1. PICK c \in decisions[d].candidates :
          Signals(decisions[d].candidates) = {c} /\ decisions[d].selected = c.eligibility
    BY DEF DecisionsSound
<1>2. c \in Evaluated(decisions[d].candidates)
    BY <1>1 DEF Signals, Evaluated
<1> QED BY <1>1, <1>2 DEF DecisionsSound, CandidatesSound

\* A decision begins with a cohort, parameters and a verification with a recheck.
LEMMA BeginSound ==
    ASSUME Core, NEW r \in Requests, r.todo \subseteq eligibilities,
           r.cur = None, r.done = {}, r.evaluate = FALSE,
           r.op = "PARAMETERS" => r.inputs \in Inputs,
           r.op \in {"PARAMETERS", "VERIFICATION"} =>
               /\ r.target \in 1 .. Len(decisions)
               /\ r.todo = Rechecked(r.target)
               /\ r.late => \E e \in r.todo : Stale(e)
    PROVE  RequestSound(r)
<1>1. SourcesSound /\ DecisionsSound /\ IsFiniteSet(eligibilities)
    BY CoreTypes
<1>2. IsFiniteSet(r.todo) /\ IsFiniteSet(r.done)
    BY <1>1, FS_Subset, FS_EmptySet
<1>3. InHand(r) = r.todo /\ Cohort(r.done) = {} /\ Evaluated(r.done) = {}
    BY DEF InHand, Cohort, Evaluated
<1>4. r.cur \notin r.todo
    BY <1>1, NoneAssumption DEF SourcesSound
<1>5. CandidatesSound(r.done, InHand(r))
    BY <1>3 DEF CandidatesSound
<1>6. ASSUME r.op \in {"PARAMETERS", "VERIFICATION"}
      PROVE  RecheckSound(r)
    <2>1. PICK e : e = decisions[r.target].selected
        OBVIOUS
    <2>2. ASSUME e # None
          PROVE  InHand(r) = {e} /\ (r.late => OutOfDate(e, Lifecycle(e.strategy), market))
        <3>1. InHand(r) = {e}
            BY <1>3, <1>6, <2>1, <2>2 DEF Rechecked
        <3>2. ASSUME r.late
              PROVE  OutOfDate(e, Lifecycle(e.strategy), market)
            <4>1. e \in eligibilities /\ Stale(e)
                BY <1>3, <1>6, <3>1, <3>2
            <4>2. e.status = "ELIGIBLE"
                BY <1>1, <1>6, <2>1, <2>2, SelectedIsEligible
            <4> QED BY <1>1, <4>1, <4>2, StaleIsOutOfDate
        <3> QED BY <3>1, <3>2
    <2> QED BY <1>3, <1>6, <2>1, <2>2 DEF RecheckSound
<1> QED BY <1>2, <1>3, <1>4, <1>5, <1>6 DEF RequestSound

\* What a decision rechecks is of its own cohort.
LEMMA RecheckedRows ==
    ASSUME DecisionsSound, NEW d \in 1 .. Len(decisions)
    PROVE  Rechecked(d) \subseteq eligibilities
BY DEF DecisionsSound, Cohort, Rechecked

LEMMA IdleRequest == Idle \in Requests
BY DEF Idle, Requests

LEMMA BeginStep ==
    ASSUME Core, NEW w \in Workers,
           BeginDecision(w) \/ BeginParameters(w) \/ BeginVerification(w)
    PROVE  Core'
<1>1. /\ SourcesSound /\ DecisionsSound /\ eligibilities \subseteq EligibilityRows
      /\ Len(decisions) \in Nat
    BY CoreTypes DEF SourcesSound
<1>2. UNCHANGED <<status, lifecycle, market, eligibilities, decisions, parameters, verifications>>
    BY DEF BeginDecision, BeginParameters, BeginVerification, Begin, sources, rows
<1>3. CASE BeginDecision(w)
    <2>1. PICK cohort \in SUBSET eligibilities :
              req' = [req EXCEPT ![w] = [Idle EXCEPT !.op = "DECISION", !.todo = cohort]]
        BY <1>3 DEF BeginDecision, Begin
    <2>2. PICK r : r = [Idle EXCEPT !.op = "DECISION", !.todo = cohort]
        OBVIOUS
    <2>3. /\ r \in Requests /\ r.todo = cohort /\ r.cur = None /\ r.done = {}
          /\ r.evaluate = FALSE /\ r.op = "DECISION"
        BY <1>1, <2>2 DEF Idle, Requests
    <2>4. RequestSound(r)
        BY <2>3, BeginSound
    <2> QED BY <1>2, <2>1, <2>2, <2>4, RequestMoves
<1>4. CASE BeginParameters(w)
    <2>1. PICK d \in 1 .. Len(decisions), q \in Inputs :
              req' = [req EXCEPT ![w] = [Idle EXCEPT !.op = "PARAMETERS", !.todo = Rechecked(d),
                        !.target = d, !.inputs = q, !.late = \E e \in Rechecked(d) : Stale(e)]]
        BY <1>4 DEF BeginParameters, Begin
    <2>2. PICK late \in BOOLEAN : late <=> \E e \in Rechecked(d) : Stale(e)
        OBVIOUS
    <2>3. PICK r : r = [Idle EXCEPT !.op = "PARAMETERS", !.todo = Rechecked(d),
                        !.target = d, !.inputs = q, !.late = late]
        OBVIOUS
    <2>4. Rechecked(d) \subseteq eligibilities /\ d \in Nat
        BY <1>1, RecheckedRows
    <2>5. /\ r \in Requests /\ r.todo = Rechecked(d) /\ r.cur = None /\ r.done = {}
          /\ r.evaluate = FALSE /\ r.op = "PARAMETERS" /\ r.target = d /\ r.late = late
          /\ r.inputs = q
        BY <1>1, <2>3, <2>4 DEF Idle, Requests
    <2>6. RequestSound(r)
        BY <2>2, <2>4, <2>5, BeginSound
    <2>7. req' = [req EXCEPT ![w] = r]
        BY <2>1, <2>2, <2>3
    <2> QED BY <1>2, <2>6, <2>7, RequestMoves
<1>5. CASE BeginVerification(w)
    <2>1. PICK d \in 1 .. Len(decisions) :
              req' = [req EXCEPT ![w] = [Idle EXCEPT !.op = "VERIFICATION", !.todo = Rechecked(d),
                                                     !.target = d]]
        BY <1>5 DEF BeginVerification, Begin
    <2>2. PICK r : r = [Idle EXCEPT !.op = "VERIFICATION", !.todo = Rechecked(d), !.target = d]
        OBVIOUS
    <2>3. Rechecked(d) \subseteq eligibilities /\ d \in Nat
        BY <1>1, RecheckedRows
    <2>4. /\ r \in Requests /\ r.todo = Rechecked(d) /\ r.cur = None /\ r.done = {}
          /\ r.evaluate = FALSE /\ r.op = "VERIFICATION" /\ r.target = d /\ r.late = FALSE
        BY <1>1, <2>2, <2>3 DEF Idle, Requests
    <2>5. RequestSound(r)
        BY <2>3, <2>4, BeginSound
    <2> QED BY <1>2, <2>1, <2>2, <2>5, RequestMoves
<1> QED BY <1>3, <1>4, <1>5

\* The next snapshot is taken up, and its lifecycle read.
LEMMA ReadLifecycleStep ==
    ASSUME Core, NEW w \in Workers, ReadLifecycle(w)
    PROVE  Core'
<1>1. /\ SourcesSound /\ RequestsSound
      /\ \A s \in Strategies : Lifecycle(s) \in Lives
    BY CoreTypes
<1>2. PICK q : q = req[w]
    OBVIOUS
<1>3. PICK e \in q.todo :
          req' = [req EXCEPT ![w].cur = e, ![w].todo = @ \ {e}, ![w].life = Lifecycle(e.strategy)]
    BY <1>2 DEF ReadLifecycle
<1>4. RequestSound(q) /\ q \in Requests /\ q.cur = None
    BY <1>1, <1>2 DEF RequestsSound, RequestSound, ReadLifecycle
<1>5. e \in eligibilities /\ e \in EligibilityRows /\ e.strategy \in Strategies
    BY <1>1, <1>4, RowFacts DEF RequestSound, InHand
<1>6. PICK r : r = [q EXCEPT !.cur = e, !.todo = @ \ {e}, !.life = Lifecycle(e.strategy)]
    OBVIOUS
<1>7. req' = [req EXCEPT ![w] = r]
    BY <1>1, <1>2, <1>3, <1>4, <1>6 DEF RequestsSound, Requests
<1>8. /\ r \in Requests /\ r.op = q.op /\ r.todo = q.todo \ {e} /\ r.cur = e
      /\ r.life = Lifecycle(e.strategy) /\ r.evaluate = q.evaluate /\ r.done = q.done
      /\ r.target = q.target /\ r.late = q.late /\ r.inputs = q.inputs
    BY <1>1, <1>4, <1>5, <1>6 DEF Requests
<1>9. e # None
    BY <1>5, NoneAssumption
<1>10. InHand(r) = InHand(q) /\ q.evaluate = FALSE
    BY <1>4, <1>8, <1>9 DEF InHand, RequestSound, Requests
<1>11. IsFiniteSet(r.todo)
    BY <1>4, <1>8, FS_Subset DEF RequestSound
<1>12. q.op \in {"PARAMETERS", "VERIFICATION"} => RecheckSound(r)
    <2>1. ASSUME RecheckSound(q) PROVE RecheckSound(r)
        <3>1. decisions[q.target].selected # None => e = decisions[q.target].selected
            BY <1>4, <2>1 DEF RecheckSound, InHand
        <3> QED BY <1>8, <1>10, <2>1, <3>1 DEF RecheckSound
    <2> QED BY <1>4, <2>1 DEF RequestSound
<1>13. RequestSound(r)
    BY <1>1, <1>4, <1>5, <1>8, <1>10, <1>11, <1>12 DEF RequestSound
<1>14. UNCHANGED <<status, lifecycle, market, eligibilities, decisions, parameters, verifications>>
    BY DEF ReadLifecycle, sources, rows
<1> QED BY <1>7, <1>13, <1>14, RequestMoves

\* A snapshot is done with: blocked by what it saw, or evaluated on the market as
\* it is, which no snapshot of the cohort is newer than.
LEMMA FinishSound ==
    ASSUME SourcesSound, NEW q, RequestSound(q), q.cur # None,
           NEW c \in CandidateRows, c.eligibility = q.cur,
           c.status = "BLOCKED" => c.reason \in Reasons,
           c.status # "BLOCKED" =>
               /\ q.evaluate /\ c.bars = market.bars
               /\ c.status = Evaluation[c.eligibility.strategy][c.bars],
           ~q.evaluate /\ OutOfDate(q.cur, q.life, market) => ~IsExact(c),
           NEW r, r = [q EXCEPT !.cur = None, !.life = None, !.evaluate = FALSE, !.done = @ \cup {c}]
    PROVE  RequestSound(r)
<1>1. /\ q \in Requests /\ q.cur \in eligibilities /\ q.cur \notin Cohort(q.done)
      /\ q.cur \notin q.todo /\ Cohort(q.done) \cap q.todo = {}
      /\ IsFiniteSet(q.todo) /\ IsFiniteSet(q.done) /\ market \in Markets
    BY DEF RequestSound, InHand, SourcesSound
<1>2. /\ r \in Requests /\ r.op = q.op /\ r.todo = q.todo /\ r.cur = None
      /\ r.evaluate = FALSE /\ r.done = q.done \cup {c}
      /\ r.target = q.target /\ r.late = q.late /\ r.inputs = q.inputs
    BY <1>1 DEF Requests
<1>3. Cohort(r.done) = Cohort(q.done) \cup {q.cur} /\ InHand(r) = InHand(q)
    BY <1>2 DEF Cohort, InHand
<1>4. IsFiniteSet(r.done)
    BY <1>1, <1>2, FS_AddElement
<1>5. r.cur \notin r.todo /\ Cohort(r.done) \cap (r.todo \cup {r.cur}) = {}
    <2>1. \A e \in Cohort(r.done) \cup r.todo : e \in eligibilities
        BY <1>2, <1>3 DEF RequestSound, InHand
    <2>2. None \notin Cohort(r.done) \cup r.todo
        BY <2>1, NoneAssumption DEF SourcesSound
    <2> QED BY <1>1, <1>2, <1>3, <2>2
<1>6. \A f, g \in r.done : f.eligibility = g.eligibility => f = g
    <2>1. \A f \in q.done : f.eligibility # c.eligibility
        BY <1>1 DEF Cohort
    <2> QED BY <1>2, <2>1 DEF RequestSound, CandidatesSound
<1>7. CandidatesSound(r.done, InHand(r))
    <2>1. Evaluated(r.done) = Evaluated(q.done) \cup (IF c.status = "BLOCKED" THEN {} ELSE {c})
        BY <1>2 DEF Evaluated
    <2>2. ASSUME c.status # "BLOCKED"
          PROVE  /\ c.bars \in 1 .. Horizon /\ c.eligibility.status = "ELIGIBLE"
                 /\ \A e \in InHand(r) : MarketUpTo(e.seen.market, c.eligibility.seen.market)
        BY <2>2, <1>1, <1>3 DEF RequestSound, Markets
    <2> QED BY <1>2, <1>3, <1>6, <2>1, <2>2 DEF RequestSound, CandidatesSound
<1>8. q.op \in {"PARAMETERS", "VERIFICATION"} => RecheckSound(r)
    <2>1. ASSUME RecheckSound(q) PROVE RecheckSound(r)
        <3>1. PICK e : e = decisions[q.target].selected
            OBVIOUS
        <3>2. ASSUME e # None
              PROVE  /\ Evaluated(r.done) # {} => Settled(q.target)
                     /\ q.late => OutOfDate(e, Lifecycle(e.strategy), market)
                                  /\ \A f \in r.done : ~IsExact(f)
            <4>1. e = q.cur
                BY <2>1, <3>1, <3>2 DEF RecheckSound, InHand
            <4>2. /\ q.evaluate \/ Evaluated(q.done) # {} => Settled(q.target)
                  /\ q.late => /\ OutOfDate(e, Lifecycle(e.strategy), market)
                               /\ OutOfDate(e, q.life, market)
                               /\ ~q.evaluate /\ \A f \in q.done : ~IsExact(f)
                BY <2>1, <3>1, <3>2 DEF RecheckSound
            <4>3. Evaluated(r.done) # {} => q.evaluate \/ Evaluated(q.done) # {}
                BY <1>2 DEF Evaluated
            <4> QED BY <1>2, <4>1, <4>2, <4>3
        <3> QED BY <1>2, <1>3, <2>1, <3>1, <3>2 DEF RecheckSound
    <2> QED BY <2>1 DEF RequestSound
<1> QED BY <1>2, <1>3, <1>4, <1>5, <1>7, <1>8 DEF RequestSound

\* A snapshot of the market as it is: whatever its decision evaluated, on any
\* snapshot of the cohort, it evaluated on this market.
LEMMA ExactIsSettled ==
    ASSUME SourcesSound, DecisionsSound, NEW d \in 1 .. Len(decisions),
           decisions[d].selected # None, decisions[d].selected.seen.market = market
    PROVE  Settled(d)
<1> DEFINE candidates == decisions[d].candidates
           e == decisions[d].selected
<1>1. e \in Cohort(candidates)
    BY DEF DecisionsSound, Cohort
<1>2. ASSUME NEW c \in Evaluated(candidates)
      PROVE  c.bars = market.bars
    <2>1. c.eligibility \in eligibilities /\ c.eligibility.status = "ELIGIBLE"
        BY DEF DecisionsSound, Cohort, Evaluated, CandidatesSound
    <2>2. MarketUpTo(market, c.eligibility.seen.market)
        BY <1>1 DEF DecisionsSound, CandidatesSound
    <2>3. /\ c.eligibility.seen.market \in Markets /\ market \in Markets
          /\ MarketUpTo(c.eligibility.seen.market, market)
          /\ c.eligibility.seen.market.sync = "UP_TO_DATE"
        BY <2>1, RowFacts DEF SourcesSound
    <2>4. c.eligibility.seen.market = market
        BY <2>2, <2>3, MarketRanks DEF MarketUpTo
    <2> QED BY <2>4 DEF DecisionsSound, CandidatesSound
<1> QED BY <1>2 DEF Settled

\* The snapshot is compared with the sources.
LEMMA ReadMarketStep ==
    ASSUME Core, NEW w \in Workers, ReadMarket(w)
    PROVE  Core'
<1>1. SourcesSound /\ DecisionsSound /\ RequestsSound /\ market \in Markets
    BY CoreTypes
<1>2. PICK q : q = req[w]
    OBVIOUS
<1>3. RequestSound(q) /\ q \in Requests /\ q.cur # None /\ q.evaluate = FALSE
    BY <1>1, <1>2 DEF RequestsSound, RequestSound, ReadMarket, Requests
<1>4. /\ q.cur \in eligibilities /\ q.life \in Lives
      /\ q.cur \in EligibilityRows /\ q.cur.seen.life \in Lives /\ q.cur.seen.market \in Markets
    BY <1>1, <1>3, RowFacts DEF RequestSound, InHand
<1>5. UNCHANGED <<status, lifecycle, market, eligibilities, decisions, parameters, verifications>>
    BY DEF ReadMarket, sources, rows
<1>6. CASE /\ req' = [req EXCEPT ![w].evaluate = TRUE] /\ Exact(q.cur, q.life, market)
           /\ q.cur.status = "ELIGIBLE"
    <2>1. PICK r : r = [q EXCEPT !.evaluate = TRUE]
        OBVIOUS
    <2>2. req' = [req EXCEPT ![w] = r]
        BY <1>1, <1>2, <1>6, <2>1 DEF RequestsSound
    <2>3. /\ r \in Requests /\ r.op = q.op /\ r.todo = q.todo /\ r.cur = q.cur
          /\ r.life = q.life /\ r.evaluate = TRUE /\ r.done = q.done
          /\ r.target = q.target /\ r.late = q.late /\ r.inputs = q.inputs
          /\ InHand(r) = InHand(q)
        BY <1>3, <2>1 DEF Requests, InHand
    <2>4. q.cur.seen.market = market /\ q.cur.seen.life = q.life
        BY <1>6 DEF Exact
    <2>5. \A e \in InHand(r) : MarketUpTo(e.seen.market, r.cur.seen.market)
        BY <1>1, <1>3, <2>3, <2>4, RowFacts DEF RequestSound
    <2>6. ~OutOfDate(q.cur, q.life, market)
        BY <1>1, <1>4, <2>4, MarketRanks, LifeRanks DEF OutOfDate
    <2>7. q.op \in {"PARAMETERS", "VERIFICATION"} => RecheckSound(r)
        <3>1. ASSUME RecheckSound(q) PROVE RecheckSound(r)
            <4>1. PICK e : e = decisions[q.target].selected
                OBVIOUS
            <4>2. ASSUME e # None
                  PROVE  Settled(q.target) /\ ~q.late
                <5>1. e = q.cur /\ q.target \in 1 .. Len(decisions)
                    BY <1>3, <3>1, <4>1, <4>2 DEF RecheckSound, InHand
                <5>2. Settled(q.target)
                    BY <1>1, <2>4, <4>1, <4>2, <5>1, ExactIsSettled
                <5>3. ~q.late
                    BY <1>3, <2>6, <3>1, <4>1, <4>2, <5>1 DEF RecheckSound
                <5> QED BY <5>2, <5>3
            <4> QED BY <2>3, <3>1, <4>1, <4>2 DEF RecheckSound
        <3> QED BY <1>3, <3>1 DEF RequestSound
    <2>8. RequestSound(r)
        BY <1>3, <1>6, <2>3, <2>5, <2>7 DEF RequestSound
    <2> QED BY <1>5, <2>2, <2>8, RequestMoves
<1>7. CASE \E reason \in {"ELIGIBILITY_INELIGIBLE", "STALE_ELIGIBILITY"} :
              Finish(w, Candidate(q.cur, [life |-> q.life, market |-> market], "BLOCKED", 0, reason))
    <2>1. PICK reason \in {"ELIGIBILITY_INELIGIBLE", "STALE_ELIGIBILITY"} :
              Finish(w, Candidate(q.cur, [life |-> q.life, market |-> market], "BLOCKED", 0, reason))
        BY <1>7
    <2>2. PICK c : c = Candidate(q.cur, [life |-> q.life, market |-> market], "BLOCKED", 0, reason)
        OBVIOUS
    <2>3. /\ c.eligibility = q.cur /\ c.seen = [life |-> q.life, market |-> market]
          /\ c.status = "BLOCKED" /\ c.reason \in Reasons
        BY <2>2 DEF Candidate, Reasons
    <2>4. c \in CandidateRows
        <3>1. [life |-> q.life, market |-> market] \in Seens /\ 0 \in 0 .. Horizon
            BY <1>1, <1>4, RouterAssumption DEF Seens
        <3> QED BY <1>4, <2>2, <3>1 DEF CandidateRows, Candidate, Reasons
    <2>5. OutOfDate(q.cur, q.life, market) => ~IsExact(c)
        BY <1>1, <1>4, <2>3, MarketRanks, LifeRanks DEF OutOfDate, IsExact
    <2>6. PICK r : r = [q EXCEPT !.cur = None, !.life = None, !.evaluate = FALSE, !.done = @ \cup {c}]
        OBVIOUS
    <2>7. RequestSound(r)
        BY <1>1, <1>3, <2>3, <2>4, <2>5, <2>6, FinishSound
    <2>8. req' = [req EXCEPT ![w] = r]
        BY <1>1, <1>2, <1>3, <2>1, <2>2, <2>6 DEF Finish, RequestsSound, Requests
    <2> QED BY <1>5, <2>7, <2>8, RequestMoves
<1> QED BY <1>2, <1>6, <1>7 DEF ReadMarket

\* The candidate is evaluated on the bars of the moment.
LEMMA EvaluateStep ==
    ASSUME Core, NEW w \in Workers, EvaluateCandidate(w)
    PROVE  Core'
<1>1. SourcesSound /\ RequestsSound /\ market \in Markets
    BY CoreTypes
<1>2. PICK q : q = req[w]
    OBVIOUS
<1>3. RequestSound(q) /\ q \in Requests /\ q.cur # None /\ q.evaluate
    BY <1>1, <1>2 DEF RequestsSound, RequestSound, EvaluateCandidate
<1>4. q.cur \in eligibilities /\ q.cur \in EligibilityRows /\ q.cur.strategy \in Strategies
      /\ q.cur.seen \in Seens /\ market.bars \in 1 .. Horizon
    BY <1>1, <1>3, RowFacts DEF RequestSound, InHand, EligibilityRows, Markets
<1>5. UNCHANGED <<status, lifecycle, market, eligibilities, decisions, parameters, verifications>>
    BY DEF EvaluateCandidate, rows
<1>6. PICK c :
          /\ Finish(w, c)
          /\ \/ c = Candidate(q.cur, q.cur.seen, "BLOCKED", 0, "CURRENT_INPUT_UNAVAILABLE")
             \/ /\ Evaluation[q.cur.strategy][market.bars] # "UNAVAILABLE"
                /\ c = Candidate(q.cur, q.cur.seen, Evaluation[q.cur.strategy][market.bars],
                                 market.bars, None)
    BY <1>2 DEF EvaluateCandidate
<1>7. Evaluation[q.cur.strategy][market.bars] \in {"SIGNAL", "NO_SIGNAL", "UNAVAILABLE"}
    BY <1>4, RouterAssumption
<1>8. /\ c \in CandidateRows /\ c.eligibility = q.cur
      /\ c.status = "BLOCKED" => c.reason \in Reasons
      /\ c.status # "BLOCKED" =>
            c.bars = market.bars /\ c.status = Evaluation[c.eligibility.strategy][c.bars]
    <2>1. CASE c = Candidate(q.cur, q.cur.seen, "BLOCKED", 0, "CURRENT_INPUT_UNAVAILABLE")
        <3>1. 0 \in 0 .. Horizon
            BY RouterAssumption
        <3> QED BY <1>4, <2>1, <3>1 DEF Candidate, CandidateRows, Reasons
    <2>2. CASE /\ Evaluation[q.cur.strategy][market.bars] # "UNAVAILABLE"
               /\ c = Candidate(q.cur, q.cur.seen, Evaluation[q.cur.strategy][market.bars],
                                market.bars, None)
        <3>1. market.bars \in 0 .. Horizon
            BY <1>4, RouterAssumption
        <3> QED BY <1>4, <1>7, <2>2, <3>1 DEF Candidate, CandidateRows
    <2> QED BY <1>6, <2>1, <2>2
<1>9. PICK r : r = [q EXCEPT !.cur = None, !.life = None, !.evaluate = FALSE, !.done = @ \cup {c}]
    OBVIOUS
<1>10. RequestSound(r)
    BY <1>1, <1>3, <1>8, <1>9, FinishSound
<1>11. req' = [req EXCEPT ![w] = r]
    BY <1>1, <1>2, <1>3, <1>6, <1>9 DEF Finish, RequestsSound, Requests
<1> QED BY <1>5, <1>10, <1>11, RequestMoves

-----------------------------------------------------------------------------
(* The steps that store evidence *)

LEMMA IdleSound ==
    ASSUME Core
    PROVE  RequestSound(Idle)
<1>1. /\ Idle.todo = {} /\ Idle.cur = None /\ Idle.done = {} /\ Idle.evaluate = FALSE
      /\ Idle.op = "IDLE"
    BY DEF Idle
<1> QED BY <1>1, IdleRequest, BeginSound

\* The request that stored its evidence is over; the others wait.
LEMMA StoredMoves ==
    ASSUME Core, NEW w \in Workers, World, SourcesSound', Evidence',
           UNCHANGED <<status, lifecycle, eligibilities>>, req' = [req EXCEPT ![w] = Idle]
    PROVE  Core'
<1>1. SourcesSound /\ DecisionsSound /\ RequestsSound
    BY CoreTypes
<1>2. PICK r : r = Idle
    OBVIOUS
<1>3. RequestSound(r)'
    BY <1>1, <1>2, IdleSound, RequestKept
<1>4. RequestsSound'
    BY <1>1, <1>2, <1>3, RequestsMove
<1> QED BY <1>4 DEF Core, StatusTypes

\* A cohort that was rechecked and evaluated becomes a decision.
LEMMA CommitStep ==
    ASSUME Core, NEW w \in Workers, CommitDecision(w)
    PROVE  Core'
<1>1. /\ SourcesSound /\ DecisionsSound /\ RequestsSound /\ Evidence
      /\ decisions \in Seq(DecisionRows) /\ Len(decisions) \in Nat
    BY CoreTypes
<1>2. PICK q : q = req[w]
    OBVIOUS
<1>3. RequestSound(q) /\ q \in Requests /\ q.todo = {} /\ q.cur = None /\ IsFiniteSet(q.done)
    BY <1>1, <1>2 DEF RequestsSound, RequestSound, CommitDecision, Complete
<1>4. /\ UNCHANGED <<status, lifecycle, market, eligibilities, parameters, verifications>>
      /\ req' = [req EXCEPT ![w] = Idle]
    BY DEF CommitDecision, sources
<1>5. CASE UNCHANGED decisions
    <2>1. World /\ SourcesSound'
        BY <1>1, <1>4, <1>5, SameWorld
    <2>2. DecisionsSound'
        BY <1>1, <1>5, <2>1, DecisionsKept
    <2>3. Evidence'
        BY <1>1, <1>4, <2>1, <2>2, ArtifactsKept DEF Evidence
    <2> QED BY <1>4, <2>1, <2>3, StoredMoves
<1>6. ASSUME NEW d, d = [candidates |-> q.done, selected |-> Selected(q.done)],
             Len(decisions) < MaxDecisions, decisions' = Append(decisions, d)
      PROVE  Core'
    <2>1. /\ d.candidates = q.done /\ d.selected = Selected(q.done)
          /\ Cohort(q.done) = InHand(q) /\ Cohort(q.done) \subseteq eligibilities
          /\ CandidatesSound(q.done, Cohort(q.done))
        BY <1>3, <1>6 DEF InHand, RequestSound
    <2>2. Selected(q.done) # None =>
              \E c \in q.done : Signals(q.done) = {c} /\ Selected(q.done) = c.eligibility
        <3>1. IsFiniteSet(Signals(q.done)) /\ Signals(q.done) \subseteq q.done
            BY <1>3, FS_Subset DEF Signals
        <3>2. ASSUME Cardinality(Signals(q.done)) = 1
              PROVE  \E c \in q.done : Signals(q.done) = {c} /\ Selected(q.done) = c.eligibility
            <4>1. PICK c : Signals(q.done) = {c}
                BY <3>1, <3>2, FS_Singleton
            <4>2. Selected(q.done) = (CHOOSE f \in {c} : TRUE).eligibility
                BY <3>2, <4>1 DEF Selected
            <4> QED BY <3>1, <4>1, <4>2
        <3> QED BY <3>2 DEF Selected
    <2>3. d \in DecisionRows
        <3>1. q.done \subseteq CandidateRows
            BY <1>3 DEF Requests
        <3>2. Selected(q.done) \in EligibilityRows \cup {None}
            BY <2>1, <2>2, <1>1 DEF Cohort, SourcesSound
        <3> QED BY <1>6, <3>1, <3>2 DEF DecisionRows
    <2>4. /\ decisions' \in Seq(DecisionRows) /\ Len(decisions') = Len(decisions) + 1
          /\ \A k \in 1 .. Len(decisions) : decisions'[k] = decisions[k]
          /\ decisions'[Len(decisions) + 1] = d
        BY <1>1, <1>6, <2>3
    <2>5. World
        <3>1. \A s \in Strategies : Lifecycle(s)' = Lifecycle(s)
            BY <1>4 DEF Lifecycle
        <3> QED BY <1>1, <1>4, <2>4, <3>1, MarketSelf DEF World, SourcesSound, LifeUpTo
    <2>6. SourcesSound'
        BY <1>1, <1>4 DEF SourcesSound, Lifecycle, LifeUpTo
    <2>7. DecisionsSound'
        <3>1. ASSUME NEW k \in 1 .. Len(decisions')
              PROVE  /\ Cohort(decisions'[k].candidates) \subseteq eligibilities
                     /\ CandidatesSound(decisions'[k].candidates, Cohort(decisions'[k].candidates))
                     /\ decisions'[k].selected # None =>
                          \E c \in decisions'[k].candidates :
                            /\ Signals(decisions'[k].candidates) = {c}
                            /\ decisions'[k].selected = c.eligibility
            <4>1. CASE k \in 1 .. Len(decisions)
                BY <1>1, <2>4, <4>1 DEF DecisionsSound
            <4>2. CASE k = Len(decisions) + 1
                BY <2>1, <2>2, <2>4, <4>2
            <4> QED BY <1>1, <2>4, <4>1, <4>2
        <3>2. Len(decisions') <= MaxDecisions
            BY <1>1, <1>6, <2>4, RouterAssumption
        <3> QED BY <1>4, <2>4, <3>1, <3>2 DEF DecisionsSound, CandidatesSound
    <2>8. Evidence'
        BY <1>1, <1>4, <2>5, <2>7, ArtifactsKept DEF Evidence
    <2> QED BY <1>4, <2>5, <2>6, <2>8, StoredMoves
<1> QED BY <1>2, <1>5, <1>6 DEF CommitDecision

\* A recheck that found nothing wrong, of a decision that selected a snapshot: it
\* found the snapshot exact and its signal unchanged.
LEMMA CheckHolds ==
    ASSUME RequestsSound, NEW w \in Workers, NEW q, q = req[w], q.op = "PARAMETERS", Complete(q),
           decisions[q.target].selected # None, Holds(Check(q.target, q.done))
    PROVE  Settled(q.target) /\ ~q.late
<1>1. RequestSound(q) /\ RecheckSound(q) /\ q.todo = {} /\ q.cur = None
    BY DEF RequestsSound, RequestSound, Complete
<1>2. Cohort(q.done) = {decisions[q.target].selected}
    BY <1>1 DEF RecheckSound, InHand
<1>3. PICK c : c = CHOOSE x \in q.done : TRUE
    OBVIOUS
<1>4. c \in q.done
    BY <1>2, <1>3 DEF Cohort
<1>5. IsExact(c) /\ c.status # "BLOCKED"
    <2>1. IsExact(c)
        BY <1>3 DEF Check, Holds
    <2>2. c.status = "BLOCKED" => c.reason \in Reasons /\ Check(q.target, q.done) = c.reason
        BY <1>1, <1>3, <1>4, <2>1 DEF Check, RequestSound, CandidatesSound
    <2> QED BY <2>1, <2>2 DEF Holds, Reasons
<1> QED BY <1>1, <1>4, <1>5 DEF RecheckSound, Evaluated

\* The inputs of prices that are ready carry the strategy's own volume.
LEMMA SizeIsChecked ==
    ASSUME NEW s, NEW at, NEW i, InputBlockers(s, at, i) = {}
    PROVE  i.volume = Rules[s].volume
<1>1. SUFFICES ASSUME i.volume # Rules[s].volume PROVE "SIZE_POLICY_NOT_EXACT_FIXED_LOT" \in InputBlockers(s, at, i)
    OBVIOUS
<1> QED BY <1>1, Zenon DEF InputBlockers

LEMMA ArtifactFacts ==
    ASSUME Core, NEW w \in Workers, NEW q, q = req[w], q.op = "PARAMETERS", Complete(q),
           NEW a, a = Artifact(q)
    PROVE  LET e == decisions[q.target].selected IN
           /\ q.target \in 1 .. Len(decisions) /\ q.target \in 1 .. MaxDecisions
           /\ a.status \in {"READY", "BLOCKED", "NO_TRADE"}
           /\ a.status = "READY" =>
                 /\ e # None /\ Settled(q.target) /\ ~a.content.late
                 /\ a.prices # None /\ a.prices = Priced(e.strategy, a.inputs)
                 /\ a.inputs.volume = Rules[e.strategy].volume
           /\ a.status # "READY" => a.prices = None
           /\ a.status = "NO_TRADE" => e = None
<1> DEFINE e == decisions[q.target].selected
           check == Check(q.target, q.done)
           blockers == InputBlockers(e.strategy, e.at, q.inputs)
                         \cup (IF Holds(check) THEN {} ELSE {check})
<1>1. /\ RequestSound(q) /\ RecheckSound(q) /\ SourcesSound /\ DecisionsSound /\ RequestsSound
    BY CoreTypes DEF RequestsSound, RequestSound
<1>2. q.target \in 1 .. Len(decisions) /\ q.target \in 1 .. MaxDecisions
    BY <1>1, RouterAssumption DEF RecheckSound, DecisionsSound
<1>3. CASE e = None
    BY <1>2, <1>3 DEF Artifact
<1>4. CASE e # None
    <2>1. q.inputs \in Inputs
        BY <1>1 DEF RequestSound
    <2>2. e \in eligibilities /\ e.strategy \in Strategies
        BY <1>1, <1>4, RowFacts DEF RecheckSound, RequestSound
    <2>3. Priced(e.strategy, q.inputs) # None
        BY <2>1, <2>2, NoneAssumption
    <2>4. blockers = {} => /\ Settled(q.target) /\ ~q.late
                           /\ q.inputs.volume = Rules[e.strategy].volume
        BY <1>1, <1>4, CheckHolds, SizeIsChecked
    <2>5. /\ a.content.late = q.late /\ a.inputs = q.inputs
          /\ a.status = IF blockers = {} THEN "READY" ELSE "BLOCKED"
          /\ a.prices = IF blockers = {} THEN Priced(e.strategy, q.inputs) ELSE None
        BY <1>4 DEF Artifact
    <2> HIDE DEF blockers, e
    <2> QED BY <1>2, <1>4, <2>3, <2>4, <2>5 DEF e
<1> QED BY <1>3, <1>4

\* The artifact of a decision is stored, unless it has one.
LEMMA PersistStep ==
    ASSUME Core, NEW w \in Workers, PersistParameters(w)
    PROVE  Core'
<1>1. SourcesSound /\ DecisionsSound /\ RequestsSound /\ Evidence
    BY CoreTypes
<1>2. PICK q : q = req[w]
    OBVIOUS
<1>3. PICK a : a = Artifact(q)
    OBVIOUS
<1>4. /\ UNCHANGED <<status, lifecycle, market, eligibilities, decisions, verifications>>
      /\ req' = [req EXCEPT ![w] = Idle]
      /\ q.op = "PARAMETERS" /\ Complete(q)
      /\ parameters' = IF parameters[q.target] = None THEN [parameters EXCEPT ![q.target] = a]
                       ELSE parameters
    BY <1>2, <1>3 DEF PersistParameters, sources
<1>5. World /\ SourcesSound'
    BY <1>1, <1>4, SameWorld
<1>6. DecisionsSound'
    BY <1>1, <1>4, <1>5, DecisionsKept
<1>7. CASE UNCHANGED parameters
    BY <1>1, <1>4, <1>5, <1>6, <1>7, ArtifactsKept, StoredMoves DEF Evidence
<1>8. CASE parameters' = [parameters EXCEPT ![q.target] = a]
    <2>1. /\ q.target \in 1 .. Len(decisions) /\ q.target \in 1 .. MaxDecisions
          /\ a.status \in {"READY", "BLOCKED", "NO_TRADE"}
          /\ a.status = "READY" =>
                /\ decisions[q.target].selected # None /\ Settled(q.target) /\ ~a.content.late
                /\ a.prices # None
                /\ a.prices = Priced(decisions[q.target].selected.strategy, a.inputs)
                /\ a.inputs.volume = Rules[decisions[q.target].selected.strategy].volume
          /\ a.status # "READY" => a.prices = None
          /\ a.status = "NO_TRADE" => decisions[q.target].selected = None
        BY <1>2, <1>3, <1>4, ArtifactFacts
    <2>2. \A d \in 1 .. MaxDecisions :
              parameters'[d] = IF d = q.target THEN a ELSE parameters[d]
        BY <1>1, <1>8, <2>1 DEF Evidence, ArtifactsSound
    <2>3. parameters' = [d \in 1 .. MaxDecisions |-> parameters'[d]]
        BY <1>1, <1>8 DEF Evidence, ArtifactsSound
    <2>4. \A d \in 1 .. MaxDecisions : Settled(d)' <=> Settled(d)
        BY <1>4 DEF Settled
    <2>5. ASSUME NEW d \in 1 .. MaxDecisions, parameters'[d] # None
          PROVE  /\ Arithmetic(d)'
                 /\ Ready(d)' => decisions[d].selected # None /\ Settled(d)
                                 /\ ~parameters'[d].content.late
                 /\ d <= Len(decisions)
                 /\ parameters'[d].status \in {"READY", "BLOCKED", "NO_TRADE"}
                 /\ parameters'[d].prices # None <=> Ready(d)'
        <3>1. CASE d = q.target
            <4>1. parameters'[d] = a
                BY <2>2, <3>1
            <4>2. Arithmetic(d)'
                BY <1>4, <2>1, <3>1, <4>1 DEF Arithmetic
            <4> QED BY <1>4, <2>1, <2>5, <3>1, <4>1, <4>2 DEF Ready
        <3>2. CASE d # q.target
            <4>1. parameters'[d] = parameters[d] /\ decisions' = decisions
                BY <1>4, <2>2, <3>2
            <4>2. d <= Len(decisions) /\ d \in 1 .. Len(decisions)
                BY <1>1, <2>5, <4>1, RouterAssumption DEF Evidence, ArtifactTypes, DecisionsSound
            <4>3. (Arithmetic(d)' <=> Arithmetic(d)) /\ (Ready(d)' <=> Ready(d))
                BY <4>1 DEF Arithmetic, Ready
            <4> QED BY <1>1, <2>5, <4>1, <4>2, <4>3
                    DEF Evidence, ArtifactsSound, ArtifactTypes, StaleNeverBecomesReady, Ready
        <3> QED BY <3>1, <3>2
    <2>6. ArtifactsSound'
        BY <1>4, <2>3, <2>4, <2>5 DEF ArtifactsSound, Ready
    <2>7. ArtifactTypes'
        BY <1>4, <2>5 DEF ArtifactTypes
    <2>8. StaleNeverBecomesReady'
        <3>1. \A d \in 1 .. Len(decisions') : d \in 1 .. MaxDecisions
            BY <1>6, RouterAssumption DEF DecisionsSound
        <3> QED BY <2>5, <3>1 DEF StaleNeverBecomesReady, Ready
    <2>9. Evidence'
        BY <1>1, <1>4, <1>6, <2>6, <2>7, <2>8 DEF Evidence
    <2> QED BY <1>4, <1>5, <2>9, StoredMoves
<1> QED BY <1>4, <1>7, <1>8

\* The verifier's result is stored, unless there is one.
LEMMA StoreStep ==
    ASSUME Core, NEW w \in Workers, StoreVerification(w)
    PROVE  Core'
<1>1. SourcesSound /\ DecisionsSound /\ RequestsSound /\ Evidence
    BY CoreTypes
<1>2. /\ UNCHANGED <<status, lifecycle, market, eligibilities, decisions, parameters>>
      /\ req' = [req EXCEPT ![w] = Idle]
    BY DEF StoreVerification, sources
<1>3. World /\ SourcesSound'
    BY <1>1, <1>2, SameWorld
<1>4. DecisionsSound'
    BY <1>1, <1>2, <1>3, DecisionsKept
<1>5. verifications' \in [1 .. MaxDecisions -> {"PASSED", "FAILED", None}]
    BY <1>1 DEF Evidence, StoreVerification, Verdict
<1>6. Evidence'
    BY <1>1, <1>2, <1>3, <1>4, <1>5, ArtifactsKept
<1> QED BY <1>2, <1>3, <1>6, StoredMoves

-----------------------------------------------------------------------------
(* The theorems *)

LEMMA InitCore == Init => Core
<1> SUFFICES ASSUME Init PROVE Core
    OBVIOUS
<1>1. PICK crew \in SUBSET Workers :
          req = [w \in Workers |-> IF w \in crew THEN Idle ELSE [Idle EXCEPT !.op = "AWAY"]]
    BY DEF Init
<1>2. /\ \A s \in Strategies : status[s] = "VALIDATED" /\ lifecycle[s] = "VALIDATED"
      /\ market = [bars |-> 1, latest |-> 1, sync |-> "UP_TO_DATE", syncedAt |-> 1]
      /\ eligibilities = {} /\ decisions = <<>>
      /\ \A d \in 1 .. MaxDecisions : parameters[d] = None
      /\ parameters = [d \in 1 .. MaxDecisions |-> parameters[d]]
      /\ verifications \in [1 .. MaxDecisions -> {"PASSED", "FAILED", None}]
    BY DEF Init
<1>3. StatusTypes
    BY DEF Init, StatusTypes
<1>4. SourcesSound
    <2>1. market \in Markets
        BY <1>2, RouterAssumption DEF Markets, SyncStates
    <2> QED BY <1>2, <2>1 DEF SourcesSound, Lifecycle, Lives
<1>5. IsFiniteSet(eligibilities)
    BY <1>2, FS_EmptySet
<1>6. Evidence
    <2>1. decisions \in Seq(DecisionRows) /\ Len(decisions) = 0
        BY <1>2
    <2>2. DecisionsSound
        BY <2>1, RouterAssumption DEF DecisionsSound
    <2> QED BY <1>2, <2>1, <2>2
            DEF Evidence, ArtifactsSound, ArtifactTypes, StaleNeverBecomesReady, Ready
<1>7. ASSUME NEW r, r = Idle \/ r = [Idle EXCEPT !.op = "AWAY"]
      PROVE  RequestSound(r)
    <2>1. /\ r \in Requests /\ r.todo = {} /\ r.cur = None /\ r.done = {}
          /\ r.evaluate = FALSE /\ r.op \in {"IDLE", "AWAY"}
        <3>1. CASE r = Idle
            BY <3>1, IdleRequest DEF Idle
        <3>2. CASE r = [Idle EXCEPT !.op = "AWAY"]
            BY <3>2 DEF Idle, Requests
        <3> QED BY <1>7, <3>1, <3>2
    <2>2. InHand(r) = {} /\ Cohort(r.done) = {}
        BY <2>1 DEF InHand, Cohort
    <2>3. CandidatesSound(r.done, InHand(r))
        BY <2>1 DEF CandidatesSound, Evaluated
    <2> QED BY <2>1, <2>2, <2>3, FS_EmptySet DEF RequestSound
<1>8. RequestsSound
    <2>1. \A w \in Workers : req[w] = Idle \/ req[w] = [Idle EXCEPT !.op = "AWAY"]
        BY <1>1
    <2>2. req = [w \in Workers |-> req[w]]
        BY <1>1
    <2> QED BY <1>7, <2>1, <2>2 DEF RequestsSound
<1> QED BY <1>3, <1>4, <1>5, <1>6, <1>8 DEF Core

LEMMA CoreStep == Core /\ [Next]_vars => Core'
<1> SUFFICES ASSUME Core, [Next]_vars PROVE Core'
    OBVIOUS
<1>1. CASE \E s \in Strategies : Retire(s) \/ VerifyLifecycle(s)
    BY <1>1, LifecycleStep
<1>2. CASE \E s \in Strategies, at \in Instants : MaterializeEligibility(s, at)
    BY <1>2, MaterializeStep
<1>3. CASE SyncRequested \/ SyncFailed \/ SyncCompleted
    BY <1>3, SyncStep
<1>4. ASSUME NEW w \in Workers, Request(w)
      PROVE  Core'
    BY <1>4, BeginStep, ReadLifecycleStep, ReadMarketStep, EvaluateStep, CommitStep,
       PersistStep, StoreStep DEF Request
<1>5. CASE UNCHANGED vars
    <2>1. /\ SourcesSound /\ DecisionsSound /\ StatusTypes /\ IsFiniteSet(eligibilities)
        BY CoreTypes
    <2>2. UNCHANGED <<status, lifecycle, market, eligibilities, decisions, parameters,
                      verifications, req>>
        BY <1>5 DEF vars
    <2>3. World /\ SourcesSound'
        BY <2>1, <2>2, SameWorld
    <2> QED BY <2>1, <2>2, <2>3, WorldMoves DEF StatusTypes
<1> QED BY <1>1, <1>2, <1>3, <1>4, <1>5 DEF Next

\* What the prices of a decision rest on, whatever the world does between the
\* queries of the requests that evaluate it, recheck it and price it.
THEOREM RouterInvariant == Spec => []RouterInv
<1>1. Init => RouterInv
    BY InitCore, CoreIsInv
<1>2. RouterInv /\ [Next]_vars => RouterInv'
    <2>1. Core' => RouterInv'
        BY CoreIsInv, PTL
    <2> QED BY <2>1, CoreStep, CoreIsInv
<1> QED BY <1>1, <1>2, PTL DEF Spec

\* A READY artifact rests on one market: everything its decision evaluated was
\* evaluated on the bars of the selected snapshot, which alone signalled.
THEOREM OneMarketSafety == Spec => []ReadyRestsOnOneMarket
<1>1. RouterInv => ReadyRestsOnOneMarket
    BY DEF RouterInv
<1> QED BY <1>1, RouterInvariant, PTL

\* A request that came in after its snapshot had become stale never priced it.
THEOREM StaleSafety == Spec => []StaleNeverBecomesReady
<1>1. RouterInv => StaleNeverBecomesReady
    BY DEF RouterInv
<1> QED BY <1>1, RouterInvariant, PTL

\* A passed audit says of the latest decision what the verifier would say now.
THEOREM AuditSafety == Spec => []SafetyPassedIsCurrent
<1>1. Core => SafetyPassedIsCurrent
    <2> SUFFICES ASSUME Core, AuditPassed PROVE SafetyPassedIsCurrent
        BY DEF SafetyPassedIsCurrent
    <2>1. PICK d : d = Len(decisions)
        OBVIOUS
    <2>2. /\ decisions \in Seq(DecisionRows) /\ DecisionsSound /\ ArtifactsSound
        BY CoreTypes
    <2>3. d \in 1 .. Len(decisions) /\ d \in 1 .. MaxDecisions
        BY <2>1, <2>2, RouterAssumption DEF AuditPassed, DecisionsSound
    <2>4. parameters[d] # None /\ Holds(CheckNow(d))
        BY <2>1 DEF AuditPassed
    <2>5. Verdict(d, CheckNow(d)) = "PASSED"
        BY <2>2, <2>3, <2>4 DEF ArtifactsSound, Verdict
    <2>6. ASSUME decisions[d].selected # None
          PROVE  ~Stale(decisions[d].selected)
        <3>1. PICK e : e = decisions[d].selected
            OBVIOUS
        <3>2. PICK c : c = CandidateNow(e, TRUE)
            OBVIOUS
        <3>3. CheckNow(d) = Check(d, {c})
            BY <2>6, <3>1, <3>2 DEF CheckNow, Rechecked
        <3>4. IsExact(c)
            BY <2>4, <2>6, <3>3 DEF Check, Holds
        <3>5. c.eligibility = e /\ c.seen = [life |-> Lifecycle(e.strategy), market |-> market]
            BY <3>2 DEF CandidateNow, Candidate
        <3> QED BY <3>1, <3>4, <3>5 DEF IsExact, Stale, Exact
    <2> QED BY <2>1, <2>5, <2>6 DEF SafetyPassedIsCurrent
<1> QED BY <1>1, CoreIsInv, RouterInvariant, PTL

\* Nothing stored is ever changed: decisions are only appended, and the first
\* parameters and the first verification of a decision are its last.
THEOREM EvidenceSafety == Spec => EvidenceIsImmutable
<1> DEFINE Added == /\ IsPrefix(decisions, decisions') /\ eligibilities \subseteq eligibilities'
                    /\ \A d \in 1 .. MaxDecisions :
                         /\ parameters[d] # None => parameters'[d] = parameters[d]
                         /\ verifications[d] # None => verifications'[d] = verifications[d]
<1>1. ASSUME Core, Next PROVE Added
    <2>1. /\ decisions \in Seq(DecisionRows) /\ ArtifactsSound /\ Evidence
        BY <1>1, CoreTypes
    <2>2. IsPrefix(decisions, decisions)
        BY <2>1 DEF IsPrefix
    <2>3. CASE UNCHANGED <<decisions, parameters, verifications>>
               /\ eligibilities \subseteq eligibilities'
        BY <2>2, <2>3
    <2>4. ASSUME NEW w \in Workers, CommitDecision(w)
          PROVE  Added
        <3>1. UNCHANGED <<eligibilities, parameters, verifications>>
            BY <2>4 DEF CommitDecision
        <3>2. ASSUME NEW d, decisions' = Append(decisions, d)
              PROVE  IsPrefix(decisions, decisions')
            BY <2>1, <3>2 DEF IsPrefix
        <3>3. IsPrefix(decisions, decisions')
            BY <2>2, <2>4, <3>2 DEF CommitDecision
        <3> QED BY <3>1, <3>3
    <2>5. ASSUME NEW w \in Workers, PersistParameters(w)
          PROVE  Added
        <3>1. UNCHANGED <<eligibilities, decisions, verifications>>
            BY <2>5 DEF PersistParameters
        <3>2. \A d \in 1 .. MaxDecisions : parameters[d] # None => parameters'[d] = parameters[d]
            BY <2>1, <2>5 DEF PersistParameters, ArtifactsSound
        <3> QED BY <2>2, <3>1, <3>2
    <2>6. ASSUME NEW w \in Workers, StoreVerification(w)
          PROVE  Added
        <3>1. UNCHANGED <<eligibilities, decisions, parameters>>
            BY <2>6 DEF StoreVerification
        <3>2. \A d \in 1 .. MaxDecisions :
                  verifications[d] # None => verifications'[d] = verifications[d]
            BY <2>1, <2>6 DEF StoreVerification, Evidence
        <3> QED BY <2>2, <3>1, <3>2
    <2>7. \/ UNCHANGED <<decisions, parameters, verifications>>
             /\ eligibilities \subseteq eligibilities'
          \/ \E w \in Workers : CommitDecision(w) \/ PersistParameters(w) \/ StoreVerification(w)
        BY <1>1 DEF Next, Request, Retire, VerifyLifecycle, SyncRequested, SyncFailed, SyncCompleted,
           MaterializeEligibility, BeginDecision, BeginParameters, BeginVerification, Begin,
           ReadLifecycle, ReadMarket, EvaluateCandidate, rows, sources
    <2> QED BY <2>3, <2>4, <2>5, <2>6, <2>7
<1>2. Core /\ [Next]_vars => [Added]_vars
    BY <1>1
<1> QED BY <1>2, CoreIsInv, RouterInvariant, PTL DEF Spec, EvidenceIsImmutable

\* An eligible snapshot that the sources have left behind is never exact again, so
\* a check of exactness cannot be passed by waiting, nor by failing to synchronize.
THEOREM StaleSnapshotSafety == Spec => StaleForGood
<1> DEFINE Kept == \A e \in eligibilities : e.status = "ELIGIBLE" /\ Stale(e) => Stale(e)'
<1>1. ASSUME Core, Next PROVE Kept
    <2>1. SourcesSound /\ market \in Markets /\ \A s \in Strategies : Lifecycle(s) \in Lives
        BY <1>1, CoreTypes
    <2>2. CASE UNCHANGED <<status, lifecycle, market>>
        BY <2>2 DEF Stale, Exact, Lifecycle
    <2>3. CASE World
        <3> SUFFICES ASSUME NEW e \in eligibilities, e.status = "ELIGIBLE",
                            Exact(e, Lifecycle(e.strategy)', market')
                     PROVE  Exact(e, Lifecycle(e.strategy), market)
            BY DEF Stale, Exact, Lifecycle
        <3>1. PICK l, k : l = Lifecycle(e.strategy) /\ k = Lifecycle(e.strategy)'
            OBVIOUS
        <3>2. /\ e.strategy \in Strategies
              /\ e.seen.life \in Lives /\ e.seen.market \in Markets
              /\ e.seen = [life |-> e.seen.life, market |-> e.seen.market]
              /\ LifeUpTo(e.seen.life, l) /\ MarketUpTo(e.seen.market, market)
              /\ e.seen.market.sync = "UP_TO_DATE"
            BY <2>1, <3>1, RowFacts
        <3>3. /\ l \in Lives /\ k \in Lives /\ LifeUpTo(l, k)
              /\ market' \in Markets /\ MarketUpTo(market, market')
            BY <2>1, <2>3, <3>1, <3>2 DEF World
        <3>4. e.seen.life = k /\ e.seen.market = market'
            BY <3>1 DEF Exact
        <3>5. e.seen.life = l /\ e.seen.market = market
            BY <2>1, <3>2, <3>3, <3>4, LifeOrder, MarketOrder
        <3> QED BY <3>1, <3>2, <3>5 DEF Exact
    <2>4. UNCHANGED <<status, lifecycle, market>> \/ World
        <3>1. CASE \E s \in Strategies : Retire(s) \/ VerifyLifecycle(s)
            BY <1>1, <3>1, LifecycleStep
        <3>2. CASE SyncRequested \/ SyncFailed \/ SyncCompleted
            BY <1>1, <3>2, SyncStep
        <3>3. CASE \/ \E s \in Strategies, at \in Instants : MaterializeEligibility(s, at)
                   \/ \E w \in Workers : Request(w)
            BY <3>3 DEF Request, MaterializeEligibility, BeginDecision, BeginParameters,
               BeginVerification, Begin, ReadLifecycle, ReadMarket, EvaluateCandidate,
               CommitDecision, PersistParameters, StoreVerification, sources
        <3> QED BY <1>1, <3>1, <3>2, <3>3 DEF Next
    <2> QED BY <2>2, <2>3, <2>4
<1>2. Core /\ [Next]_vars => [Kept]_vars
    BY <1>1
<1> QED BY <1>2, CoreIsInv, RouterInvariant, PTL DEF Spec, StaleForGood
==============================================================================
