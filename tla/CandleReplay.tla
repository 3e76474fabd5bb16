----------------------------- MODULE CandleReplay -----------------------------
(***************************************************************************)
(* The replay of a Strategy Contract over one split of a registered asset: *)
(* simulate_kernel (backtesting.py) bar by bar, its signals decided by the *)
(* split-isolated StreamingCompletedCandleEvaluator, its trades counted by *)
(* the accumulators of oos_validation._evaluate.  One action is one turn   *)
(* of the kernel's loop with every callback it makes; the chunks the bars  *)
(* arrive in leave no trace in its state.                                  *)
(*                                                                         *)
(* Candles are indices into the execution asset; 0 stands for None.        *)
(***************************************************************************)
EXTENDS CandleRules

CONSTANTS
  Exec, Ctx,          \* the execution timeframe and one context timeframe
  ExecMinutes,        \* their lengths (_MINUTES)
  CtxMinutes,
  Shapes,             \* the candles the market may produce: records [o, h, l, c]
  Calendars,          \* the timestamps of the split's execution candles
  Contexts,           \* the context asset: sequences of candles with their t
  Contracts,          \* normalized contracts
  Spread, Commission, \* the kernel's configuration
  Stop, Target,
  RegimeLookback,     \* REGIME_LOOKBACK
  NoTrade             \* no position, no record

-----------------------------------------------------------------------------
Shaped == [o : Int, h : Int, l : Int, c : Int]
Candle == [t : Int, o : Int, h : Int, l : Int, c : Int]
Position == [signal : Nat, bar : Nat, entry : Int, stop : Int, target : Int, high : Int, low : Int]
Decision == [at : Nat, eligible : BOOLEAN]

Warmup == "UNCLASSIFIED_WARMUP"
Labels == {"TRENDING", "RANGING"}

\* A contract the capability assessment has accepted: known blocks on the two
\* timeframes, positive periods, a fast one smaller than the slow one.
AcceptedLeaf(leaf) ==
  /\ leaf.tf \in {Exec, Ctx}
  /\ leaf.block \in {"ALWAYS", "CANDLE_DIRECTION", "TWO_BAR_REVERSAL", "SMA_RELATION",
                     "PRICE_VS_MA", "RSI_THRESHOLD", "MINIMUM_RANGE"}
  /\ leaf.block = "SMA_RELATION" => leaf.slow \in Nat /\ leaf.fast \in 1 .. leaf.slow - 1
  /\ leaf.block \in {"PRICE_VS_MA", "RSI_THRESHOLD"} => leaf.period \in Nat \ {0}
  /\ leaf.block = "MINIMUM_RANGE" => leaf.lookback \in Nat \ {0}
  /\ leaf.block = "CANDLE_DIRECTION" => leaf.direction \in {"BULLISH", "BEARISH", "LEGACY"}

Accepted(x) ==
  /\ x.side \in {"LONG", "SHORT"} /\ x.atr \in Nat /\ IsFiniteSet(x.rules)
  /\ \A r \in x.rules : IsFiniteSet(Leaves(r)) /\ \A leaf \in Leaves(r) : AcceptedLeaf(leaf)

Rising(times) == \A i, j \in DOMAIN times : i < j => times[i] < times[j]

\* The rows of a registered asset are in the order of time, one for each.
ASSUME ReplayAssumption ==
  /\ Exec # Ctx /\ ExecMinutes \in Nat \ {0} /\ CtxMinutes \in Nat \ {0}
  /\ Shapes \subseteq Shaped
  /\ \A x \in Calendars : x \in Seq(Int) /\ Rising(x)
  /\ \A x \in Contexts : x \in Seq(Candle) /\ Rising([i \in DOMAIN x |-> x[i].t])
  /\ \A x \in Contracts : Accepted(x)
  /\ Spread \in Int /\ Commission \in Int /\ Stop \in Int /\ Target \in Int
  /\ RegimeLookback \in Nat \ {0}
  /\ NoTrade \notin Position /\ NoTrade \notin Decision /\ NoTrade \notin Labels \cup {Warmup}

VARIABLES
  contract, calendar, context,  \* the inputs, fixed for the run
  bars,                         \* the execution candles fed so far
  before, signal,               \* before_signal, signal
  active,                       \* the open position, or NoTrade
  trades,                       \* what on_trade received
  history,                      \* histories: per timeframe, at most lookback + 1 indices
  taken,                        \* candles read from the context source
  pending,                      \* the one read too early, or 0
  decision,                     \* the last answer of decide: [at, eligible]
  regimes,                      \* current_regime, pre_candle_regime, entry_regime
  totals,                       \* _OosMetricAccumulator and regime_net_pnl
  ended

inputs == <<contract, calendar, context>>
replayVars == <<contract, calendar, context, bars, before, signal, active, trades,
          history, taken, pending, decision, regimes, totals, ended>>

Keep(seq, n) == IF Len(seq) > n THEN Window(seq, n) ELSE seq
sign == IF contract.side = "LONG" THEN 1 ELSE -1

-----------------------------------------------------------------------------
(* The evaluator *)

Minutes(tf) == IF tf = Exec THEN ExecMinutes ELSE CtxMinutes
CloseTime(bar, tf) == bar.t + Minutes(tf)
DecisionClose(bar) == CloseTime(bar, Exec)

\* observe_execution_bar: the deque drops the oldest candle.
Observed(i) == [history EXCEPT ![Exec] =
                  Keep(Append(@, i), RequiredLookback(contract, Exec, Exec) + 1)]

(***************************************************************************)
(* _advance_context: read the context source up to the first candle that   *)
(* closes after the decision, which is kept pending; of the others those   *)
(* that closed after the split's start enter the history.                  *)
(***************************************************************************)
Advance(split, close) ==
  LET due(j) == CloseTime(context[j], Ctx) <= close
      held   == IF pending = 0 THEN taken ELSE taken - 1
      seen   == {j \in held + 1 .. Len(context) : \A k \in held + 1 .. j : due(k)}
      last   == Max(seen \cup {held})
      fresh  == Chosen([k \in 1 .. last - held |-> held + k],
                       {k \in 1 .. last - held : CloseTime(context[held + k], Ctx) > split})
  IN [taken   |-> IF last < Len(context) THEN last + 1 ELSE last,
      pending |-> IF last < Len(context) THEN last + 1 ELSE 0,
      fresh   |-> fresh]

\* Slip: the newest candle is taken for a complete one.
AvailableUnfinished(hist, at, feed) ==
  [tf \in {Exec, Ctx} |->
     LET src == IF tf = Exec THEN feed ELSE context
     IN [k \in DOMAIN hist[tf] |-> src[hist[tf][k]]]]

\* _available: what of a timeframe's history is complete at the decision.
Available(hist, at, feed) ==
  [tf \in {Exec, Ctx} |->
     LET src  == IF tf = Exec THEN feed ELSE context
         kept == [k \in DOMAIN hist[tf] |-> src[hist[tf][k]]]
     IN Chosen(kept, {k \in DOMAIN kept : CloseTime(kept[k], tf) <= DecisionClose(feed[at])})]

\* _session: the hour of the completed signal candle, here one of two.
InSession(bar) == contract.hours = {} \/ (bar.t \div 4) % 2 \in contract.hours

\* decide, on the candles available: every rule of every section, the session
\* window, and an ATR that the scaled distances can be taken from.
RulesHold(avail, bar) ==
  /\ \A r \in contract.rules : RuleTruth(r, avail)
  /\ InSession(bar)
  /\ contract.atr > 0 => Atr(avail[Exec], contract.atr) > 0

\* distance: the scaled one of the decision, or the configured one.
StopDistance(avail) == IF contract.atr > 0 THEN Atr(avail[Exec], contract.atr) ELSE Stop

-----------------------------------------------------------------------------
(* Regimes: what the breakdown knows of the market before a candle *)

Path(closes) == Total([k \in 1 .. Len(closes) - 1 |->
                         IF closes[k + 1] >= closes[k] THEN closes[k + 1] - closes[k]
                                                       ELSE closes[k] - closes[k + 1]])
\* The label after the candles feed: an efficiency of at least one half trends.
RegimeAfter(feed) ==
  IF Len(feed) < RegimeLookback + 1 THEN Warmup
  ELSE LET closes == Closes(Window(feed, RegimeLookback + 1))
           net    == closes[RegimeLookback + 1] - closes[1]
       IN IF Path(closes) > 0 /\ 2 * (IF net < 0 THEN -net ELSE net) >= Path(closes)
          THEN "TRENDING" ELSE "RANGING"

-----------------------------------------------------------------------------
(* Positions *)

StopHit(pos, bar)   == IF sign = 1 THEN bar.l <= pos.stop ELSE bar.h >= pos.stop
TargetHit(pos, bar) == IF sign = 1 THEN bar.h >= pos.target ELSE bar.l <= pos.target
Hit(pos, bar) == StopHit(pos, bar) \/ TargetHit(pos, bar)

Widened(pos, bar) == [pos EXCEPT !.high = Max({@, bar.h}), !.low = Min({@, bar.l})]

\* A position closed at a price: the ledger's record.
Record(pos, i, price, reason) ==
  LET adverse   == IF sign = 1 THEN pos.low ELSE pos.high
      favourable == IF sign = 1 THEN pos.high ELSE pos.low
  IN [signal |-> pos.signal, entryBar |-> pos.bar, exitBar |-> i, entry |-> pos.entry,
      exit |-> price, reason |-> reason,
      pnl |-> sign * (price - pos.entry) - Commission,
      mae |-> sign * (adverse - pos.entry), mfe |-> sign * (favourable - pos.entry)]

\* Slip: the target is looked at first.
ExitedTargetFirst(pos, i, bar) ==
  IF TargetHit(pos, bar) THEN Record(pos, i, pos.target, "TAKE_PROFIT")
                         ELSE Record(pos, i, pos.stop, "STOP_LOSS")

\* STOP_FIRST: a candle that reaches both is a stop.
Exited(pos, i, bar) ==
  IF StopHit(pos, bar)
  THEN Record(pos, i, pos.stop, IF TargetHit(pos, bar) THEN "AMBIGUOUS_STOP_FIRST" ELSE "STOP_LOSS")
  ELSE Record(pos, i, pos.target, "TAKE_PROFIT")

\* Slip: the label of the entry candle itself.
EntryRegimeOfCandle(feed) == RegimeAfter(feed)

\* on_entry: the label of the candle before the entry candle.
EntryRegime(feed) == regimes.current

\* on_trade of the evidence: metrics and the regime of the entry.
Counted(t, regime) ==
  LET equity == totals.equity + t.pnl
      losing == IF t.pnl > 0 THEN 0 ELSE totals.losing + 1
      peak   == Max({totals.peak, equity})
      label  == IF regime = NoTrade THEN Warmup ELSE regime
  IN [count |-> totals.count + 1, equity |-> equity, peak |-> peak,
      drawdown |-> Min({totals.drawdown, equity - peak}),
      losing |-> losing, maxLosing |-> Max({totals.maxLosing, losing}),
      byRegime |-> [totals.byRegime EXCEPT ![label] = @ + t.pnl]]
-----------------------------------------------------------------------------
(* Actions *)

ReplayInit ==
  /\ contract \in Contracts /\ calendar \in Calendars /\ context \in Contexts
  /\ bars = <<>> /\ before = 0 /\ signal = 0
  /\ active = NoTrade /\ trades = <<>>
  /\ history = [tf \in {Exec, Ctx} |-> <<>>]
  /\ taken = 0 /\ pending = 0 /\ decision = NoTrade
  /\ regimes = [current |-> Warmup, pre |-> Warmup, entry |-> NoTrade]
  /\ totals = [count |-> 0, equity |-> 0, peak |-> 0, drawdown |-> 0, losing |-> 0,
               maxLosing |-> 0, byRegime |-> [l \in Labels \cup {Warmup} |-> 0]]
  /\ ended = FALSE

\* The next candle of the split, with its place in the calendar.
NextCandle(shape) ==
  [t |-> calendar[Len(bars) + 1], o |-> shape.o, h |-> shape.h, l |-> shape.l, c |-> shape.c]

\* on_candle: the evaluator and the breakdown see every candle first.
OnCandle(bar) ==
  /\ ~ended /\ Len(bars) < Len(calendar)
  /\ bars' = Append(bars, bar)
  /\ UNCHANGED <<inputs, ended>>

Shift(i)  == before' = signal /\ signal' = i
\* Slip: the exit candle stays in the window.
ForgetKeepingExit(i) == before' = signal /\ signal' = i

Forget(i) == before' = 0 /\ signal' = i      \* the exit candle is no signal

Relabelled(feed) == [current |-> RegimeAfter(feed), pre |-> regimes.current, entry |-> regimes.entry]

\* A candle while a position is open.
ManagePosition(shape) ==
  LET bar == NextCandle(shape)
      i   == Len(bars) + 1
      pos == Widened(active, bar)
  IN /\ active # NoTrade
     /\ OnCandle(bar)
     /\ history' = Observed(i)
     /\ IF Hit(pos, bar)
        THEN LET t == Exited(pos, i, bar) IN
             /\ trades' = Append(trades, t) /\ totals' = Counted(t, regimes.entry)
             /\ active' = NoTrade /\ Forget(i)
             /\ regimes' = [Relabelled(bars') EXCEPT !.entry = NoTrade]
        ELSE /\ active' = pos /\ Shift(i)
             /\ regimes' = Relabelled(bars')
             /\ UNCHANGED <<trades, totals>>
     /\ UNCHANGED <<taken, pending, decision>>

\* A flat candle without two candles before it.
FillWindow(shape) ==
  LET bar == NextCandle(shape)
      i   == Len(bars) + 1
  IN /\ active = NoTrade /\ (before = 0 \/ signal = 0)
     /\ OnCandle(bar)
     /\ history' = Observed(i) /\ regimes' = Relabelled(bars')
     /\ Shift(i)
     /\ UNCHANGED <<active, trades, totals, taken, pending, decision>>

\* The position of an entry at this candle's open.
Opened(i, bar, avail) ==
  LET entry == bar.o + sign * Spread
  IN [signal |-> signal, bar |-> i, entry |-> entry,
      stop |-> entry - sign * StopDistance(avail), target |-> entry + sign * Target,
      high |-> bar.h, low |-> bar.l]

\* The evaluator's answer to a flat candle with two candles before it.
Decide(bar, i) ==
  LET adv == Advance(calendar[1], DecisionClose(bars[signal]))
  IN /\ taken' = adv.taken /\ pending' = adv.pending
     /\ history' = [Observed(i) EXCEPT ![Ctx] =
                      Keep(@ \o adv.fresh, RequiredLookback(contract, Ctx, Exec) + 1)]
     /\ decision' = [at |-> signal,
                     eligible |-> RulesHold(Available(history', signal, bars'), bars[signal])]

\* An ineligible signal: the window moves on.
PassSignal(shape) ==
  LET bar == NextCandle(shape)
      i   == Len(bars) + 1
  IN /\ active = NoTrade /\ before # 0 /\ signal # 0
     /\ OnCandle(bar)
     /\ Decide(bar, i)
     /\ ~decision'.eligible
     /\ regimes' = Relabelled(bars') /\ Shift(i)
     /\ UNCHANGED <<active, trades, totals>>

(***************************************************************************)
(* An eligible signal: the entry at this candle's open, which the candle   *)
(* may close again.                                                        *)
(***************************************************************************)
EnterPosition(shape) ==
  LET bar == NextCandle(shape)
      i   == Len(bars) + 1
  IN /\ active = NoTrade /\ before # 0 /\ signal # 0
     /\ OnCandle(bar)
     /\ Decide(bar, i)
     /\ decision'.eligible
     /\ LET pos    == Opened(i, bar, Available(history', signal, bars'))
            regime == EntryRegime(bars')
        IN IF Hit(pos, bar)
           THEN LET t == Exited(pos, i, bar) IN
                /\ trades' = Append(trades, t) /\ totals' = Counted(t, regime)
                /\ active' = NoTrade /\ Forget(i)
                /\ regimes' = [Relabelled(bars') EXCEPT !.entry = NoTrade]
           ELSE /\ active' = pos /\ Shift(i)
                /\ regimes' = [Relabelled(bars') EXCEPT !.entry = regime]
                /\ UNCHANGED <<trades, totals>>

\* The asset is exhausted: an open position closes at the last close.
DataEnd ==
  /\ ~ended /\ bars # <<>>
  /\ ended' = TRUE
  /\ IF active = NoTrade THEN UNCHANGED <<active, trades, totals, regimes>>
     ELSE LET t == Record(active, signal, bars[signal].c, "DATA_END") IN
          /\ trades' = Append(trades, t) /\ totals' = Counted(t, regimes.entry)
          /\ active' = NoTrade /\ regimes' = [regimes EXCEPT !.entry = NoTrade]
  /\ UNCHANGED <<inputs, bars, before, signal, history, taken, pending, decision>>

Feed(shape) == ManagePosition(shape) \/ FillWindow(shape) \/ PassSignal(shape) \/ EnterPosition(shape)

ReplayNext == DataEnd \/ \E shape \in Shapes : Feed(shape)

ReplaySpec == ReplayInit /\ [][ReplayNext]_replayVars
-----------------------------------------------------------------------------
(* What the replay is compared with *)

\* The batch evaluator on the split alone: CompletedCandleEvaluator._available
\* over the candles that closed after the split's start.
BatchAvailable(at) ==
  [tf \in {Exec, Ctx} |->
     LET src == IF tf = Exec THEN bars ELSE context
     IN Chosen(src, {k \in DOMAIN src : /\ CloseTime(src[k], tf) <= DecisionClose(bars[at])
                                        /\ CloseTime(src[k], tf) > calendar[1]})]

BatchEligible(at) == RulesHold(BatchAvailable(at), bars[at])

\* A SHORT position is a LONG one on the mirrored market.
Mirror(bar) == IF sign = 1 THEN bar
               ELSE [t |-> bar.t, o |-> -bar.o, h |-> -bar.l, l |-> -bar.h, c |-> -bar.c]

(***************************************************************************)
(* _simulate_legacy: the loop over indices the kernel replaced, LONG only. *)
(* LegacyTrade is the trade whose signal is candle s.                      *)
(***************************************************************************)
LegacyTrade(feed, s) ==
  LET entry  == feed[s + 1].o + Spread
      stop   == entry - StopDistance(BatchAvailable(s))
      target == entry + Target
      hit    == {k \in s + 1 .. Len(feed) : feed[k].l <= stop \/ feed[k].h >= target}
      last   == IF hit = {} THEN Len(feed) ELSE Min(hit)
      held   == s + 1 .. last
      price  == IF hit = {} THEN feed[last].c ELSE IF feed[last].l <= stop THEN stop ELSE target
      reason == CASE hit = {} -> "DATA_END"
                  [] hit # {} /\ feed[last].l <= stop /\ feed[last].h >= target -> "AMBIGUOUS_STOP_FIRST"
                  [] hit # {} /\ feed[last].l <= stop /\ feed[last].h < target -> "STOP_LOSS"
                  [] OTHER -> "TAKE_PROFIT"
  IN [signal |-> s, entryBar |-> s + 1, exitBar |-> last, entry |-> sign * entry,
      exit |-> sign * price, reason |-> reason, pnl |-> price - entry - Commission,
      mae |-> Min({feed[k].l : k \in held}) - entry, mfe |-> Max({feed[k].h : k \in held}) - entry]

\* One turn of its loop: at the end of the data nothing, after a candle that is
\* no signal the next one, after a trade the candle behind its exit.
LegacyTurn(loop) ==
  IF loop.at >= Len(bars) THEN loop
  ELSE IF ~BatchEligible(loop.at) THEN [loop EXCEPT !.at = @ + 1]
  ELSE LET t == LegacyTrade([i \in DOMAIN bars |-> Mirror(bars[i])], loop.at)
       IN [at |-> t.exitBar + 1, trades |-> Append(loop.trades, t)]

LegacyLedger ==
  LET after[k \in 0 .. Len(bars)] ==
        IF k = 0 THEN [at |-> 2, trades |-> <<>>] ELSE LegacyTurn(after[k - 1])
  IN after[Len(bars)].trades

\* The profit of a run of trades.
RunPnl(i, j) == Total([k \in 1 .. j - i + 1 |-> trades[i + k - 1].pnl])
Runs == {r \in (DOMAIN trades) \X (DOMAIN trades) : r[1] <= r[2]}
-----------------------------------------------------------------------------
TradeRecord ==
  [signal : Nat, entryBar : Nat, exitBar : Nat, entry : Int, exit : Int, pnl : Int, mae : Int, mfe : Int,
   reason : {"STOP_LOSS", "AMBIGUOUS_STOP_FIRST", "TAKE_PROFIT", "DATA_END"}]

\* The kernel's window, position and histories are indices into what was fed,
\* and a history never outgrows the declared lookback.
ReplayTypeOK ==
  /\ before \in 0 .. Len(bars) /\ signal \in 0 .. Len(bars) /\ before <= signal
  /\ active # NoTrade => active.signal + 1 = active.bar /\ active.bar <= Len(bars)
  /\ \A k \in DOMAIN trades : trades[k] \in TradeRecord
  /\ \A tf \in {Exec, Ctx} : Len(history[tf]) <= RequiredLookback(contract, tf, Exec) + 1
  /\ taken \in 0 .. Len(context) /\ pending \in {0, taken}
  /\ regimes.entry = NoTrade <=> active = NoTrade

\* The streaming evaluator, which keeps only the declared lookback of its
\* split, gives every signal the answer of the batch evaluator on the split.
StreamingAgreesWithBatch == decision # NoTrade => decision.eligible = BatchEligible(decision.at)

\* The single pass over the candles writes the ledger of the legacy loop, and
\* for SHORT that of the mirrored market.
LedgerMatchesReference == ended => trades = LegacyLedger

\* One position at a time: a trade's signal is a candle after the exit before it.
OnePositionAtATime ==
  /\ \A k \in 2 .. Len(trades) : trades[k].signal > trades[k - 1].exitBar
  /\ active # NoTrade /\ trades # <<>> => active.signal > trades[Len(trades)].exitBar

\* The drawdown accumulated trade by trade is the worst fall over any run of
\* trades; the losing streak is the longest run without a winner.
MetricsMatchLedger ==
  /\ totals.drawdown = Min({RunPnl(r[1], r[2]) : r \in Runs} \cup {0})
  /\ totals.maxLosing = Max({r[2] - r[1] + 1 : r \in {q \in Runs :
                               \A k \in q[1] .. q[2] : trades[k].pnl <= 0}} \cup {0})
  /\ totals.equity = IF trades = <<>> THEN 0 ELSE RunPnl(1, Len(trades))

\* A trade is counted under the regime of the candles before its entry candle:
\* what the entry candle does next is no part of it.
RegimeIsKnownAtEntry ==
  \A l \in Labels \cup {Warmup} :
    totals.byRegime[l] =
      Total([k \in DOMAIN trades |->
               IF RegimeAfter(SubSeq(bars, 1, trades[k].entryBar - 1)) = l THEN trades[k].pnl ELSE 0])

\* The kernel's window, its one position and the metrics it accumulates agree
\* with the trades it has written so far.
KernelInv == ReplayTypeOK /\ OnePositionAtATime /\ MetricsMatchLedger
==============================================================================
