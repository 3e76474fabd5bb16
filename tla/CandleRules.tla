----------------------------- MODULE CandleRules -----------------------------
(***************************************************************************)
(* The typed rule blocks of a Strategy Contract, evaluated on completed    *)
(* candles (completed_candle_evaluator.py).  A rule reads the sequence of  *)
(* candles that are complete at the decision, oldest first.  A candle is   *)
(* [t, o, h, l, c] with integer prices; a rule is a record with a "block"  *)
(* and the parameters of that block.  Insufficient context makes a leaf    *)
(* false, and therefore its negation true.                                 *)
(***************************************************************************)
EXTENDS Integers, Sequences, FiniteSets, FiniteSetsExt

CONSTANT WarmupMultiple      \* RECURSIVE_WARMUP_MULTIPLE of the recursive indicators

ASSUME WarmupAssumption == WarmupMultiple \in Nat \ {0}

Bullish(bar) == bar.c > bar.o
Bearish(bar) == bar.c < bar.o

\* The elements of seq at the places in kept, in their order.
Chosen(seq, kept) ==
  LET from[i \in 0 .. Len(seq)] ==
        IF i = 0 THEN <<>> ELSE IF i \in kept THEN Append(from[i - 1], seq[i]) ELSE from[i - 1]
  IN from[Len(seq)]

\* The last n candles of what is available.
Window(avail, n) == SubSeq(avail, Len(avail) - n + 1, Len(avail))
Closes(avail) == [i \in DOMAIN avail |-> avail[i].c]
Total(nums) ==
  LET sum[k \in 0 .. Len(nums)] == IF k = 0 THEN 0 ELSE sum[k - 1] + nums[k]
  IN sum[Len(nums)]

\* warmup_bars: how far a recursive indicator of this period looks back.
WarmupBars(period) == Max({period + 1, WarmupMultiple * period})

(***************************************************************************)
(* How many completed candles a block is declared to need; the streaming   *)
(* evaluator keeps no more than that.                                      *)
(***************************************************************************)
BlockLookback(leaf) ==
  CASE leaf.block = "RSI_THRESHOLD"    -> WarmupBars(leaf.period) + 1
    [] leaf.block = "PRICE_VS_MA"      -> leaf.period
    [] leaf.block = "MINIMUM_RANGE"    -> leaf.lookback
    [] leaf.block = "SMA_RELATION"     -> leaf.slow
    [] leaf.block = "TWO_BAR_REVERSAL" -> 2
    [] OTHER                           -> 1

\* CANDLE_DIRECTION: one candle, or the legacy previous/current pair.
CandleDirection(leaf, avail) ==
  LET n == Len(avail) IN
  /\ n >= 1
  /\ CASE leaf.direction = "BULLISH" -> Bullish(avail[n])
       [] leaf.direction = "BEARISH" -> Bearish(avail[n])
       [] leaf.direction = "LEGACY"  -> n >= 2 /\ Bearish(avail[n - 1]) /\ Bullish(avail[n])

TwoBarReversal(leaf, avail) ==
  LET n == Len(avail) IN
  /\ n >= 2
  /\ IF leaf.direction = "BULLISH" THEN Bearish(avail[n - 1]) /\ Bullish(avail[n])
                                   ELSE Bullish(avail[n - 1]) /\ Bearish(avail[n])

\* fast mean above slow mean, without the division.
SmaAbove(leaf, avail) ==
  /\ Len(avail) >= leaf.slow
  /\ Total(Closes(Window(avail, leaf.fast))) * leaf.slow
       > Total(Closes(Window(avail, leaf.slow))) * leaf.fast

PriceAboveMean(leaf, avail) ==
  /\ Len(avail) >= leaf.period
  /\ avail[Len(avail)].c * leaf.period > Total(Closes(Window(avail, leaf.period)))

\* The relative strength is above 50: gains outweigh losses over the warm-up
\* window (the smoothing inside the window is left out).
GainsOutweighLosses(leaf, avail) ==
  LET span == WarmupBars(leaf.period) + 1 IN
  /\ Len(avail) >= span
  /\ avail[Len(avail)].c > avail[Len(avail) - span + 1].c

MinimumRange(leaf, avail) ==
  /\ Len(avail) >= leaf.lookback
  /\ LET seen == Window(avail, leaf.lookback) IN
     Max({seen[k].h : k \in DOMAIN seen}) - Min({seen[k].l : k \in DOMAIN seen}) >= leaf.distance

LeafTruth(leaf, avail) ==
  CASE leaf.block = "ALWAYS"           -> TRUE
    [] leaf.block = "CANDLE_DIRECTION" -> CandleDirection(leaf, avail)
    [] leaf.block = "TWO_BAR_REVERSAL" -> TwoBarReversal(leaf, avail)
    [] leaf.block = "SMA_RELATION"     -> SmaAbove(leaf, avail)
    [] leaf.block = "PRICE_VS_MA"      -> PriceAboveMean(leaf, avail)
    [] leaf.block = "RSI_THRESHOLD"    -> GainsOutweighLosses(leaf, avail)
    [] leaf.block = "MINIMUM_RANGE"    -> MinimumRange(leaf, avail)

\* The leaves of a rule: itself, the child of NOT, the children of ALL_OF and
\* ANY_OF (one level of nesting).
Leaves(rule) ==
  CASE rule.block \in {"ALL_OF", "ANY_OF"} -> rule.children
    [] rule.block = "NOT"                  -> {rule.child}
    [] OTHER                               -> {rule}

\* _rule, with avail[tf] the candles of timeframe tf complete at the decision.
RuleTruth(rule, avail) ==
  CASE rule.block = "ALL_OF" -> \A x \in rule.children : LeafTruth(x, avail[x.tf])
    [] rule.block = "ANY_OF" -> \E x \in rule.children : LeafTruth(x, avail[x.tf])
    [] rule.block = "NOT"    -> ~LeafTruth(rule.child, avail[rule.child.tf])
    [] OTHER                 -> LeafTruth(rule, avail[rule.tf])

\* The mean true range of the last candles, times the period; -1 for too few.
NoAtr == -1
TrueRange(bar, previous) ==
  LET Abs(x) == IF x < 0 THEN -x ELSE x
  IN Max({bar.h - bar.l, Abs(bar.h - previous.c), Abs(bar.l - previous.c)})

Atr(bars, period) ==
  IF Len(bars) < period + 1 THEN NoAtr
  ELSE LET n == Len(bars)
           ranges == [k \in 1..period |-> TrueRange(bars[n - k + 1], bars[n - k])]
       IN Total(ranges) \div period

(***************************************************************************)
(* _required_lookbacks: what the streaming evaluator keeps per timeframe.  *)
(***************************************************************************)
RequiredLookback(contract, tf, execution) ==
  LET leaves == UNION {Leaves(r) : r \in contract.rules}
  IN Max({BlockLookback(x) : x \in {y \in leaves : y.tf = tf}}
         \cup (IF tf = execution THEN {1} ELSE {0})
         \cup (IF tf = execution /\ contract.atr > 0 THEN {contract.atr + 1} ELSE {}))
==============================================================================
