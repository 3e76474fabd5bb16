---------------------------- MODULE MCCandleReplay ----------------------------
(***************************************************************************)
(* The replay on small markets: every sequence of up to six candles out of *)
(* five shapes, a context asset with a candle twice as long, seven         *)
(* contracts.  Prices are around 10, the spread is 1.                      *)
(***************************************************************************)
EXTENDS CandleReplay

Shape(o, h, l, c) == [o |-> o, h |-> h, l |-> l, c |-> c]
MCShapes == {Shape(11, 11, 10, 10),     \* bearish
             Shape(10, 11, 10, 11),     \* bullish
             Shape(11, 12, 8, 8),       \* a fall through a LONG stop
             Shape(10, 13, 9, 13),      \* a rise to a LONG target
             Shape(10, 14, 7, 11)}      \* both

\* Whole minutes; a broker gap; a split that begins inside a context candle.
MCCalendars == {<<4, 5, 6, 7, 8>>, <<3, 4, 7, 8, 9, 10>>}

Ctx2(t, up) == [t |-> t, o |-> 10, h |-> 12, l |-> 8, c |-> IF up THEN 11 ELSE 9]
MCContexts == {<<Ctx2(0, TRUE), Ctx2(2, FALSE), Ctx2(4, TRUE), Ctx2(6, FALSE), Ctx2(8, TRUE)>>,
               <<Ctx2(0, FALSE), Ctx2(2, TRUE), Ctx2(4, FALSE), Ctx2(6, TRUE)>>}

Leaf(block, tf) == [block |-> block, tf |-> tf]
Direction(tf, d) == [block |-> "CANDLE_DIRECTION", tf |-> tf, direction |-> d]
Reversal(tf, d)  == [block |-> "TWO_BAR_REVERSAL", tf |-> tf, direction |-> d]
Sma(tf)   == [block |-> "SMA_RELATION", tf |-> tf, fast |-> 1, slow |-> 2]
Mean(tf)  == [block |-> "PRICE_VS_MA", tf |-> tf, period |-> 2]
Rsi(tf)   == [block |-> "RSI_THRESHOLD", tf |-> tf, period |-> 1]
Span(tf)  == [block |-> "MINIMUM_RANGE", tf |-> tf, lookback |-> 2, distance |-> 3]
AllOf(S)  == [block |-> "ALL_OF", children |-> S]
AnyOf(S)  == [block |-> "ANY_OF", children |-> S]
Not(x)    == [block |-> "NOT", child |-> x]
Contract(side, rules, atr, hours) == [side |-> side, rules |-> rules, atr |-> atr, hours |-> hours]

MCContracts ==
  {Contract("LONG",  {Leaf("ALWAYS", Exec), Reversal(Exec, "BULLISH")}, 0, {}),
   Contract("SHORT", {Reversal(Exec, "BEARISH")}, 0, {}),
   Contract("LONG",  {Direction(Exec, "BULLISH"), Sma(Ctx)}, 0, {}),
   Contract("LONG",  {Direction(Exec, "BEARISH"), Not(Direction(Ctx, "BEARISH"))}, 0, {1}),
   Contract("SHORT", {AllOf({Span(Exec), Direction(Exec, "BEARISH")})}, 1, {}),
   Contract("LONG",  {Rsi(Exec)}, 0, {}),
   Contract("SHORT", {AnyOf({Mean(Ctx), Reversal(Ctx, "BEARISH"), Direction(Ctx, "LEGACY")})}, 2, {})}

\* The legacy previous/current shape of CANDLE_DIRECTION on the execution
\* timeframe: _block_lookback declares one candle for it, and it reads two.
MCLegacyContracts == {Contract("LONG", {Direction(Exec, "LEGACY")}, 0, {})}
==============================================================================
