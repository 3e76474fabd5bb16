--------------------------- MODULE MCHistoricalSync ---------------------------
(***************************************************************************)
(* Three minutes of snapshot and up to three more, in buckets of two;      *)
(* the market trades every minute, or one minute is missing.               *)
(***************************************************************************)
EXTENDS HistoricalSync
MCSessions == {1 .. 6, (1 .. 6) \ {5}}
==============================================================================
