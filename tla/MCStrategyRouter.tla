--------------------------- MODULE MCStrategyRouter ---------------------------
(***************************************************************************)
(* Two strategies that both signal on the second bar and each alone on one *)
(* other; sound inputs, and ones whose quote is off the tick.              *)
(***************************************************************************)
EXTENDS StrategyRouter, TLC
CONSTANTS s1, s2
MCEvaluation ==
  (s1 :> <<"SIGNAL", "SIGNAL">>) @@ (s2 :> <<"NO_SIGNAL", "SIGNAL">>)
MCRules == [s \in Strategies |-> [stop |-> 40, take |-> 80, volume |-> 1]]
Quote == [exact |-> TRUE, observed |-> 2, collected |-> 1, bid |-> 980, ask |-> 1000,
          tick |-> 20, volume |-> 1]
MCSymmetry == Permutations(Workers)
MCInputs == {Quote, [Quote EXCEPT !.ask = 1010]}

\* Two requests race about one snapshot.  One request serves a cohort of two; one
\* of them may be ineligible by its lifecycle, a lone one by its market also.
MCBounds ==
  \/ Cardinality(eligibilities) <= 1
  \/ /\ Cardinality(Serving) = 1
     /\ \A e \in eligibilities : e.seen.market.sync = "UP_TO_DATE"
==============================================================================
