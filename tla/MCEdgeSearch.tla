---------------------------- MODULE MCEdgeSearch ----------------------------
(***************************************************************************)
(* A grid of two points, declared out of order; releases that extend the   *)
(* registry or redefine a block of it.                                     *)
(***************************************************************************)
EXTENDS EdgeSearchVerification, TLC

MCPayloads ==
    {[disclosed |-> TRUE,
      dimensions |->
         [stop_scale |-> <<400>>, target_ratio |-> <<20>>, sma_fast |-> <<50>>,
          sma_slow |-> <<200>>, sma_relation |-> <<"ABOVE">>, polarity |-> <<"BULLISH">>,
          direction |-> <<"LONG">>, session_window |-> <<<<>>>>,
          stop_type |-> <<"FIXED", "ATR">>]]}

MCShipped == ("BASE" :> 1) @@ ("FIXED_PRICE_DISTANCE" :> 1) @@ ("ATR_SCALED" :> 1)
MCReleases ==
    {MCShipped, MCShipped @@ ("SESSION_WINDOW" :> 1), [MCShipped EXCEPT !["ATR_SCALED"] = 2]}

\* Sound for the safety runs: no property names a worker.
MCSymmetry == Permutations(Workers)

InFlight ==
    Cardinality({w \in Workers : req[w] # Idle}) + (IF audit = NoAudit THEN 0 ELSE 1)

\* Bounds: two requests in flight, the verifier's among them; one after a release or
\* a promotion, which no request of the campaign reads; the verifier has the service
\* to itself once the dataset has grown; breadth is measured in quiet, before the
\* first opening; nothing is requested after a verification.
MCBounds ==
    /\ InFlight <= 2
    /\ (registry = Shipped /\ promoted = {}) \/ InFlight <= 1
    /\ audit = NoAudit \/ ~grown \/ InFlight <= 1
    /\ (\A t \in Trials : breadth[t] = {}) \/ (InFlight = 0 /\ Opened = {})
    /\ verifications = {} \/ InFlight = 0
=============================================================================
