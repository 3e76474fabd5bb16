------------------------- MODULE MCGenericDemoChain -------------------------
(***************************************************************************)
(* Small instances of GenericDemoChain.  f1 and f2 publish the same        *)
(* configuration under two references to this terminal's account; f3       *)
(* publishes another configuration to another account.                     *)
(***************************************************************************)
EXTENDS GenericDemoChain, TLC

CONSTANTS f1, f2, f3, c1, c2

MCConfigOf == [f \in Fingerprints |-> IF f = f3 THEN c2 ELSE c1]
MCOnTerminal == Fingerprints \ {f3}

\* Sound for the safety runs: no property names a worker or an id.
MCSymmetry == Permutations(Workers) \cup Permutations(PublicationIds)

\* Two requests race between two reloads of the terminal, or one request races a
\* reload, in a terminal that may have a legacy configuration.
MCRaces ==
    \/ candidate = None /\ strategyIni = None
    \/ \E w \in Workers : req[w].step = "idle"
=============================================================================
