---------------------- MODULE MCLifecycleVerification ----------------------
(***************************************************************************)
(* Small instances of the lifecycle with its verifier beside it.           *)
(***************************************************************************)
EXTENDS LifecycleVerification, TLC

\* Sound: no property names a worker, a decision or a reason.
MCSymmetry ==
    Permutations(Workers) \cup Permutations(Decisions) \cup Permutations(Reasons)

\* Two snapshots are enough for two that compete, or a good and a stale one; two
\* requests race, or one request races the verifier.
MCRaces ==
    /\ Cardinality({key \in Keys : snapshots[key] # "NONE"}) <= 2
    /\ Cardinality(rows) <= 1
    /\ (check = NoCheck /\ rows = {}) \/ \E w \in Workers : req[w] = Idle
=============================================================================
