------------------------- MODULE PublicationLedger --------------------------
(***************************************************************************)
(* What a reader of the publications table is promised: each publication   *)
(* answers one stable request, no two answer the same one, and its status  *)
(* only moves forward.  A failed or blocked publication never changes      *)
(* again, and a block keeps the reason it was given.                       *)
(***************************************************************************)
CONSTANTS PublicationIds, Fingerprints, Reasons, None

VARIABLES status, request, reason

ledger == <<status, request, reason>>

Init ==
    /\ status = [p \in PublicationIds |-> "ABSENT"]
    /\ request = [p \in PublicationIds |-> None]
    /\ reason = [p \in PublicationIds |-> None]

\* A new publication is committed, published or failed.
Publish(p, f) ==
    /\ status[p] = "ABSENT"
    /\ \A q \in PublicationIds : request[q] # f
    /\ request' = [request EXCEPT ![p] = f]
    /\ \E outcome \in {"DEMO_WAITING_FOR_MT5", "PUBLICATION_FAILED"} :
          status' = [status EXCEPT ![p] = outcome]
    /\ UNCHANGED reason

Acknowledge(p) ==
    /\ status[p] = "DEMO_WAITING_FOR_MT5"
    /\ status' = [status EXCEPT ![p] = "DEMO_ACKNOWLEDGED"]
    /\ UNCHANGED <<request, reason>>

Block(p, r) ==
    /\ status[p] \in {"DEMO_WAITING_FOR_MT5", "DEMO_ACKNOWLEDGED"}
    /\ status' = [status EXCEPT ![p] = "DEMO_ENTRIES_BLOCKED"]
    /\ reason' = [reason EXCEPT ![p] = r]
    /\ UNCHANGED request

Next ==
    \E p \in PublicationIds :
        \/ \E f \in Fingerprints : Publish(p, f)
        \/ Acknowledge(p)
        \/ \E r \in Reasons : Block(p, r)

Spec == Init /\ [][Next]_ledger
=============================================================================
