--------------------------- MODULE MCDemoGovernance ---------------------------
EXTENDS DemoGovernance
LOCAL INSTANCE TLC

\* Two requests at a time around one incident, whatever disturbs them.
Recovery ==
  [clock |-> 1, file |-> <<>>, rows |-> 2, evidence |-> 0, chains |-> 0, journal |-> 2, perType |-> 2,
   incidents |-> 1, proposals |-> 0, assessments |-> 0, statuses |-> {}, acceptances |-> 0,
   requests |-> 2, codes |-> {"OK"}, reasons |-> {"STALE_OR_MISSING_HEARTBEAT"},
   indexed |-> {"GENERIC_PUBLICATION", "GENERIC_TELEMETRY"},
   triggers |-> {"GENERIC_PUBLICATION", "GENERIC_TELEMETRY"},
   disturbances |-> {"COUNTER", "OWNER", "CRASH"}, faults |-> 1]

\* The same with a proposal, over one item of each kind.
Learning ==
  [Recovery EXCEPT !.proposals = 1, !.perType = 1, !.triggers = {"GENERIC_PUBLICATION"},
                   !.disturbances = {"CRASH"}]

\* A recovered terminal's file, all the way to READY and its acceptance, and on
\* to an incident that is recovered by evidence the assessment already had.
ReadyFile == <<[seq |-> 1, code |-> "OK", time |-> 0], [seq |-> 2, code |-> "RESTART_RECOVERED", time |-> 0]>>
ReadinessMax ==
  [clock |-> 1, file |-> ReadyFile, rows |-> 2, evidence |-> 1, chains |-> 1, journal |-> 5, perType |-> 1,
   incidents |-> 1, proposals |-> 0, assessments |-> 1, statuses |-> {"READY"}, acceptances |-> 1,
   requests |-> 1, codes |-> {"OK"}, reasons |-> {"TELEMETRY_CONFLICT"},
   indexed |-> SourceTypes, triggers |-> {"LIFECYCLE_VERIFICATION"},
   disturbances |-> {"RETIRED"}, faults |-> 1]

\* Or on to another event, with evidence and a chain verification of its own.
Drift == [ReadinessMax EXCEPT !.rows = 3, !.incidents = 0, !.evidence = 2, !.chains = 2,
                                !.faults = 0]

MCBounds ==
  [RECOVERY |-> Recovery, LEARNING |-> Learning, READINESS |-> ReadinessMax, DRIFT |-> Drift]
Symmetry == Permutations(Workers)
==============================================================================
