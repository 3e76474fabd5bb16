SPECIFICATION Spec
CONSTANTS
  Sessions <- MCSessions
  BaseEnd = 3
  Horizon = 6
  BucketMinutes = 2
  MaxJobs = 2
  MaxFaults = 2
  MaxRevisions = 1
  MaxDatasets = 2
  BootstrapAnytime = FALSE
  Schedulers = {"SCHEDULED", "MANUAL"}
  None = None
CHECK_DEADLOCK FALSE
INVARIANTS
    RegistryInv
    RegistryExactWithoutFaults
PROPERTIES
    FinishedHistoryIsAppendOnly
    AnswerIsConsumed
