SPECIFICATION ReplaySpec
CONSTANTS
  Exec = "M1"
  Ctx = "M5"
  ExecMinutes = 1
  CtxMinutes = 2
  WarmupMultiple = 2
  Shapes <- MCShapes
  Calendars <- MCCalendars
  Contexts <- MCContexts
  Contracts <- MCContracts
  Spread = 1
  Commission = 0
  Stop = 2
  Target = 2
  RegimeLookback = 2
  NoTrade = NoTrade
CHECK_DEADLOCK FALSE
INVARIANTS
    KernelInv
    StreamingAgreesWithBatch
    LedgerMatchesReference
    RegimeIsKnownAtEntry
