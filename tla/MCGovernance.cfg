SPECIFICATION Spec
CONSTANTS
  w1 = w1
  w2 = w2
  Workers = {w1, w2}
  SufficientRows = 1
  FreshFor = 1
  TicksPerMinute = 2
  Bounds <- MCBounds
  None = None
SYMMETRY Symmetry
CHECK_DEADLOCK FALSE
INVARIANTS
    GovernanceInv
    BlockHasIncident
    NoDraftOverAnOpenIncident
PROPERTIES
    ReadyStaysStale
