SPECIFICATION Spec
CONSTANTS
  s1 = s1
  s2 = s2
  Workers = {w1, w2}
  Strategies = {s1, s2}
  Evaluation <- MCEvaluation
  Rules <- MCRules
  Instants = {2}
  Inputs <- MCInputs
  MaxAge = 1
  Point = 10
  Horizon = 2
  MaxEligibilities = 2
  MaxDecisions = 1
  MaxChanges = 2
  None = None
CONSTRAINT MCBounds
SYMMETRY MCSymmetry
CHECK_DEADLOCK FALSE
INVARIANTS
    RouterInv
    SafetyPassedIsCurrent
PROPERTIES
    EvidenceIsImmutable
    StaleForGood
