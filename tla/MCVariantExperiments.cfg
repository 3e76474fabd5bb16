\* Two requests, three variants, a growing dataset.
CONSTANTS
    Rows <- MCRows
    Declared = 5
    Matrix = 3
    Baseline = 2
    Workers = {w1, w2}
    HardLimit = 25
    MinimumTrades = 100
    FactorThreshold = 110
    FingerprintRank <- MCFingerprintRank
    Payloads <- MCPayloads
    Strategies <- MCStrategies
    Replays <- MCReplays
    None = None
SPECIFICATION DeclaredSpec
SYMMETRY MCSymmetry
CONSTRAINT MCBounds
INVARIANTS
    IInv
    SelectedIsUnbeaten
PROPERTIES
    DecisionsSurviveLostLeases
    ImplementsExperiment
