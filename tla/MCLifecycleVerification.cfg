\* Two requests at a time over two decisions of one strategy, a dataset that
\* grows, and the verifier.
CONSTANTS
    Decisions = {d1, d2}
    SourceOutcomes = {"PASS", "FAIL"}
    Reasons = {r1, r2}
    MaxVersion = 1
    Workers = {w1, w2}
    NoKey = NoKey
    NoReason = NoReason
    NoDecision = NoDecision
SPECIFICATION LSpec
CONSTRAINT MCRaces
SYMMETRY MCSymmetry
INVARIANTS
    IInv
    VerifierInv
PROPERTIES
    EvidenceIsImmutable
    ForwardOnly
