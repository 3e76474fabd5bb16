\* Two requests racing for one campaign's budget, or one and the verifier.
CONSTANTS
    TrialCount = 2
    Budget = 1
    Workers = {w1, w2}
    TrialCap = 2
    BaseBlocks = {"BASE"}
    Payloads <- MCPayloads
    Shipped <- MCShipped
    Releases <- MCReleases
    MaxBreadthRows = 2
    None = None
SPECIFICATION CampaignSpec
SYMMETRY MCSymmetry
CONSTRAINT MCBounds
INVARIANTS
    CampaignInv
    PassedRowAgrees
    FailureHasGround
    SelectionIsDetermined
PROPERTIES
    LedgersAreAppendOnly
