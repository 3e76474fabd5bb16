\* Two workers, two attempts: races of two requests, crashes and I/O errors.
CONSTANTS
    None = None
    f1 = f1
    f2 = f2
    f3 = f3
    c1 = c1
    c2 = c2
    PublicationIds = {p1, p2}
    Fingerprints = {f1, f2}
    Configs = {c1}
    ConfigOf <- MCConfigOf
    Reasons = {RETIRED}
    Lifecycle = RETIRED
    Workers = {w1, w2}
    OnTerminal <- MCOnTerminal
    LegacyConfigs = {l1}
SPECIFICATION Spec
CONSTRAINT MCRaces
SYMMETRY MCSymmetry
INVARIANTS
    OnePublicationPerRequest
    AcknowledgedByOwnRow
    IInv
