\* Two workers on one publication: a block is overwritten.
CONSTANTS
    None = None
    f1 = f1
    f2 = f2
    f3 = f3
    c1 = c1
    c2 = c2
    PublicationIds = {p1}
    Fingerprints = {f1}
    Configs = {c1}
    ConfigOf <- MCConfigOf
    Reasons = {OWNER, RETIRED}
    Lifecycle = RETIRED
    Workers = {w1, w2}
    OnTerminal <- MCOnTerminal
    LegacyConfigs = {}
SPECIFICATION Spec
PROPERTY BlockIsImmutable
