\* One request at a time, with crashes; fair workers and a terminal whose timer
\* keeps firing.
CONSTANTS
    None = None
    f1 = f1
    f2 = f2
    f3 = f3
    c1 = c1
    c2 = c2
    PublicationIds = {p1, p2}
    Fingerprints = {f1, f3}
    Configs = {c1, c2}
    ConfigOf <- MCConfigOf
    Reasons = {RETIRED}
    Lifecycle = RETIRED
    Workers = {w1}
    OnTerminal <- MCOnTerminal
    LegacyConfigs = {}
SPECIFICATION FairSpec
PROPERTIES
    KeepsLedger
    InstalledBlockTakesEffect
    ManifestIsAcknowledged
    LockIsReleased
