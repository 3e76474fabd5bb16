\* Two requests at a time, two deployments; c2 is for another chart's symbol.
CONSTANTS
    Contracts = {c1, c2}
    OnChart = {c1}
    MaxDeployments = 2
    Workers = {w1, w2}
    NoFile = NoFile
    Empty = Empty
    Garbled = Garbled
    NoConfig = NoConfig
SPECIFICATION FairSpec
INVARIANTS
    DeploymentInv
PROPERTIES
    DisarmedInTheEnd
    ConfigIsAcknowledged
