CONSTANTS
    OnDemand = TRUE
    MaxReloads = 2
SPECIFICATION SourceFairSpec
PROPERTIES
    KeepsContract
    StopEnds
