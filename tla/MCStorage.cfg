CONSTANTS
    None = None
    f1 = f1
    f2 = f2
    Setups <- MCSetups
    SegmentDuration = 2
    PartDuration = 1
    DriftTolerance = 1
    MaxBasetime = 1
    KeyInterval = 1
    Skews <- MCSkews
    MaxTime <- MCMaxTime
    MaxUnits <- MCMaxUnits
    MaxDisturbed <- MCMaxDisturbed
    MaxInstances = 2
    DeleteAfter = 4
    ProtectedAge = 1
    Capacity = 3
    MinFreeSpace = 1
    RoundFiles = {f1, f2}
    MaxAttempts = 2
    ClaimLimit = 2
    MaxArchiveFaults = 2
    ForwardedMedias <- MCForwarded
    Starts = {1, 2}
    Durations = {1, 3}
SPECIFICATION Spec
INVARIANTS
    OpenIsKept
    SegmentsAreReported
    OutsideIsClean
    PlaybackIsFaithful
PROPERTIES
    StorageSettles
CHECK_DEADLOCK FALSE
