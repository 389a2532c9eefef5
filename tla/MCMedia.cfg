CONSTANTS
    p1 = p1
    r1 = r1
    Offline = Offline
    None = None
    Pubs = {p1}
    Readers = {r1}
    Params = {"a", "b"}
    OfflineParams = "a"
    OrigDesc <- MCOrigDesc
    Descs <- MCDescs
    WriteQueueSize = 2
    Units <- MCUnits
    MaxTime = 1
    MaxUnits = 2
    Protocols = {"webrtc", "multi", "simulcast", "rtmp", "srt", "hls", "moq"}
    ReaderProtocols = {"webrtc", "srt"}
    FourCCs <- MCFourCCs
    Offers <- MCOffers
    MaxVideoLayers = 2
    RingSize = 2
    PendingTimeout = 0
    DowngradeConfirmations = 2
    UpgradeConfirmations = 2
    LayerBounds <- MCLayerBounds
SPECIFICATION Spec
INVARIANTS
    TimeGoesOn
    UnitsAreUsable
    ReadersGoOn
    RelayComesBack
    ForwardedDecodes
PROPERTIES
    NothingHangs
CHECK_DEADLOCK FALSE
