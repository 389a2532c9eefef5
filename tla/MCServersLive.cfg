CONSTANTS
    c1 = c1
    w1 = w1
    t1 = t1
    Conns = {c1}
    Sockets = {w1}
    MoQTracks = {t1}
    Protocols = {"rtmp", "srt", "rtsp", "moq", "webrtc", "degrade"}
    Other = Other
    None = None
    LatencyInitial = 1
    LatencyMin = 1
    LatencyMax = 2
    RaiseStep = 1
    LowerStep = 1
    MaxLayers = 2
SPECIFICATION FairSpec
PROPERTIES
    CancelledEnds
    RequestsAnswered
    ServerCloses
CHECK_DEADLOCK FALSE
