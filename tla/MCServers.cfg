CONSTANTS
    c1 = c1
    c2 = c2
    w1 = w1
    t1 = t1
    Conns = {c1, c2}
    Sockets = {w1}
    MoQTracks = {t1}
    Protocols = {"rtmp", "srt", "rtsp", "moq", "webrtc", "degrade"}
    Other = Other
    None = None
    LatencyInitial = 1
    LatencyMin = 1
    LatencyMax = 2
    RaiseStep = 1
    LowerStep = 1
    MaxLayers = 2
SPECIFICATION Spec
INVARIANTS
    NothingLeftBehind
    ServingIsMember
    LatencyIsApplied
    LadderIsFollowed
CHECK_DEADLOCK FALSE
