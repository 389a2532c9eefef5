CONSTANTS
    n1 = n1
    m1 = m1
    m2 = m2
    s1 = s1
    s2 = s2
    Names = {n1}
    Muxers = {m1, m2}
    Sessions = {s1, s2}
    Modes <- MCModes
    None = None
SPECIFICATION FairSpec
CHECK_DEADLOCK FALSE
INVARIANT
    ReadersAreKnown
PROPERTIES
    ReadyPathIsRemuxed
    HLSReturns
