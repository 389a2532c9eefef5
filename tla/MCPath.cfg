SPECIFICATION Spec
CONSTANTS
    Describers = {d1}
    Readers = {r1, r2}
    Publishers = {p1, p2}
    s1 = s1
    s2 = s2
    Settings = {s1, s2}
    Off = Off
    None = None
    EgressEnabled = {"recorder", "mmx"}
    Confs <- AllConfs
SYMMETRY Symmetry
INVARIANTS
    OnDemandIsConsistent
    ClientsAreKnown
    EgressFollowsConf
    NobodyIsStranded
PROPERTY
    IdleCloseIsSafe
CHECK_DEADLOCK FALSE
