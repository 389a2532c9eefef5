SPECIFICATION FairSpec
CONSTANTS
    Describers = {d1}
    Readers = {r1}
    Publishers = {p1}
    s1 = s1
    s2 = s2
    Settings = {s1, s2}
    Off = Off
    None = None
    EgressEnabled = {"recorder", "mmx"}
    Confs <- OnDemandConfs
PROPERTY
    OnDemandGoesOn
CHECK_DEADLOCK FALSE
