SPECIFICATION FairSpec
CONSTANTS
    n1 = n1
    n2 = n2
    j1 = j1
    j2 = j2
    m1 = m1
    m2 = m2
    Wildcard = Wildcard
    None = None
    Names = {n1, n2}
    Majors = {j1, j2}
    Minors = {m1, m2}
    Configurations <- Files
    Cameras = {n2}
    PrimaryName <- Primaries
    MaxPaths = 3
    MaxReloads = 2
INVARIANTS
    OnePathPerName
    ManagerIsCurrent
PROPERTIES
    ManagerReturns
CHECK_DEADLOCK FALSE
