CONSTANTS
    Owners = {o1, o2}
    TablePaths = {v1, v2}
    DefaultView = v1
    ApiPaths = {a1}
    Ingest = {v1}
    Uses = {{v1, v2}, {v1, a1}}
    Slots = {r1, r2}
    Patient = TRUE
    None = None
    Api = Api
SPECIFICATION Spec
SYMMETRY Symmetry
CHECK_DEADLOCK FALSE
INVARIANTS
    HeldIsActive
    NothingIsKept
    RecordersAreOwned
