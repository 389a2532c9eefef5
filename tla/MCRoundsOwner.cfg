CONSTANTS
    Owners = {o1, o2}
    TablePaths = {v1, v2}
    DefaultView = v1
    ApiPaths = {}
    Ingest = {}
    Uses = {{v1, v2}}
    Slots = {r1, r2}
    Patient = FALSE
    None = None
    Api = Api
SPECIFICATION Spec
CHECK_DEADLOCK FALSE
INVARIANT
    OneOwner
