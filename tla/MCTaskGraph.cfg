CONSTANTS
    Task = {fetch, unpack, compile}
    None = None
SPECIFICATION Spec
INVARIANTS
    TypeOK
    ParentsKnown
    RefsExact
SYMMETRY TaskSymmetry
PROPERTY RefinesTaskDependencies
