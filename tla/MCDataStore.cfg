CONSTANTS
    None = None
    files = files
    filesArm = filesArm
    filesLocal = filesLocal
    filesPN = filesPN
    arm = arm
    local = local
    Name <- AllNames
    Override = {arm, local}
    Base <- BaseOf
    Cond <- CondOf
    Expanded <- ExpandedTo
    Usages <- AllUsages
    MaxPieces = 3
    MaxStore = 3
SPECIFICATION Spec
INVARIANTS
    TypeOK
    AppendedOnce
    MatchesEnv
PROPERTIES
    CopyOnWriteUnlessConditional
    UpdateTakesOneVersion
