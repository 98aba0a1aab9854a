CONSTANTS
    fetch = fetch
    unpack = unpack
    patch = patch
    configure = configure
    clean = clean
    typo = typo
    Task <- BaseTasks
    Parents <- BaseParents
    Flagged <- BaseTasks
    NoStamp <- BaseNoStamp
    Cleaner = clean
    Targets = {unpack, patch, configure, clean, typo}
    Sessions <- AllSessions
    MaxCommands = 4
SPECIFICATION FairSpec
CHECK_DEADLOCK FALSE
INVARIANTS
    TypeOK
    CurrentIsDone
    CurrentIsInOrder
    DepsDoneFirst
    NoDoubleRun
    SuccessIsCurrent
PROPERTY CommandEnds
