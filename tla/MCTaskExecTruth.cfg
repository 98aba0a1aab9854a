CONSTANTS
    fetch = fetch
    unpack = unpack
    patch = patch
    configure = configure
    clean = clean
    typo = typo
    Task <- BaseTasks
    Parents <- BaseParents
    Flagged <- BaseTasks
    NoStamp <- BaseNoStamp
    Cleaner = clean
    Targets = {unpack, patch, configure, clean, typo}
    Sessions <- ForcedSessions
    MaxCommands = 4
SPECIFICATION FairSpec
CHECK_DEADLOCK FALSE
INVARIANT StampsTellTruth
