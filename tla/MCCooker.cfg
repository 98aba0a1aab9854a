CONSTANTS
    app = app
    lib = lib
    tool = tool
    lib2 = lib2
    virt = virt
    missing = missing
    None = None
    Recipe = {app, lib, lib2, tool}
    Item = {app, lib, tool, virt, missing}
    PN = {app, lib, lib2, tool}
    Cmd <- BaseCmds
    Runs <- AllRuns
    IsTask <- BaseTasks
    BBDepCmd <- BaseDepCmd
    Stamps <- BaseStamps
    Cleans = {"clean"}
    StagingCmd = "populate_staging"
SPECIFICATION FairSpec
CHECK_DEADLOCK FALSE
INVARIANTS
    TypeOK
    BuiltHaveDeps
    BuildingListIsChain
    NotBuiltTwice
    TriedAreBest
    ExitTruthful
    CleanStaysLocal
PROPERTIES
    ImplementsBuildOrder
    CookEnds
