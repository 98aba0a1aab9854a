SPECIFICATION Spec
CONSTANTS
    p1 = p1
    p2 = p2
    a = a
    b = b
    x = x
    y = y
    nothing = nothing
    another = another
    none = none
    torn = torn
    Process = {p1, p2}
    Source = {a, b}
    Base = {x, y}
    MaxVersion = 3
    MaxFaults = 3
    MaxTime = 3
    Sessions <- AllSessions
    None = none
    Torn = torn
    Nothing = nothing
    Another = another
INVARIANTS
    TypeOK
    NeverStale
    ParsedOnlyIfChanged
    LoadFailsForAReason
    MarkedIsVerified
    OkMeansRight
PROPERTY
    DownloadsComplete
