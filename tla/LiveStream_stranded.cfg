CONSTANTS
    p1 = p1
    p2 = p2
    s1 = s1
    t1 = t1
    t2 = t2
    Exec = Exec
    Stray = Stray
    Pods <- TwoPods
    Runner = p1
    Pinned = TRUE
    Streams <- OneStream
    Tools <- OneTool
    Outliving <- NoTool
    MaxLog = 2
    SubCap = 2
    MaxReports = 1
    MaxStrays = 0
    MaxConnects = 1
    MaxDrains = 0
    MaxFaults = 0
SPECIFICATION Spec
INVARIANTS NoSubscriberStranded
CHECK_DEADLOCK FALSE
