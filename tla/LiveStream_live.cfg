CONSTANTS
    p1 = p1
    p2 = p2
    s1 = s1
    t1 = t1
    t2 = t2
    Exec = Exec
    Stray = Stray
    Pods <- TwoPods
    Runner = p1
    Pinned = FALSE
    Streams <- OneStream
    Tools <- OneTool
    Outliving <- FirstTool
    MaxLog = 2
    SubCap = 1
    MaxReports = 1
    MaxStrays = 0
    MaxConnects = 2
    MaxDrains = 1
    MaxFaults = 1
SPECIFICATION Spec
PROPERTIES WatcherToldEnd DrainFreesStreams ScanNotHeldUp
CHECK_DEADLOCK FALSE
