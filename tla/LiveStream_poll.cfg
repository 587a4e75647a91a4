CONSTANTS
    p1 = p1
    p2 = p2
    s1 = s1
    t1 = t1
    t2 = t2
    Exec = Exec
    Stray = Stray
    Pods <- TwoPods
    Runner = p1
    Pinned = FALSE
    Streams <- OneStream
    Tools <- TwoTools
    Outliving <- FirstTool
    MaxLog = 2
    SubCap = 2
    MaxReports = 1
    MaxStrays = 1
    MaxConnects = 1
    MaxDrains = 0
    MaxFaults = 1
SPECIFICATION Spec
INVARIANTS TypeOK PollInOrder DoneComesLast
PROPERTIES DoneAfterLines
CHECK_DEADLOCK FALSE
