CONSTANTS
    p1 = p1
    p2 = p2
    j1 = j1
    j2 = j2
    NoPod = NoPod
    NoJob = NoJob
    Pods <- TwoPods
    Jobs <- TwoJobs
    NameOf <- TwoNames
    AdHoc <- NoneAdHoc
    MaxConcurrency = 1
    LocalCap = 1
    MaxDrains = 0
    MaxKills = 1
    MaxFaults = 1
SPECIFICATION Spec
SYMMETRY PodSymmetry
INVARIANTS TypeOK AtMostOnce LossBound
PROPERTIES LedgerOnlyAdvances ImplementsQueue
