CONSTANTS
    p1 = p1
    p2 = p2
    j1 = j1
    j2 = j2
    NoPod = NoPod
    NoJob = NoJob
    Pods <- TwoPods
    Jobs <- TwoJobs
    NameOf <- TwoNames
    AdHoc <- SecondAdHoc
    MaxConcurrency = 1
    LocalCap = 1
    MaxDrains = 1
    MaxKills = 1
    MaxFaults = 0
SPECIFICATION Spec
SYMMETRY PodSymmetry
INVARIANTS OneOwner PinnedStaysHome HonestLedger
PROPERTIES DrainKeepsResults
