CONSTANTS
    image = image
    Scans <- OneScan
    MatchesOf <- Matches
    LayersOf <- Layers
    PackagesOf <- Packages
    VexLookupEnabled = TRUE
    MaxFaults = 2
    MaxPanics = 1
SPECIFICATION ReportFairSpec
INVARIANTS TypeOK  DirsLiveWithScan SuppressedByOwnVex AnswersTellOutcome SummariesAgree
PROPERTIES AnswersStay ImplementsContract GoroutinesEnd
CHECK_DEADLOCK FALSE
