CONSTANTS
    p1 = p1
    p2 = p2
    c1 = c1
    c2 = c2
    uiScan = uiScan
    harborScan = harborScan
    garbledScan = garbledScan
    Nobody = Nobody
    None = None
    Pods <- TwoPods
    Clients <- TwoClients
    Proxies <- TwoProxies
    Seed = "direct"
    Authorities <- TwoRegistries
    Secrets <- AllSecrets
    NewSecrets <- Changed
    Edits <- SomeEdits
    PullSecret <- MountedSecret
    FirstConfig <- Earlier
    Scans <- ThreeScans
    RequestOf <- Requests
    MaxFaults = 1
    MaxCrashes = 1
SPECIFICATION Spec
SYMMETRY Symmetric
INVARIANTS TypeOK RestartFindsLastSave EnvFollowsConfig OwnCredentials
PROPERTIES MasksAreTransparent
CHECK_DEADLOCK FALSE
