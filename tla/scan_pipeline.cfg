SPECIFICATION Spec
CONSTANTS
    r1 = r1
    r2 = r2
    Repos = {r1}
    CloudRepo = cloud
    MaxCommits = 2
    MaxScans = 2
    Options <- ThreeKinds
    Discoveries <- NoneOrOne
INVARIANTS CompletedScanIsClean BaselineIsStored
PROPERTIES CompletedScanStoredAll ScanSettles
CHECK_DEADLOCK FALSE
