SPECIFICATION Spec
CONSTANTS
    r1 = r1
    r2 = r2
    Repos = {r1}
    CloudRepo = cloud
    MaxCommits = 2
    MaxScans = 2
    Options <- TwoKinds
    Discoveries <- NoneOrOne
PROPERTIES IncrementalSeesChanges
CHECK_DEADLOCK FALSE
