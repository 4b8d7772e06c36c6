SPECIFICATION Spec
CONSTANTS
    Items <- AllItems
    FirstEstate <- SmallEstate
    Volatile <- Changing
    MaxChanges = 2
    MaxDiscoveries = 2
    Clouds <- BothClouds
    SilentKinds <- Listeners
INVARIANT MissedIsReported
CHECK_DEADLOCK FALSE
