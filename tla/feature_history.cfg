SPECIFICATION Spec
CONSTANTS
    Names <- Spellings
    Key <- KeyOf
    Contents = {"first", "second"}
    MaxDrafts = 1
    MaxRescans = 2
    ListLimit = 3
    WriteFaults <- NoFaults
PROPERTY HistoryEnds
CHECK_DEADLOCK FALSE
