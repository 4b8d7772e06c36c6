SPECIFICATION KnowledgeSpec
CONSTANTS
    Names <- TwoSpellings
    Key <- KeyOf
    Contents = {"first", "second"}
    MaxDrafts = 1
    MaxRescans = 2
    ListLimit = 2
    WriteFaults <- NoFaults
    DataStores = {"database", "queue"}
    StoresIn <- DiagramStores
    Options <- FullOnly
    Faults <- RereadFault
    OneFault = TRUE
    MaxDeletions = 0
PROPERTY FieldsNeverGoBack
CHECK_DEADLOCK FALSE
