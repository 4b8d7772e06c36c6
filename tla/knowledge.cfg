SPECIFICATION KnowledgeSpec
CONSTANTS
    Names <- Spellings
    Key <- KeyOf
    Contents = {"first", "second"}
    MaxDrafts = 1
    MaxRescans = 2
    ListLimit = 2
    WriteFaults <- CatalogFaults
    DataStores = {"database", "queue"}
    StoresIn <- DiagramStores
    Options <- AnyDomains
    Faults <- ServiceFaults
    OneFault = TRUE
    MaxDeletions = 1
INVARIANTS CleanScanIsFresh CatalogIsExtraction StoresAreComputed
PROPERTIES FieldsAdvance
CHECK_DEADLOCK FALSE
