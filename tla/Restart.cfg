SPECIFICATION Spec
CONSTANTS
    Doc <- MCDoc
    Key <- MCKey
    Term <- MCTerm
    KeyOf <- MCKeyOf
    WordCount <- MCWordCount
    Stored <- MCStored
    HasIntField = TRUE
    Batches <- MCBatches
    MaxDocs = 3
    MaxCrashes = 2
    MaxFaults = 1
    Disturbances = {"crash", "crash_saving", "disk_fault", "recreate"}
INVARIANTS FilesAgree
 
