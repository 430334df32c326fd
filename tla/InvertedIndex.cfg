SPECIFICATION ParallelSpec
CONSTANTS
    Doc <- MCDoc
    Key <- MCKey
    Term <- MCTerm
    KeyOf <- MCKeyOf
    WordCount <- MCWordCount
    Stored <- MCStored
    HasIntField = TRUE
    Batches <- MCParallelBatches
    MaxDocs = 4
    MaxCrashes = 2
    MaxFaults = 0
    Disturbances = {"crash"}
    Cores = 2
    Hash <- MCHash
INVARIANTS IndexAgrees LengthsAgree KeyMapAgrees ThreadsApart
PROPERTIES StableIds UpsertKeepsKeysUnique LoadServesAcked ImplementsSequentialLoad
