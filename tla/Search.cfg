SPECIFICATION HandlersSpec
CONSTANTS
    Blank = " "
    Width <- MCWidth
    Lower <- MCLower
    Stem <- MCStem
    StopWords <- MCStopWords
    MaxWordLength = 5
    Corpora <- MCCorpora
    Queries <- MCQueries
    ByteOrderMark = "bom"
    Modes <- MCModes
    Limits <- MCLimits
    MaxLimit = 4
    MaxOffset = 4
    LogIdf <- MCLogIdf
    Schemas <- MCSchemas
    Contents <- MCContents
    Bodies <- MCBodies
    KeyBits = 3
    DefaultLimit = 2
    ListLimits <- MCListLimits
    MaxChanges = 2
INVARIANTS
    PagesAreTheAnswer
    PhraseIsExact
    HeldWordIsFound
    FoundHoldsQuery
    ResultsHighlighted
    BatchIsWhole
    ListedOnce
