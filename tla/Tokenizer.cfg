SPECIFICATION Spec
CONSTANTS
    Texts <- MCTexts
    StopLists <- MCStopLists
    RawLines <- MCRawLines
    MaxWordLength = 5
    Lower <- MCLower
    Stem <- MCStem
    StemBytes <- MCStem
CHECK_DEADLOCK FALSE
INVARIANTS
    CountsTheTokens
    UnreadBytesKept
