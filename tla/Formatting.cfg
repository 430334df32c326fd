SPECIFICATION Spec
CONSTANTS
    Blank = " "
    Lower <- MCLower
    Stem <- MCStem
    StopWords = {}
    MaxWordLength = 100
    Texts <- MCTexts
    MaxFields = 2
    TermSets <- MCTermSets
    CropLengths = {1, 2, 3, 4, 7}
    MaxLengths = {3, 10, 18, 60, 120}
    Marker <- MCMarker
    Pre = "<em>"
    Post = "</em>"
    Width <- MCWidth
INVARIANTS
    CropAroundMatch
    MatchesHighlighted
    SnippetWithinLength
