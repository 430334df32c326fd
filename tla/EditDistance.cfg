SPECIFICATION Spec
CONSTANTS
    Words <- MCWords
    Letter <- MCLatin
    MaxLetters = 3
    MaxEdits = 3
INVARIANTS
    TypeOK
    AnswersRecurrence
    FewestEdits
    FilterKeepsSimilar
