CONSTANTS
    MaxUnusual = 2
    CommandLines <- MCCommandLines
    WordLists <- MCWordLists
SPECIFICATION Spec
INVARIANTS
    LongestProgram
    SameValues
PROPERTIES
    Settled
