CONSTANTS
    Parts <- FlagsParts
    Commas <- OneComma
    Numbers <- MCNumbers
    Functions <- MCFunctions
    Fields <- MCFields
    Types <- MCTypes
    Lacks <- Complete
SPECIFICATION Spec
INVARIANTS
    FlagsAreShown
CHECK_DEADLOCK FALSE
