CONSTANTS
    Parts <- MCParts
    Commas <- MCCommas
    Numbers <- MCNumbers
    Functions <- MCFunctions
    Fields <- MCFields
    Types <- MCTypes
    Lacks <- MCLacks
SPECIFICATION Spec
INVARIANTS
    ArgumentsAsWritten
    ReadAsWritten
CHECK_DEADLOCK FALSE
