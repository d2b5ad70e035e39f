CONSTANTS
    Members <- All
    MaxMembers = 3
    MaxClasses = 4
    Inputs <- AllInputs
    Usage = {}
SPECIFICATION Spec
CHECK_DEADLOCK FALSE
INVARIANTS
    EmittedIsAdded
    SourcesCompile
    RegisteredInOrder
    NamesAgree
