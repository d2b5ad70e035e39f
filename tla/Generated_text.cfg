SPECIFICATION Spec
CONSTANTS
    PropertyTypes <- MCPropertyTypes
    ReturnTypes <- MCReturnTypes
    ParameterTypes <- MCParameterTypes
    MacroTables <- MCMacroTables
    MaxMembers = 2
    Texts <- MCTexts
    Affixes <- MCAffixes
INVARIANTS StringsAgree TypesReadBack PrintedAsBuilt
CHECK_DEADLOCK FALSE
