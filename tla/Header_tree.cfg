CONSTANTS
    Drafts <- MCDrafts
    Lines <- MCLines
    MaxWritten = 2
    Macros = 10
SPECIFICATION Spec
INVARIANTS
    TreeAsWritten
    BodiesExpand
    SearchesAgree
CHECK_DEADLOCK FALSE
