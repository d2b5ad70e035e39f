SPECIFICATION Spec
CONSTANTS
    a = a
    b = b
    api = api
    tApi = tApi
    tA = tA
    tB = tB
    tC = tC
    Api = api
    Sources = {a, b}
    Types = {tApi, tA, tB, tC}
    TypesOf <- DisjointTypes
    Verdict <- AllOk
    AssumedTypes = {tApi}
    ForcedKeys = {a}
    SpacesInPaths = FALSE
    Programs = {"generate", "generate bindings", "clear"}
    Edited = {a, b, api}
    UserActions = {"edit", "delete", "restore"}
    ConcurrentEdits = FALSE
    CrashPoints = {}
    MaxStamp = 2
    MaxCrashes = 0
    MaxBuild = 2
    Missing = Missing
INVARIANTS
    MacrosComplete
    NoOrphans
    ClearedIsClean
CHECK_DEADLOCK FALSE
