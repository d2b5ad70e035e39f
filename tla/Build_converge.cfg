SPECIFICATION FairSpec
CONSTANTS
    a = a
    b = b
    api = api
    tApi = tApi
    tA = tA
    tB = tB
    tC = tC
    Api = api
    Sources = {a, b}
    Types = {tApi, tA, tB, tC}
    TypesOf <- DisjointTypes
    Verdict <- SomeBroken
    AssumedTypes = {tApi}
    ForcedKeys = {a}
    SpacesInPaths = FALSE
    Programs = {"generate"}
    Edited = {a, b, api}
    UserActions = {"edit", "delete"}
    ConcurrentEdits = FALSE
    CrashPoints <- EveryPc
    MaxStamp = 2
    MaxCrashes = 1
    MaxBuild = 1
    Missing = Missing
PROPERTIES
    Converges
    BecomesIncremental
CHECK_DEADLOCK FALSE
