SPECIFICATION Spec
CONSTANTS
    a = a
    b = b
    api = api
    tApi = tApi
    tA = tA
    tB = tB
    tC = tC
    Api = api
    Sources = {a, b}
    Types = {tApi, tA, tB, tC}
    TypesOf <- DisjointTypes
    Verdict <- SomeBroken
    AssumedTypes = {tApi}
    ForcedKeys = {a}
    SpacesInPaths = FALSE
    Programs = {"generate", "regenerate", "clear", "clear type_db"}
    Edited = {a, b}
    UserActions = {"edit", "delete", "remove"}
    ConcurrentEdits = FALSE
    CrashPoints <- BeforeLastWrite
    MaxStamp = 2
    MaxCrashes = 1
    MaxBuild = 1
    Missing = Missing
INVARIANTS
    WholeInv
    RecordedIsRecoverable
    CacheFollowsRecord
    SourcesComplete
    TablesComplete
    RecordedIsSkipped
PROPERTIES
    ImplementsContract
CHECK_DEADLOCK FALSE
