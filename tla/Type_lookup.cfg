SPECIFICATION Spec
CONSTANTS
    Godot <- MCGodot
    CoreClasses <- MCCoreClasses
    CoreOthers <- MCCoreOthers
    Projects <- MCProjects
    Usings <- MCUsings
    Assumed <- MCAssumed
    RootClass <- MCRootClass
    Queries <- MCQueries
    MaxCached = 2
INVARIANTS
    CacheExact
    FindsWhatCppFinds
    EngineTypesFound
    BasesRecognized
PROPERTIES
    BaseWalkEnds
