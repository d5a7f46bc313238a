SPECIFICATION FairCacheSpec
CONSTANTS
    Resource <- MCResource
    Data <- MCData
    Limit <- MCLimit
INVARIANTS
    CacheTypeOK
    ViewMirrors
    LoopPrefix
    BoundedWhenIdle
PROPERTIES
    ImplementsList
    ReplaceTerminates
