SPECIFICATION MCSpec
CONSTANTS
    Names <- MCNames
    Resources <- MCResources
    Requests <- MCRequests
    Registries <- MCRegistries
    MaxWorkers = 3
    Keys <- MCKeys
    Uses <- MCUses
    MaxRequest = 4
    MaxCalls = 2
    NoKey = NoKey
INVARIANTS
    TypeOK
    ResourceExclusion
    DependencyOrder
    CompleteReport
    Deterministic
    CacheReleased
PROPERTIES
    SessionEnds
