SPECIFICATION ToolsSpec
CONSTANTS
    Names <- MCNames
    Kinds <- MCKinds
    Tables <- MCTables
    Requests <- MCRequests
    Threads <- MCThreads
    Keys <- MCKeys
    Asks <- MCAsks
    MaxNested = 2
    MaxCalls = 2
    NoThread = NoThread
    NoKey = NoKey
    Histories <- MCHistories
    Chars = {"a", "b", "c", "d"}
    Repros <- MCRepros
    Limits = {0, 2}
    NoLimit = NoLimit
    Packs = {"a", "b", "c"}
    Versions = {1, 2}
    Digests = {1, 2}
    Registries <- MCRegistries
    Later <- MCLater
    Symbols = {"o", "k"}
    Schemas <- MCSchemas
    Tokenizers <- MCTokenizers
    MaxDepth = 2
    MaxCandidates = 2
    Prompts <- MCPrompts
    Policies <- MCPolicies
    Budget = 4
    Alphabet = {"a", "b"}
    Automata <- MCAutomata
    Sink = 0
    Letters = {"a", "b"}
    Operands <- MCOperands
    Depths = {0, 3}
    NoDepth = NoDepth
    Plain = {"x"}
    Streams <- MCStreams
    Literals <- MCLiterals
    MaxNesting = 2
INVARIANTS
    LeastCut
    PlanCertified
    BuildOnce
    OneProduct
    RealTransition
    FirstOfMonotone
    StillFails
    OneMinimal
    PinsClosure
    RefusedForCause
    VerifiedIsClosure
    EmptinessSound
    ProvenKept
    CounterexampleMinimal
    QuotientSound
    Coarsest
    ShortestCommonWord
    NoneMeansDisjoint
    OccurrencesFlagged
PROPERTIES
    AlgorithmsEnd
