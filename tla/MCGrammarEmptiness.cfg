SPECIFICATION EmptinessSpec
CONSTANTS
    Symbols = {"o", "k"}
    Schemas <- MCSchemas
    Tokenizers <- MCTokenizers
    MaxDepth = 2
    MaxCandidates = 2
INVARIANTS
    EmptyProved
