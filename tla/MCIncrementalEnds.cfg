SPECIFICATION FairSpec
CONSTANTS
    roleBoundary = roleBoundary
    ragChunking = ragChunking
    tokenBudget = tokenBudget
    packing = packing
    enterprise = enterprise
    template = template
    segments = segments
    tools = tools
    tokenizer = tokenizer
    manifest = manifest
    Runs = {r1, r2}
    Checks = {packing, tokenBudget}
    Kinds = {"training_manifest", "tokenizer"}
    Table <- MCTable
    Artifacts = {manifest, tokenizer}
    KindOf <- MCKindOf
    Remote = {tokenizer}
    Twice <- MCTwice
    Changes <- MCChanges
    Reads <- MCReads
    Rereads <- MCRereads
    Contents = {v1}
    Missing = Missing
    Config = Config
    Elsewhere = Elsewhere
    Unhashed = Unhashed
    Flaky = {packing}
    Failed = Failed
    Torn = Torn
    MaxEdits = 0
    EditsBetweenReads = FALSE
INVARIANTS
    ChangedAreRerun
PROPERTIES
    RunsEnd
