SPECIFICATION Spec
CONSTANTS
    roleBoundary = roleBoundary
    ragChunking = ragChunking
    tokenBudget = tokenBudget
    packing = packing
    enterprise = enterprise
    template = template
    segments = segments
    tools = tools
    tokenizer = tokenizer
    manifest = manifest
    Runs = {r1, r2}
    Checks = {ragChunking}
    Kinds = {"prompt_segment", "tool_definition"}
    Table <- MCTable
    Artifacts = {segments, tools}
    KindOf <- MCKindOf
    Remote = {}
    Twice <- MCTwice
    Changes <- MCChanges
    Reads <- MCReads
    Rereads <- MCRereads
    Contents = {v1, v2}
    Missing = Missing
    Config = Config
    Elsewhere = Elsewhere
    Unhashed = Unhashed
    Flaky = {}
    Failed = Failed
    Torn = Torn
    MaxEdits = 1
    EditsBetweenReads = FALSE
INVARIANTS
    ReuseIsFresh
