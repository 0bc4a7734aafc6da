SPECIFICATION CacheSpec
CONSTANTS
    u = u
    v = v
    w = w
    N = 2
    Values = {u, v}
    Domain <- MCDomain
    Problems <- MCPairs
    Budgets = {1, 3, 4}
    NoBudget = NoBudget
    Timed = {TRUE, FALSE}
    Groups = {}
    MaxAsks = 1
    Carrying = {FALSE}
    Unrelated = FALSE
INVARIANTS
    NoEscape
