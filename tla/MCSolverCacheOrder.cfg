SPECIFICATION CacheSpec
CONSTANTS
    u = u
    v = v
    w = w
    N = 2
    Values = {u, v}
    Domain <- MCDomain
    Problems <- MCPermuted
    Budgets = {1, 3, 4}
    NoBudget = NoBudget
    Timed = {TRUE, FALSE}
    Groups <- MCGroups
    MaxAsks = 2
    Carrying = {TRUE, FALSE}
    Unrelated = FALSE
INVARIANTS
    CachedAsFresh
