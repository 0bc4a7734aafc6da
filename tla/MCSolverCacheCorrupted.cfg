SPECIFICATION CacheSpec
CONSTANTS
    u = u
    v = v
    w = w
    N = 2
    Values = {u, v, w}
    Domain <- MCDomain
    Problems <- MCRefuted
    Budgets = {4}
    NoBudget = NoBudget
    Timed = {FALSE}
    Groups <- MCRefutedGroups
    MaxAsks = 3
    Carrying = {TRUE}
    Unrelated = TRUE
INVARIANTS
    AnswerSound
