SPECIFICATION CacheFairSpec
CONSTANTS
    u = u
    v = v
    w = w
    N = 2
    Values = {u, v}
    Domain <- MCDomain
    Problems <- MCProblems
    Budgets = {1, 4}
    NoBudget = NoBudget
    Timed = {TRUE, FALSE}
    Groups <- MCGroups
    MaxAsks = 3
    Carrying = {TRUE, FALSE}
    Unrelated = FALSE
INVARIANTS
    SatSound
    UnsatSound
    AbstainsForCause
    CoreIrreducible
    AnswerSound
    AbstentionsApart
PROPERTIES
    QueriesEnd
