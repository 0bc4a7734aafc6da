SPECIFICATION BudgetSpec
CONSTANTS
    Prompts <- MCPrompts
    Policies <- MCPolicies
    Budget = 4
INVARIANTS
    SmallestCounterexample
