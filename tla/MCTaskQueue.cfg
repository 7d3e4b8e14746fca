SPECIFICATION CountedSpec
CONSTANTS
    a1 = a1
    a2 = a2
    a3 = a3
    NTasks = 1
    Nobody = Nobody
    Agents <- ThreeAgents
    Tasks <- MCTasks
    Budgets <- MCBudgets
SYMMETRY Symmetry
INVARIANT TypeOK
 
INVARIANT AgentMatchesState
PROPERTY GrantsOnlyReclaimable
PROPERTY ImplementsAssignment
PROPERTY FinishedUnlessLoadedBefore
PROPERTY LeaseLostOnlyToStaleRetry
