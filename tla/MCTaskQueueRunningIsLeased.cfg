SPECIFICATION CountedSpec
CONSTANTS
    a1 = a1
    a2 = a2
    a3 = a3
    NTasks = 1
    Nobody = Nobody
    Agents <- TwoAgents
    Tasks <- MCTasks
    Budgets = {1}
INVARIANT RunningIsLeased
