SPECIFICATION Spec
CONSTANTS
    w1 = w1
    w2 = w2
    NTasks = 1
    Nobody = Nobody
    Runs <- MCRuns
    Tasks <- MCTasks
    Budgets = {0}
    Contexts = {w1, w2}
    Context <- OwnContext
    Outcomes = {"review"}
    PoolSize = 2
CHECK_DEADLOCK FALSE
INVARIANT ReviewedBeforeCompleted
