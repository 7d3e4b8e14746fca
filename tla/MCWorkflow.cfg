SPECIFICATION FairSpec
CONSTANTS
    w1 = w1
    w2 = w2
    NTasks = 2
    Nobody = Nobody
    Runs <- MCRuns
    Tasks <- MCTasks
    Budgets = {0}
    Contexts = {"shared"}
    Context <- SharedContext
    Outcomes = {"success", "failed"}
    PoolSize = 2
CHECK_DEADLOCK FALSE
INVARIANT TypeOK
INVARIANT TransactionsMatchNodes
INVARIANT TasksEndAsReported
PROPERTY UsesQueue
PROPERTY RunsEnd
INVARIANT DeadlockTakesManyRuns
