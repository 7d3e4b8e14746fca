SPECIFICATION Spec
CONSTANTS
    a1 = a1
    a2 = a2
    NTasks = 1
    Nobody = Nobody
    Tasks <- MCTasks
    Agents <- MCAgents
    Gates = {g1}
    Humans = {h1}
    Budgets = {1}
CHECK_DEADLOCK FALSE
CONSTRAINT OneAgentAtATime
SYMMETRY Symmetry
INVARIANT TypeOK
INVARIANT ParkedWasPosted
PROPERTY ParkedIsLeftAlone
INVARIANT RejectsAfterVerdict
PROPERTY ImplementsAssignment
