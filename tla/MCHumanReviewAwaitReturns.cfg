SPECIFICATION FairSpec
CONSTANTS
    Nobody = Nobody
    Items = {i1}
    Waiters = {w1}
    Humans = {h1}
PROPERTY AwaitReturns
