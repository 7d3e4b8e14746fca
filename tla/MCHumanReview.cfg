SPECIFICATION FairSpec
CONSTANTS
    Nobody = Nobody
    Items = {i1}
    Waiters = {w1, w2, w3}
    Humans = {h1, h2}
INVARIANT TypeOK
INVARIANT FuturesAreAwaited
INVARIANT VerdictsAreCommitted
PROPERTY AnsweredUnlessShared
