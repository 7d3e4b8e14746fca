SPECIFICATION Spec
CONSTANTS
    Nobody = Nobody
    Items = {i1}
    Waiters = {w1}
    Humans = {h1, h2}
PROPERTY ResolvedIsImmutable
