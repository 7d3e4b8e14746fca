SPECIFICATION FairSpec
CONSTANTS
    Letters = {"a", "b"}
    Blank = "_"
    Threads = {t1, t2}
    Configured = {{}, {"openai"}, {"anthropic"}, {"openai", "anthropic"}}
    Capacity = 2
    MaxRetries = 2
    Contents <- MCContents
    Queries <- MCQueries
    Settings <- MCSettings
CHECK_DEADLOCK FALSE
INVARIANT TypeOK
INVARIANT CacheAgrees
INVARIANT VectorsFitKeys
INVARIANT StoredIsWhole
INVARIANT RowsHaveTheirVectors
PROPERTY OpsEnd
