\* Flaky endpoints whose requests may never be answered, store and disk
\* failures, max_retry 0 or 2, with and without an auth token: the output is
\* never corrupted, a completed file is exact and frozen, and the download
\* ends unless it waits on a request that is never answered.
CONSTANTS
    e1 = e1
    e2 = e2
    NoTask = NoTask
    Endpoints <- MCEndpoints
    Behaviour <- MCBehaviourFlaky
    FileSizes <- MCFileSizesMixed
    ChunkSize = 2
    MaxRetries = {0, 2}
    AuthTokens = {TRUE, FALSE}
    StoreFailures = TRUE
    IOFailures = TRUE
SPECIFICATION FairSpec
INVARIANT TypeOK
INVARIANT OutputMatchesSource
INVARIANT CompletedFilesIntact
PROPERTY TerminatesUnlessHung
PROPERTY CompletedFilesFrozen
