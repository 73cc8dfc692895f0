\* Spec scenario 2: a file of exactly two chunks from honest endpoints.
CONSTANTS
    e1 = e1
    e2 = e2
    NoTask = NoTask
    Endpoints <- MCEndpoints
    ChunkSize = 2
    StoreFailures = FALSE
    IOFailures = FALSE
    Behaviour <- MCBehaviourHonest
    FileSizes <- MCFileSizesExact
    MaxRetries = {1}
    AuthTokens = {TRUE}
SPECIFICATION FairSpec
INVARIANT SucceedsIfServed
