\* Honest endpoints, no local or store failure, sizes off the chunk
\* boundary: the download ends with Ok.
CONSTANTS
    e1 = e1
    e2 = e2
    NoTask = NoTask
    Endpoints <- MCEndpoints
    ChunkSize = 2
    StoreFailures = FALSE
    IOFailures = FALSE
    Behaviour <- MCBehaviourHonest
    FileSizes <- MCFileSizesOffBoundary
    MaxRetries = {1}
    AuthTokens = {TRUE}
SPECIFICATION FairSpec
INVARIANT SucceedsIfServed
