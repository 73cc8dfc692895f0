\* Spec scenario 4: one endpoint answers every range request with an error,
\* the other is honest.
CONSTANTS
    e1 = e1
    e2 = e2
    NoTask = NoTask
    Endpoints <- MCEndpoints
    ChunkSize = 2
    StoreFailures = FALSE
    IOFailures = FALSE
    Behaviour <- MCBehaviourOneFailing
    FileSizes <- MCFileSizesOffBoundary
    MaxRetries = {2}
    AuthTokens = {TRUE}
SPECIFICATION FairSpec
INVARIANT SucceedsIfServed
