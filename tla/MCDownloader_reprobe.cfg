\* One endpoint fails every range request: after a chunk fails on it, the
\* next file's availability check probes it again.
CONSTANTS
    e1 = e1
    e2 = e2
    NoTask = NoTask
    Endpoints <- MCEndpoints
    ChunkSize = 2
    StoreFailures = FALSE
    IOFailures = FALSE
    Behaviour <- MCBehaviourOneFailing
    FileSizes <- MCFileSizesOffBoundary
    MaxRetries = {1}
    AuthTokens = {TRUE}
SPECIFICATION FairSpec
PROPERTY FailedEndpointsNotReprobed
