\* One endpoint advertises the manifest and never answers a range request:
\* with no request timeout, a chunk task assigned to it waits forever.
CONSTANTS
    e1 = e1
    e2 = e2
    NoTask = NoTask
    Endpoints <- MCEndpoints
    ChunkSize = 2
    StoreFailures = FALSE
    IOFailures = FALSE
    Behaviour <- MCBehaviourOneStalling
    FileSizes <- MCFileSizesOffBoundary
    MaxRetries = {1}
    AuthTokens = {TRUE}
SPECIFICATION FairSpec
PROPERTY Termination
