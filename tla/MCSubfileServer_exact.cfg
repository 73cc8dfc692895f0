CONSTANTS
    r1 = r1
    r2 = r2
    NoReq = NoReq
    Reqs <- MCReqs
    FileSizes <- MCFileSizesExact
    ChunkSize = 2
    Damages <- MCNoDamage
    ServerToken = TRUE
    StoreFailures = FALSE
    RequestSpace <- MCRequestsAll
SPECIFICATION FairSpec
PROPERTY IntactServerStarts
