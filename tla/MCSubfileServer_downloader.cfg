CONSTANTS
    r1 = r1
    r2 = r2
    NoReq = NoReq
    Reqs <- MCReqs
    FileSizes <- MCFileSizesOffBoundary
    ChunkSize = 2
    Damages <- MCNoDamage
    ServerToken = FALSE
    StoreFailures = FALSE
    RequestSpace <- MCRequestsDownloader
SPECIFICATION FairSpec
INVARIANT DownloaderRequestsServed
