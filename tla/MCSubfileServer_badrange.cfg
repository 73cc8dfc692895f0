\* The server against its contract when a client sends a Content-Range
\* that does not parse.
CONSTANTS
    r1 = r1
    r2 = r2
    NoReq = NoReq
    Reqs <- MCReqs
    FileSizes <- MCFileSizesOffBoundary
    ChunkSize = 2
    Damages <- MCNoDamage
    ServerToken = FALSE
    StoreFailures = FALSE
    RequestSpace <- MCRequestsAll
SPECIFICATION Spec
PROPERTY ContractSpec
