CONSTANTS
    r1 = r1
    r2 = r2
    NoReq = NoReq
    Reqs <- MCReqs
    FileSizes <- MCFileSizesOffBoundary
    ChunkSize = 2
    Damages <- MCDamagesAny
    ServerToken = TRUE
    StoreFailures = TRUE
    RequestSpace <- MCRequestsWellFormed
SPECIFICATION FairSpec
INVARIANT TypeOK
INVARIANT ContentOnlyWhenAuthorized
INVARIANT VerifiedBeforeServing
PROPERTY IntactServerStarts
PROPERTY ContractSpec
