\* The cli server started on local files that do not match their hashes.
CONSTANTS
    r1 = r1
    r2 = r2
    NoReq = NoReq
    Reqs <- MCReqs
    IntactValues = {TRUE, FALSE}
    ServerToken = TRUE
    StoreFailures = FALSE
    RequestSpace <- MCRequestsWellFormed
SPECIFICATION Spec
INVARIANT VerifiedBeforeServing
