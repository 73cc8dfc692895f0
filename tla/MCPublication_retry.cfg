\* Two configured files, three publisher runs, and every failure the
\* store and the file system can produce.
CONSTANTS
    NumFiles = 2
    MaxRuns = 3
    ReadFailures = TRUE
    StoreFailures = TRUE
    LostReplies = TRUE
SPECIFICATION Spec
INVARIANT TypeOK
INVARIANT NoPartialManifest
INVARIANT PublishedReadable
