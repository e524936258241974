SPECIFICATION MemorySpec
CONSTANTS
    Sessions = {s1, s2}
    Workers = {w1, w2}
    NoWorker = NoWorker
    MaxAttempts = 2
    VersionIds = {v1, v2}
    NoVersion = NoVersion
    Lease = 2
    MaxLag = 1
INVARIANTS
    TypeOK
    LeaseBelongsToRunningJob
PROPERTIES
    ImplementsContract
    OldestFirst
    ExhaustedJobIsSettled
