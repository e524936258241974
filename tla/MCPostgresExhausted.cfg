SPECIFICATION Spec
CONSTANTS
    Sessions = {s1}
    Workers = {w1}
    NoWorker = NoWorker
    MaxAttempts = 2
    VersionIds = {v1}
    NoVersion = NoVersion
    Lease = 2
    MaxLag = 1
PROPERTIES
    ExhaustedJobIsSettled
