SPECIFICATION Spec
CONSTANTS
    Sessions = {s1}
    Workers = {w1, w2}
    NoWorker = NoWorker
    NoSession = NoSession
    VersionIds = {v1, v2}
    NoVersion = NoVersion
    Contents = {a, b}
    NoContent = NoContent
    MaxAttempts = 3
    MaxMessages = 1
    MaxFaults = 1
    FaultKinds = {"stall"}
    AtomicConfirm = TRUE
    KeepExhausted = TRUE
CHECK_DEADLOCK FALSE
INVARIANTS
    ReadyJobNotFailed
