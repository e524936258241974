SPECIFICATION Spec
CONSTANTS
    Sessions = {s1}
    Workers = {w1, w2}
    NoWorker = NoWorker
    NoSession = NoSession
    VersionIds = {v1, v2}
    NoVersion = NoVersion
    Contents = {a, b}
    NoContent = NoContent
    MaxAttempts = 3
    MaxMessages = 2
    MaxFaults = 3
    FaultKinds = {"crash", "stall", "call", "markFailed", "disconnect"}
    AtomicConfirm = FALSE
    KeepExhausted = FALSE
CHECK_DEADLOCK FALSE
SYMMETRY Symmetry
INVARIANTS
    IInv
    OneVersionPerSession
    ReadyHasVersion
    CompletedMeansReady
    PublishedMeansValidated
    OwnerRunsLastAttempt
PROPERTIES
    TerminalIsFinal
