SPECIFICATION Spec
CONSTANTS
    MaxSessions = 2
    Sessions <- MCSessions
    Calls = {c1}
    MaxFailures = 2
    MaxMessages = 2
    MaxEvents = 5
    MaxResets = 1
    MaxErrors = 2
INVARIANTS
    TypeOK
    StreamContiguous
    ShownIsHistory
    QuietMeansInstalled
    AwaitingIsConfirmable
PROPERTIES
    FollowsEnd
CHECK_DEADLOCK FALSE
