SPECIFICATION CardsSpec
CONSTANTS
    LatestVersion = 3
    SchemaOf <- MCSchemaOf
    Declared <- MCDeclared
    AutoGranted = {"storage"}
    MaxBackups = 2
    MaxEdits = 2
    MaxSwitches = 3
    MaxPrompts = 2
    MaxQueued = 1
    MaxRestarts = 1
    Documents <- MCDocuments
    Expressions <- MCExpressions
    MaxExpressionDepth = 3
    AllowedCapabilities = {"clipboard.read"}
    CallResults <- MCCallResults
    MaxNumber = 1
INVARIANTS
    TypeOK
    GrantsAreApproved
    BrokerHasRows
    RunsAsValidated
    FailuresAreExplained
PROPERTIES
    NoHalfSwitch
    LeftStateIsBackedUp
