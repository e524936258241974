SPECIFICATION Spec
CONSTANTS
    LatestVersion = 3
    SchemaOf <- MCSchemaOf
    Declared <- MCDeclared
    AutoGranted = {"storage"}
    MaxBackups = 2
    MaxEdits = 2
    MaxSwitches = 2
    MaxPrompts = 1
    MaxQueued = 1
    MaxRestarts = 0
CHECK_DEADLOCK FALSE
INVARIANTS
    RowIsRunning
