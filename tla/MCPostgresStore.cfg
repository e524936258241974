SPECIFICATION StoreSpec
CONSTANTS
    Sessions = {s1, s2}
    Workers = {w1, w2}
    NoWorker = NoWorker
    MaxAttempts = 2
    VersionIds = {v1}
    NoVersion = NoVersion
    Lease = 2
    MaxLag = 1
    Connections = {w1, w2}
    NoConnection = NoConnection
    MaxMessages = 2
    Keys = {s1, s2}
    NoKey = NoKey
    Requests = {w1, w2}
    KeyLifetime = 2
    FetchTime = 1
    Iterations = {s1, s2, i3}
    First = First
    Capabilities = {c}
    Granted = {c}
    FirstCapabilities = {}
    Runtime = "native"
    ArtifactKeys = {k1, k2}
    FirstKey = k1
    NoArtifactKey = NoArtifactKey
    MaxPatch = 2
    JobAttempts = 2
    ModelAttempts = 2
    MaxDisruptions = 2
INVARIANTS
    PgTypeOK
    ClaimsAreDisjoint
    EventsTellStatus
    ConfirmedHasJob
    ReadsAreCovered
    ObjectsBehindRows
    VersionsGapFree
    CapabilitiesNeverWiden
    OvertakenTwice
    RetiredKeysExpire
    PublishedKeysAreKnown
PROPERTIES
    ImplementsContract
    ImplementsSession
SYMMETRY Symmetry
