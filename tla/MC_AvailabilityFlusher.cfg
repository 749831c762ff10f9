SPECIFICATION FairSpec
CONSTANTS
    Node <- MCNode
    Url = {"u"}
    Request = {r1}
    Version = {"v"}
    Config <- MCConfig
    Generation = {1}
    NoGeneration = 0
    Cooldown = 1
    MaxMarks = 5
    Late = {1, 2}
INVARIANTS
    FlusherTypeOK
    PersistedWhenQuiet
PROPERTIES
    EventuallyPersisted
