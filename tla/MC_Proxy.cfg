SPECIFICATION FairSpec
CONSTANTS
    Node <- MCNode
    Url = {"u"}
    Request = {r1, r2}
    Version <- MCVersion
    Config <- MCConfig
    Generation = {1, 2, 3}
    NoGeneration = 0
    Cooldown = 1
    NoNode = 0
    NoVersion = "none"
INVARIANTS
    TypeOK
    CountersNeverExceedHolders
    RetriesUseFreshNodes
    ServedByOwnVersion
PROPERTIES
    RebuildKeepsNodeState
    AnswersOnce
    EveryRequestEnds
