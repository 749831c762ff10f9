SPECIFICATION Spec
CONSTANTS
    Node <- MCNode
    Url = {"u"}
    Request = {r1, r2}
    Version <- OneVersion
    Config <- MCConfig
    Generation = {1, 2, 3}
    NoGeneration = 0
    Cooldown = 1
    NoNode = 0
    NoVersion = "none"
SYMMETRY Symmetry
INVARIANTS
    FailuresAreReported
