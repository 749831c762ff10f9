SPECIFICATION Spec
CONSTANTS
    Gateway <- MCGateway
    MaxVersion = 2
    Missing = {}
    Kind = {"clearAll"}
INVARIANTS
    ClearAllClears
