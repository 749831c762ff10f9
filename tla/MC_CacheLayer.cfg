SPECIFICATION FairSpec
CONSTANTS
    Gateway <- MCGateway
    MaxVersion = 3
    Missing = {2}
    Kind = {"clear", "clearAll"}
INVARIANTS
    CacheTypeOK
    OutdatedEntriesAwaitAClear
PROPERTIES
    EntriesAreNotReplaced
    EventuallyFresh
