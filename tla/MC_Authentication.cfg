SPECIFICATION Spec
CONSTANTS
    Field <- MCField
    Saved <- MCSaved
    Submission = {s1, s2, s3, s4}
    Stamp = {1, 4}
    MaxTime = 5
    MaxStall = 1
    MaxWindow = 1
    MinTtl = 4
    MaxLimit = 2
    MinLimit = 1
    MaxRetries = 3
    MaxMishaps = 1
SYMMETRY Symmetry
CHECK_DEADLOCK FALSE
INVARIANTS
    TypeOK
    FieldsComeFromTheTable
    FreshNonceIsLimited
    ReusedNonceIsLimited
    RefusedOnlyBeyondLimit
