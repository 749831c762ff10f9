SPECIFICATION LimitSpec
CONSTANTS
    Request = {r1, r2, r3, r4}
    Route <- MCRoute
    RouteQps <- MCRouteQps
    RouteQpm <- MCRouteQpm
    QpsLimit = 2
    QpmLimit = 2
    Second = 3
    Minute = 3
    MaxTime = 7
    MaxStall = 1
    WindowIdle = 4
    BucketIdle = 5
SYMMETRY Symmetry
CHECK_DEADLOCK FALSE
INVARIANTS
    TypeOK
    QpsBurst
    QpsRefusalsAreEarned
    QpmSustained
PROPERTIES
    NeverForgets
