SPECIFICATION FrontSpec
CONSTANTS
    Request = {r1, r2, r3, r4, r5, r6, r7}
    CpuCount = 1
    MaxPerCpu = 5
    FloorPerCpu = 2
    Dep <- MCDep
    Untimed <- MCDep
    Deps <- MCDeps
    FailThreshold <- MCThreshold
    OKThreshold <- MCThreshold
    MaxRetry = 1
    Bound = 2
INVARIANTS
    TypeOK
    PermitsMatchRequests
    ServingWithinLargestLimit
    LimitSettles
    FrontTypeOK
PROPERTIES
    AdmitsOnlyBelowLimit
    IdleRecoversLimit
    ImplementsHysteresis
    DoorCloses
    DoorOpens
