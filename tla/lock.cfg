SPECIFICATION FairSpec
CONSTANTS
    r1 = r1 r2 = r2 r3 = r3
    None = None
    Replicas <- ThreeReplicas
    Interval = 3
    MaxLate = 1
    MaxStops = 1
INVARIANT TypeOK
INVARIANT LeaseIsHonoured
INVARIANT PassesOverlapOnlyPastLease
PROPERTY LeaseIsMutex
PROPERTY PassesGoOn
