SPECIFICATION Spec
CONSTANTS
    t1 = t1 t2 = t2 q1 = q1 q2 = q2 s1 = s1 s2 = s2
    None = None
    Tenants <- OneTenant
    QueueJobs <- OneJob
    Ticks <- OnePass
    Records <- OneRecord
    Kinds <- SourceKind
    Disturbances <- OnlyPurge
    MaxDisturbances = 1
    MaxCopies = 1
INVARIANT PurgeHidesNothing
