SPECIFICATION Spec
CONSTANTS
    t1 = t1 t2 = t2 q1 = q1 q2 = q2 s1 = s1 s2 = s2
    None = None
    Tenants <- OneTenant
    QueueJobs <- TwoJobs
    Ticks <- NoJob
    Records <- OneRecord
    Kinds <- SourceKind
    Disturbances <- NoneOfThem
    MaxDisturbances = 0
    MaxCopies = 2
INVARIANT NoDoubleIngestion
