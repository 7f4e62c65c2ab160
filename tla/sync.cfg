SPECIFICATION CreatedForT1
CONSTANTS
    t1 = t1 t2 = t2 q1 = q1 q2 = q2 s1 = s1 s2 = s2
    None = None
    Tenants <- TwoTenants
    QueueJobs <- OneJob
    Ticks <- OnePass
    Records <- TwoRecords
    Kinds <- AllKinds
    Disturbances <- Everything
    MaxDisturbances = 2
    MaxCopies = 4
PROPERTY Converges
PROPERTY QueuedIsAnswered
\* A deleted connector with nothing in flight has nothing left to do.
CHECK_DEADLOCK FALSE
INVARIANT TypeOK
INVARIANT HashMeansIngested
PROPERTY ImplementsCorpus
INVARIANT NothingToIngest
INVARIANT CopiesArePaidFor
