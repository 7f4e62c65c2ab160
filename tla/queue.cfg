SPECIFICATION FairSpec
CONSTANTS
    j1 = j1 j2 = j2 j3 = j3 j4 = j4
    Jobs <- FourJobs
    MaxConcurrent = 2
INVARIANT TypeOK
INVARIANT PermitsAddUp
INVARIANT NothingOutlivesStop
PROPERTY ImplementsService
PROPERTY EveryJobIsServed
PROPERTY StopEnds
\* A stopped queue that got every job has nothing left to do.
CHECK_DEADLOCK FALSE
