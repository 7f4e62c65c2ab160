SPECIFICATION Spec
CONSTANTS
    server = server script = script
    q1 = q1 q2 = q2 i1 = i1 c1 = c1 c2 = c2 c3 = c3 c4 = c4
    None = None
    Processes <- TwoProcesses
    Buckets <- TwoBuckets
    Tasks <- ThreeTasks
    ProcOf <- TaskProcs
    BucketOf <- TaskBuckets
    Calls <- FourCalls
    TaskOf <- CallTasks
    Budget <- Budgets
    MaxCost = 1
INVARIANT TypeOK
INVARIANT OvershootIsBounded
INVARIANT CostIsOwn
INVARIANT BudgetBindsAll
PROPERTY TotalsSurviveRestarts
