\* Each of the three commands, with up to two jobs of the worker, two requests,
\* the scheduled job and one read pool beside the write pool.
CONSTANTS
    Jobs = {j1, j2}
    Requests = {r1, r2}
    Cleanup = Cleanup
    Replicas = 1
SPECIFICATION AppFairSpec
INVARIANT AppTypeOK
INVARIANT SendIsSafe
INVARIANT FirstErrorReturned
INVARIANT NothingCut
INVARIANT RequestsServed
PROPERTY SendersGetThrough
PROPERTY ExitsAfterSignal
PROPERTY SchedulerKeepsOn
\* A process that has exited does nothing.
CHECK_DEADLOCK FALSE
