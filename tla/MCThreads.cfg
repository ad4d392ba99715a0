\* Safety of the scheduler, wait queues and locks under the most general client.
CONSTANTS
    L1 = L1
    C1 = C1
    W1 = W1
    Tid <- MCTid
    Locks <- MCLocks
    CVs <- MCCVs
    WaitQueues <- MCWaitQueues
SPECIFICATION Spec
INVARIANT TypeOK
INVARIANT ThreadQueueConsistency
INVARIANT ExitedAwaitingReap
INVARIANT MutualExclusion
INVARIANT NoStrandedLockWaiter
PROPERTY KilledOnlyExits
\* The process ends with exit(0) or a failed assert.
CHECK_DEADLOCK FALSE
