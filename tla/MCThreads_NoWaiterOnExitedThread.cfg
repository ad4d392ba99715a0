CONSTANTS
    L1 = L1
    C1 = C1
    W1 = W1
    Tid <- MCTid
    Locks <- MCLocks
    CVs <- MCCVs
    WaitQueues <- MCWaitQueues
SPECIFICATION Spec
INVARIANT NoWaiterOnExitedThread
CHECK_DEADLOCK FALSE
