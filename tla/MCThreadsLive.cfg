\* Starvation freedom of the FIFO ready queue under timer preemption.
CONSTANTS
    L1 = L1
    C1 = C1
    W1 = W1
    Tid <- MCTid
    Locks <- MCLocks
    CVs <- MCNoCVs
    WaitQueues <- MCWaitQueues
SPECIFICATION FairSpec
PROPERTY StarvationFree
\* The process ends with exit(0) or a failed assert.
CHECK_DEADLOCK FALSE
