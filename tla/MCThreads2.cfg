CONSTANTS
    n1 = n1
    n2 = n2
    n3 = n3
    Null = Null
    Tid <- MCTid
    Nodes <- MCNodes
SPECIFICATION Spec
INVARIANTS ThreadQueueConsistency StackSafety
PROPERTIES SchedulerSpec
CHECK_DEADLOCK FALSE
