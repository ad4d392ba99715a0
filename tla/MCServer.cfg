\* Safety of the request queue, and dispatch while the server keeps running.
CONSTANTS
    w1 = w1
    w2 = w2
    Main = Main
    NoOne = NoOne
    n1 = n1
    n2 = n2
    Null = Null
    Nodes <- MCNodes
    Workers <- MCWorkers
    MaxRequests = 2
    NumRequests = 3
SPECIFICATION FairSpec
INVARIANTS RequestConservation NoStrandedWaiter SizeMatchesList NoLeak
PROPERTIES AllRequestsDispatched
\* The server stops (server_exit returns and main exits), or the workers
\* block on an empty queue for good while the listener waits in accept.
CHECK_DEADLOCK FALSE
