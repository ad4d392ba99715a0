\* Does server_exit always return?
CONSTANTS
    w1 = w1
    w2 = w2
    Main = Main
    NoOne = NoOne
    n1 = n1
    n2 = n2
    Null = Null
    Nodes <- MCNodes
    Workers <- MCWorkers
    MaxRequests = 2
    NumRequests = 1
SPECIFICATION FairSpec
PROPERTY ServerExitCompletes
CHECK_DEADLOCK FALSE
