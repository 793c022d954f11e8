\* Every kind of location for two requests, every place of srcache.
SPECIFICATION Spec
CONSTANTS
    r1 = r1
    r2 = r2
    Requests <- MCRequests
    Handlers <- MCHandlers
    Orders <- MCOrders
    Waiting <- MCWaiting
INVARIANTS
    UndisturbedSeesAll
PROPERTIES
    MoveKeepsTheOthers
    SkipIsDecidedLast
    EveryRequestLeaves
