\* A worker that is replaced after a load has failed.
SPECIFICATION Spec
CONSTANTS
    Files <- MCFiles
    Addresses <- MCAddresses
    InitCycle = "init"
    Workers <- MCWorkers
    MaxLoads = 2
CHECK_DEADLOCK FALSE
INVARIANTS
    EveryWorkerServes
