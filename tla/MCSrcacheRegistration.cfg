\* Loads of every file in every order, failing anywhere.
SPECIFICATION Spec
CONSTANTS
    Files <- MCFiles
    Addresses <- MCAddresses
    InitCycle = "init"
    Workers <- MCWorkers
    MaxLoads = 4
CHECK_DEADLOCK FALSE
INVARIANTS
    LoadedWorkersServe
