\* Every file of up to three directives over four levels.
SPECIFICATION Spec
CONSTANTS
    Levels = 4
    Files <- MCFiles
    StatusLists <- MCStatusLists
    Statuses = {200, 201, 301, 404, 500, 503, 600}
INVARIANTS
    NearestBlockWins
    ListsReachInnerBlocks
