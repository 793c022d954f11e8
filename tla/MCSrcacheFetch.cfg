\* One request, every kind of location and entry, one internal redirect.
SPECIFICATION FairSpec
CONSTANTS
    Requests = {r1}
    Data <- MCData
    Entries <- MCEntries
    Locations <- MCLocations
    MaxRedirects = 1
    RunsLast = FALSE
    NoCtx = NoCtx
    NoSr = NoSr
INVARIANTS
    TypeOK
    HitIsWholeEntry
    HitHasChain
    StatusTellsTheSource
    ParkedHasAWaker
    SubrequestHasItsParent
    OneFetchPerPass
    StatusTellsOfTheFetch
    WholeEntryIsAHit
PROPERTIES
    VerdictIsFinal
    EveryRequestEnds
