\* Cached header lines on a response that is not served from the cache.
SPECIFICATION Spec
CONSTANTS
    Requests = {r1}
    Data <- MCData
    Entries <- SomeEntries
    Locations <- SomeLocations
    MaxRedirects = 0
    RunsLast = TRUE
    NoCtx = NoCtx
    NoSr = NoSr
INVARIANT NoCachedHeaderOnMiss
