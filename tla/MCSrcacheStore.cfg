\* Every kind of location with every kind of response.
SPECIFICATION FairSpec
CONSTANTS
    Confs <- MCConfs
    Responses <- MCResponses
    ErrorPage <- MCErrorPage
    HeaderSize <- MCHeaderSize
    MaxClock = 3
INVARIANTS
    StoredIsWhole
    StoredLengthIsRight
    NothingForbiddenIsStored
    EntryDiesInTime
    ClientGetsTheResponse
    StatusTellsOfTheStore
PROPERTIES
    RequestEnds
