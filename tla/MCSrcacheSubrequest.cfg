\* Headers added to the request and its subrequests at any moment.
SPECIFICATION SubrequestSpec
CONSTANTS
    Parents <- MCParents
    Methods <- MCMethods
    Pushes <- MCPushes
    NAlloc = 2
    SpareParts <- MCSpareParts
    MaxPushes = 3
INVARIANTS
    HeadersStayTheirOwn
    StoreSeesItsHeaders
