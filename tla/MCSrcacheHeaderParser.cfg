\* Every cut of the response into buffers, with a header buffer of 3 bytes.
SPECIFICATION FairSpec
CONSTANTS
    HeaderBufSize = 3
    Entries <- MCEntries
INVARIANTS
    CutsDoNotMatter
    SilenceMeansCutShort
    BodyFollowsTheHeader
PROPERTIES
    ParserEnds
