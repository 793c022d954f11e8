\* Every interleaving, for a cache that takes a time of zero as over.
SPECIFICATION Spec
CONSTANTS
    r1 = r1
    r2 = r2
    Requests <- MCRequests
    MaxVersion = 2
    MaxAges <- MCMaxAges
    DefaultExpire = 1
    Slack = 1
    ZeroIsForever = FALSE
INVARIANTS
    EntryIsInTime
PROPERTIES
    IsTransparent
    OldVersionsDisappear
