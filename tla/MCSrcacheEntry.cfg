\* Every representation of a header against every way to hide it.
SPECIFICATION EntrySpec
CONSTANTS
    Responses <- MCResponses
    Confs <- MCConfs
    TextSize = 13
INVARIANTS
    OnlyTheStatusFails
    HiddenStaysOut
    HitLooksLikeTheOriginal
    LengthIsTheBody
