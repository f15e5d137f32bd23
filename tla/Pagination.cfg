SPECIFICATION Spec
CONSTANTS
    Endpoints <- MCEndpoints
    Limit = 2
    MaxTime = 2
INVARIANTS
    PaginationInv
    RepeatedOnlyByCreations
PROPERTIES
    MissedOnlyByDeletions
    NoEmptyNextPage
