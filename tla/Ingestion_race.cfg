SPECIFICATION Spec
CONSTANTS
    Null = Null
    Empty = Empty
    e1 = e1
    e2 = e2
    o1 = o1
    o2 = o2
    Requests = {r1, r2, r3}
    Endpoints = {e1}
    Organizations = {o1}
    ExternalIds = {x1}
    EventIds = {i1, i2}
    OrganizationOf <- MCOrganizationOf
    MaxFailures = 2
SYMMETRY RequestSymmetry
INVARIANTS
    TypeOK
    EventKeysUnique
    OutboxMatchesEvents
    AnswersAreStable
    EventsKeepTheirEndpoint
    NoInternalError
    OnlyAdmissibleEventsWritten
    IngestionInv
PROPERTIES
    ImplementsIngestionSpec
