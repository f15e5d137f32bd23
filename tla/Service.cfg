SPECIFICATION FairSpec
CONSTANTS
    Null = Null
    Empty = Empty
    o1 = o1
    Requests = {r1, r2}
    Endpoints = {e1}
    Organizations = {o1}
    ExternalIds = {x1}
    EventIds = {i1, i2}
    OrganizationOf <- MCOrganizationOf
    MaxFailures = 1
PROPERTIES
    ImplementsIngestion
    ImplementsWebhookEndpoints
    EveryRequestEnds
