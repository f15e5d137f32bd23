SPECIFICATION Spec
CONSTANTS
    Null = Null
    Empty = Empty
    e1 = e1
    e2 = e2
    o1 = o1
    o2 = o2
    Requests = {r1, r2}
    Endpoints = {e1, e2, e3}
    Organizations = {o1, o2}
    ExternalIds = {x1}
    EventIds = {i1, i2, i3}
    OrganizationOf <- MCOrganizationOf
    MaxFailures = 1
SYMMETRY TenantSymmetry
PROPERTIES
    ImplementsIngestionSpec
