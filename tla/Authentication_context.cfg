SPECIFICATION Spec
CONSTANTS
    Null = Null
    Empty = Empty
    Requests = {r1}
    Users = {u1}
    Organizations = {o1}
    Connections = {c1}
    Threads = 1
    MaxChanges = 1
INVARIANTS
    PrincipalSetsTheTenant
