SPECIFICATION Spec
CONSTANTS
    Null = Null
    Empty = Empty
    Requests = {r1, r2}
    Users = {u1}
    Organizations = {o1}
    Connections = {c1, c2}
    Threads = 1
    MaxChanges = 3
SYMMETRY Symmetry
INVARIANTS
    TypeOK
    AccessIsCurrent
    TokensAreEarned
    AuthenticationInv
