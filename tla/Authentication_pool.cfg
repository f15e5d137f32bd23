SPECIFICATION FairSpec
CONSTANTS
    Null = Null
    Empty = Empty
    Requests = {r1, r2}
    Users = {u1}
    Organizations = {o1, o2}
    Connections = {c1}
    Threads = 1
    MaxChanges = 1
PROPERTIES
    OnlyMembershipIsInferred
    EveryRequestEnds
