SPECIFICATION Spec
CONSTANTS
    Null = Null
    Empty = Empty
    Requests = {r1, r2}
    Endpoints = {e1}
    Organizations = {o1}
    Columns = {c1, c2}
    Values = {v1, v2}
PROPERTIES
    UnavailableIsNotFound
