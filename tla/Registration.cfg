SPECIFICATION FairSpec
CONSTANTS
    Null = Null
    Empty = Empty
    typed = typed
    lower = lower
    Requests = {r1, r2}
    Emails = {typed, lower}
    Normalized <- MCNormalized
    Ids = {i1, i2, i3}
    Threads = 1
    Connections = 2
    MaxFailures = 2
INVARIANTS
    TypeOK
    OneAccountPerAddress
    AccountsAreWhole
    AnswersAreTrue
    RegistrationInv
PROPERTIES
    ImplementsRegistrationSpec
    EveryRequestEnds
