SPECIFICATION JoinSpec
CONSTANTS
    d = d
    a = a
    b = b
    c = c
    Principals = {d, a, b}
    Founders = {d}
    Deployer = d
    Targets = {}
    Electable = {}
    BlocksToPass = 1
    MaxList = 3
    MaxMembers = 3
    Calls <- DirectCalls
INVARIANTS
    MapsAgreeWithLists
    JoinBallotsOpen
    JoinVotesBacked
PROPERTIES
    AcceptedNeverRejected
    CounterFollowsList
    PendingEventuallyMiner
CHECK_DEADLOCK TRUE
