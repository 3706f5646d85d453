SPECIFICATION ElectionFairSpec
CONSTANTS
    d = d
    a = a
    b = b
    c = c
    Principals = {d, a, b, c}
    Founders = {d, a, b, c}
    Deployer = d
    Targets = {a}
    Electable = {d, a, b, c}
    BlocksToPass = 1
    MaxList = 4
    MaxMembers = 4
    Calls = {}
    ElectionBlocks = 2
    Voters = {d, a}
INVARIANTS
    TypeOK
    RemovalVotesBacked
PROPERTIES
    ThresholdWalk
    NotifierVacatedByVote
    ElectionImplementsSeat
    ElectedHasMostVotes
    ElectionEnds
CHECK_DEADLOCK TRUE
