SPECIFICATION Spec
CONSTANTS
    MaxMembers = 300
    MaxBatch = 299
    Initially = 1
INVARIANTS
    ThresholdBand
    JoinBallotDecided
    RemovalBallotOneShort
CHECK_DEADLOCK TRUE
