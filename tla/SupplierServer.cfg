SPECIFICATION FairSpec
CONSTANTS
    Swaps = {s, f}
    Ours = {s}
    Htlcs = {h}
    NoEvent = NoEvent
    Cutoff = 1
    Expiration = 3
    SendWithin = 1
    SettleWithin = 1
    Attempts = 2
    MaxFaults = 2
    MaxCrashes = 2
    Scenarios = {{s}, {h, f}}
INVARIANTS
    PaidOnce
    PaidNeverRevoked
    SeenEventsQueued
PROPERTIES
    ListedUntilCompleted
    RedeemedInTheEnd
    PaymentsSettle
CHECK_DEADLOCK FALSE
