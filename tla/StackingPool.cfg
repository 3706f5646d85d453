SPECIFICATION Spec
CONSTANTS
    Principals = {lp, a}
    Provider = lp
    Callers = {a}
    Amounts = {101, 201}
    Wealth = 1000
    Buffer = 1
    One = 1000
    Deposits = {200}
    MaxDeposits = 200
    MinReserve = 100
    Returns = {0, 2}
    MaxReturn = 3
    Rewards = {0, 100}
    Addresses = {x, y}
    FirstCycle = 10
    LastCycle = 11
    MaxPeriod = 2
    MaxStackers = 2
INVARIANTS
    FundsAccounted
    CountedIsLocked
PROPERTIES
    WeightsSettled
CHECK_DEADLOCK TRUE
