SPECIFICATION Spec
CONSTANTS
    Principals = {p, q}
    Founders = {p}
    Amounts = {2}
    Rewards = {1, 4}
    Maturity = 1
    MaxHeight = 3
    MaxEntries = 2
    MaxDeposit = 2
INVARIANTS
    BalancesAccounted
PROPERTIES
    FlushConserves
CHECK_DEADLOCK TRUE
