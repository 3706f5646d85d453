SPECIFICATION WarningSpec
CONSTANTS
    Principals = {p, q}
    MaxWarnings = 4
    MaxAdmissions = 2
INVARIANTS
    WarningsOfABlock
CHECK_DEADLOCK TRUE
