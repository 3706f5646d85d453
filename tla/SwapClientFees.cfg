SPECIFICATION Spec
CONSTANTS
    Pages = {p}
    Closed = Closed
    Timely = FALSE
    Fees = {"same", "lower"}
    MaxPuts = 2
    MaxCloses = 0
    MaxFaults = 0
INVARIANTS
    RecoverableWhenWrong
CHECK_DEADLOCK FALSE
