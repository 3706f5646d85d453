SPECIFICATION FairSpec
CONSTANTS
    Pages = {p}
    Closed = Closed
    Timely = TRUE
    Fees = {"same", "higher"}
    MaxPuts = 2
    MaxCloses = 1
    MaxFaults = 1
INVARIANTS
    SecretKeptUntilEscrowed
PROPERTIES
    StepNeverBack
    MadeWhole
CHECK_DEADLOCK FALSE
