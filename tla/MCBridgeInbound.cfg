SPECIFICATION Spec
CONSTANTS
    Controllers = {"c"}
    Swappers = {"u"}
    Keys = {"k"}
    Txids = {"t", "v"}
    Payments = {}
    InFees <- Discount
    OutFees <- OneOff
    Sats = {2}
    Csvs = {7}
    MinExpiration = 5
    EscrowExpiration = 4
    MaxHtlcExpiration = 8
    OutboundExpiration = 2
    Supply = 2
    MaxOutbound = 0
    MaxPrevBlocks = 1
    MaxBurn = 9
    MaxMissed = 1
    RedeemWithin = 1
INVARIANTS
    TypeOK
    EscrowMatchesSwaps
    SwapperNeverBoth
PROPERTIES
    BridgeImplementsLedger
CHECK_DEADLOCK FALSE
