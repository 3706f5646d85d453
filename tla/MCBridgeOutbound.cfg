SPECIFICATION Spec
CONSTANTS
    Controllers = {"c", "e"}
    Swappers = {"u"}
    Keys = {"k", "l"}
    Txids = {}
    Payments = {"p"}
    InFees <- OneOff
    OutFees <- OutboundFees
    Sats = {1, 3}
    Csvs = {7}
    MinExpiration = 5
    EscrowExpiration = 4
    MaxHtlcExpiration = 8
    OutboundExpiration = 2
    Supply = 3
    MaxOutbound = 2
    MaxPrevBlocks = 1
    MaxBurn = 3
    MaxMissed = 1
    RedeemWithin = 1
INVARIANTS
    ContractSolvent
    KeysInverse
    OutboundPaidOnce
    VolumesCountFinalized
PROPERTIES
    BridgeImplementsLedger
CHECK_DEADLOCK FALSE
