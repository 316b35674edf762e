\* A remote that may also send any frame it can build, in any order.
CONSTANTS
    Modes <- MCModes
    SrvKey = SrvKey
    ForeignKey = ForeignKey
    WeakKey = WeakKey
    NoKey = NoKey
    SigOk = SigOk
    Signatures = {SigOk, SigBad}
    MaxEph = 2
    MaxShort = 1
    MaxNonce = 4
    MaxIn = 1
    MaxOut = 2
    Rogue = TRUE
    InitKeyKnown = FALSE
    SendFails = FALSE
SPECIFICATION Spec
INVARIANT NonceNeverReused
CHECK_DEADLOCK FALSE
