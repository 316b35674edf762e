\* An honest remote answering in order; sends may fail.
CONSTANTS
    Modes <- MCModes
    SrvKey = SrvKey
    ForeignKey = ForeignKey
    WeakKey = WeakKey
    NoKey = NoKey
    SigOk = SigOk
    Signatures = {SigOk, SigBad}
    MaxEph = 2
    MaxShort = 2
    MaxNonce = 6
    MaxIn = 2
    MaxOut = 2
    Rogue = FALSE
    InitKeyKnown = FALSE
    SendFails = TRUE
SPECIFICATION Spec
CHECK_DEADLOCK FALSE
INVARIANT FailedHasErrorKind
