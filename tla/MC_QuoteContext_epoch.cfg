CONSTANTS
    U64_MAX = 20
    Amounts = {1, 3, 6}
    NoConfig = NoConfig
    NoResult = NoResult
    NotRead = NotRead
    InitConfigs <- MCInitConfigs
    NewFees <- MCNewFees
    MaxEpoch = 3
    MaxFeeSets = 2

SPECIFICATION Spec
CHECK_DEADLOCK FALSE

INVARIANT SameEpochQuoteDelivers
