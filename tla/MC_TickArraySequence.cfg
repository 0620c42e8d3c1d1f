CONSTANTS
    TickSpacing = 2
    TICK_ARRAY_SIZE = 2
    MIN_TICK_INDEX <- MCMinTick
    MAX_TICK_INDEX <- MCMaxTick
    Windows <- MCWindows
    CallTicks <- MCCallTicks
    MaxCalls = 2
    NoTick = NoTick
SPECIFICATION Spec
INVARIANT TypeOK
CHECK_DEADLOCK FALSE
INVARIANT TouchedArraysListed
PROPERTY AbstractSpec
