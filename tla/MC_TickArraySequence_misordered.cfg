CONSTANTS
    TickSpacing = 2
    TICK_ARRAY_SIZE = 2
    MIN_TICK_INDEX <- MCMinTick
    MAX_TICK_INDEX <- MCMaxTick
    Windows <- AnyOrderWindows
    CallTicks <- MCCallTicks
    MaxCalls = 1
    NoTick = NoTick
SPECIFICATION Spec
INVARIANT GetTickReturnsRequestedTick
CHECK_DEADLOCK FALSE
