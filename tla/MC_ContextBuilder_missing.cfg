CONSTANTS
    m1 = m1
    m2 = m2
    m3 = m3
    Mints = {m1, m2, m3}
    PoolMintA = m1
    PoolMintB = m2
    RewardMints = {m1, m2, m3}
    NoHook = NoHook
    Null = Null
    DefaultMint = DefaultMint
    NoCtx = NoCtx
    TypeError = TypeError
    RpcError = RpcError
    HookValues <- MCHookValues
SPECIFICATION Spec
INVARIANT BuiltContextComplete
