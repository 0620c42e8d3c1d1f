CONSTANTS
    U64_MAX = 12
    Configs <- MCConfigs
    Epochs <- MCEpochs
    Amounts <- MCAmounts
    NoConfig = NoConfig
    NoResult = NoResult
SPECIFICATION Spec
INVARIANT TypeOK
INVARIANT IncludedAmountDeliversExactly
