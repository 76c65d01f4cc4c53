CONSTANTS
    Call = {c1, c2, c3}
    None = none
    MaxModelCalls = 3
    MaxInputTokens = none
    MaxOutputTokens = 3
    MaxCost = 8
    Top = 50
    Priced = TRUE
    PriceScale = 2
    InputPrice = 2
    OutputPrice = 3
    CacheReadPrice = 1
    CacheWritePrice = 3
    EstimatedInput = 2
    MaxTokens = 1
    MaxCacheWrites = 2
    MaxExcess = 0

SPECIFICATION Spec
SYMMETRY CallSymmetry
CHECK_DEADLOCK FALSE
INVARIANT WithinLimits
