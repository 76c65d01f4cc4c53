CONSTANTS
    Runner = {r1, r2}
    Operator = {o1}
    Writer = {h1}
    Nobody = nobody
    MaxFaults = 1
    Call = {c1, c2, c3}
    None = none
    MaxModelCalls = 2
    MaxInputTokens = none
    MaxOutputTokens = 3
    MaxCost = 6
    Top = 7
    Priced = TRUE
    PriceScale = 2
    InputPrice = 2
    OutputPrice = 4
    CacheReadPrice = 1
    CacheWritePrice = 3
    EstimatedInput = 1
    MaxTokens = 1
    MaxCacheWrites = 1
    MaxExcess = 1
    Targets = 2
    Attempts = 2
    MaxPrefix = 1
    d1 = d1
    d2 = d2
    i1 = i1
    i2 = i2
    i3 = i3
    Invocation = {i1, i2, i3}
    Driver = {d1, d2}
    Home <- MCHome

SPECIFICATION RuntimeSpec
SYMMETRY Interchangeable
CHECK_DEADLOCK FALSE
INVARIANT RevisionIdentifies
INVARIANT NoLeaseLeftBehind
INVARIANT OneAtATime
PROPERTY ImplementsClaim
PROPERTY FallbackImplementsClaim
INVARIANT OverspendIsExcess
INVARIANT CallsCountedOnce
INVARIANT ChargeCoversBill
INVARIANT OneVoice
PROPERTY RetreatNeedsOverlap
INVARIANT OpenSpanIsFenced
INVARIANT NothingTwice
INVARIANT TerminalIsSettled
