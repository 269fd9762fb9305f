SPECIFICATION ReplaySpec
CONSTANTS
    BTC = BTC
    ETH = ETH
    LTC = LTC
    USDT = USDT
    Pairs <- MCPairs
    Currencies <- MCCurrencies
    Base <- MCBase
    Quote <- MCQuote
    PairOrder <- MCOrder
    Correlated <- MCCorrelated
    Frames <- MCFrames
    Needed <- MCNeeded
    Gaps <- MCGaps
    Requests <- MCRequests
    LiveJournals <- MCLive
    PairCooldown = 1
    MaxEntriesPerBias = 0
    BiasWindow = 0
    CurrencyCap = 2
    GrossCap = 2
    NetCap = 0
    Holds = {2}
    TradeGateChoices = {TRUE, FALSE}
    Scores = {1, 2}
    PlanSides = {"BUY"}
    HistoryEnd = 5
    HistoryLimit = 2
    MaxRuns = 2
INVARIANTS
    FilesSound
    CorrelatedOnce
    SignalOnce
    LiveStepsCovered
CHECK_DEADLOCK FALSE
