SPECIFICATION RunnerSpec
CONSTANTS
    EURUSD = EURUSD
    GBPUSD = GBPUSD
    EUR = EUR
    GBP = GBP
    USD = USD
    Pairs <- MCPairs
    Currencies <- MCCurrencies
    Base <- MCBase
    Quote <- MCQuote
    PairOrder <- MCOrder
    Programs <- MCPrograms
    Bars <- MCBars
    Plans <- MCPlans
    Biases = {"BULLISH"}
    PairCooldown = 1
    MaxEntriesPerBias = 2
    BiasWindow = 3
    GrossCap = 2
    NetCap = 1
    Holds = {2}
    Warmup = 1
    MinBars = 3
    MaxHold = 2
    Step = 0
    Delays = {1}
    Costs = {1}
    AtrValues = {0, 3}
    SizeFactors = {4}
    MaxDrawdown = 2
    MaxLosses = 2
    StopTicks = 2
    TargetTicks = 4
    Processes = {p1, p2}
    Sessions <- MCCandidates
    BaseSettings <- MCBaseSettings
    ProfileSteps <- MCProfileSteps
    Worth <- MCWorth
    Oldest = 3
    Newest = 4
    Capacity = 3
INVARIANTS
    OwnDecisions
CHECK_DEADLOCK FALSE
