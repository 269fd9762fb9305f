SPECIFICATION Spec
CONSTANTS
    Pairs <- MCPairs
    Currencies <- MCCurrencies
    Base <- MCBase
    Quote <- MCQuote
    Biases = {"bullish"}
    PairCooldown = 1
    MaxEntriesPerBias = 2
    BiasWindow = 2
    CurrencyCap = 1
    GrossCap = 3
    NetCap = 1
    Holds = {2}
    TradeGateChoices = {TRUE, FALSE}
    MaxLag = 1
    MaxTime = 3
    MaxReleases = 4
    MaxBatch = 2
INVARIANTS
    TypeOK
    BiasWindowRespected
    GrossCapRespected
    BatchLegCapRespected
    NoPhantomExposure
PROPERTIES
    NetCapRespected
    ImplementsPolicy
CHECK_DEADLOCK FALSE
