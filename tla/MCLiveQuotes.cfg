SPECIFICATION LinkSpec
CONSTANTS
    Timeframes <- MCTimeframes
    BarsKept = 2
    MaxQuoteAge = 1
    MaxSkew = 0
    RestartDelay = 2
    MaxTime = 5
    MaxQuotes = 4
    LinkChoices = {"steady", "flaky"}
    MaxFlakyQuotes = 2
    ReconnectDelay = 1
    MaxReconnectDelay = 2
    BackoffFactor = 2
    Jitter = 0
    Heartbeat = 1
INVARIANTS
    QuotesSound
    LoggedSurvives
PROPERTIES
    ServedBarsFinal
CHECK_DEADLOCK FALSE
