SPECIFICATION MCSpec
CONSTANTS
    Histories <- MCHistories
    Settings <- MCSettings
    Views <- MCViews
    Gaps <- MCGaps
    Ticks <- MCTicks
    SessionPoints <- MCSessionPoints
    AdaptiveWeights <- MCWeights
    Ratio = 2
    CacheTtl = 2
    SwingWindow = 1
    TriggerWindow = 1
    QualityWindow = 1
    SmtWindow = 1
    RequiredLtf = 5
    RequiredTrigger = 10
    StopLookback = 4
    MinBuffer = 400
    HistorySize = 3
    MinSamples = 1
    EqualTolerance = 0
    DisplacementLookback = 3
    ZoneLookback = 5
    AverageLookback = 3
    BlockLookback = 3
    SmtLookback = 8
    FirstEvent = 2
    LevelBucket = 3
    MaxCandles = 12
    MaxMoves = 3
    MaxScans = 2
    Calendars <- MCCalendars
    Announced <- MCAnnounced
    Currencies = {"EUR", "USD"}
    Actuals = {20, 32}
    NewsTtl = 1
    BlackoutBefore = 1
    BlackoutAfter = 1
    SurpriseThreshold = 50
INVARIANTS
    SignalsSound
PROPERTIES
    NoRepaint
CHECK_DEADLOCK FALSE
