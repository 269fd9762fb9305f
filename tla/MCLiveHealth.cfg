SPECIFICATION HealthSpec
CONSTANTS
    Setups <- MCSetups
    Window = 2
    Interval = 1
    Monitored <- MCMonitored
    FeedChecks = TRUE
    HealthWindow = 1
    MaxAge = 1
    Cooldown = 3
INVARIANTS
    WatchSound
PROPERTIES
    ScansOnlyOnSight
    LoopWatched
CHECK_DEADLOCK FALSE
