SPECIFICATION Spec
CONSTANTS
    scan = scan
    tracker = tracker
    Clients = {scan, tracker}
    Requests <- MCRequests
    DataSources = {"redundant", "mt5"}
    Backups <- MCBackups
    RequireFresh = TRUE
    RequireOverlay = TRUE
    MaxCandleAge = 2
    MaxOverlayAge = 2
    CacheTtl = 1
    RequestLimit = 2
    Delays = {0}
    First = 5
    Last = 7
    MaxSlow = 0
INVARIANTS
    CacheSound
    LagBounded
    PagesBounded
