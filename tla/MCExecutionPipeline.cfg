SPECIFICATION Spec
CONSTANTS
    Candidates <- MCCandidates
    Allowed = {"BTCUSDT"}
    Evidence <- MCEvidence
    Words = {"missing", "{enabled}"}
    Modes <- MCModes
    Views <- MCViews
    Books <- MCBooks
    Lasts = {10}
    Risk = 3
    MaxRisk = 2
    MinOrder = 1
    MinNotional = 5
    MaxNotional = 20
    MaxCandidates = 2
    MaxOrders = 2
    MaxTickerAge = 1
    MaxSnapshotAge = 0
    MaxDiagnosticsAge = 1
    MaxSpread = 1
    MaxDeviation = 1
    MaxDrift = 1
    MaxRunning = 1
INVARIANTS
    ReportsSound
PROPERTIES
    GuardReadyIsFresh
    StopPropagates
CHECK_DEADLOCK FALSE
