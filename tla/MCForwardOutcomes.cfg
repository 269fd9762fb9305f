SPECIFICATION Spec
CONSTANTS
    ModeChoices = {"MARKET", "MITIGATION_LIMIT"}
    RiskChoices = {TRUE, FALSE}
    HoldBars = 1
    EntryExpiryBars = 2
    Policies = {"ambiguous", "stop_first"}
    WriteAllChoices = {TRUE, FALSE}
    HistoryLimit = 4
    TargetR = 2
    Closes = {0}
    MidCandleChoices = {TRUE, FALSE}
    MaxBars = 3
INVARIANTS
    LabelsTrue
    TerminalLabelsStand
PROPERTIES
    LabelsSettle
CHECK_DEADLOCK FALSE
