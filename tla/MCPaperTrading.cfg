SPECIFICATION Spec
CONSTANTS
    Symbols = {"BTCUSDT", "ETHUSDT"}
    Rs <- MCRs
    RiskModes = {"fixed", "equity_pct"}
    Cent = 4
    StartingBalance = 102
    RiskPerTrade = 9
    RiskPct = 20
    MaxOpenPositions = 2
    OnePositionChoices = {TRUE, FALSE}
    MaxTime = 2
    MaxCandidates = 3
INVARIANTS
    AccountSound
    OrderedLimits
    OrderedBalances
CHECK_DEADLOCK FALSE
