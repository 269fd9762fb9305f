SPECIFICATION Spec
CONSTANTS
    Fingerprints = {f1, f2}
    TelegramChoices = {TRUE, FALSE}
    SendRetries = 2
    DedupCache = 1
    MaxCycles = 2
    MaxBatch = 2
INVARIANTS
    JournalTrue
    ConfirmedOnce
    MessagesBounded
PROPERTIES
    SignalsAnswered
CHECK_DEADLOCK FALSE
