SPECIFICATION StreamSpec
CONSTANTS
    Segments = {s1}
    HistorySize = 2
    QueueSize = 2
    MaxEvents = 6
    MaxCuts = 1
    MaxRestarts = 1
INVARIANTS
    ReconnectCatchesUp
CHECK_DEADLOCK FALSE
