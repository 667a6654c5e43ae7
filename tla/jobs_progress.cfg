\* Queued rows are taken up and stop requests end runs, across a restart and
\* with one database error.  The handler is only trusted to heed its stop event.
\* Beside them, the calls of two workers that share a cooldown.
SPECIFICATION ProgressSpec
CONSTANTS
    p1 = p1
    p2 = p2
    translate = translate
    retranslate = retranslate
    Projects = {p1, p2}
    NoProject = NoProject
    JobTypes = {translate}
    Versions <- OneVersion
    MaxAttempts = 2
    Lease = 2
    Beat = 1
    Late = 0
    BackoffBase = 1
    BackoffCap = 1
    ScanLimit = 1
    MaxJobs = 2
    MaxBoots = 2
    MaxFaults = 1
    Callers = {c1, c2}
    MaxTries = 3
    BaseDelay = 1
    MaxDelay = 2
    JitterPercent = 50
    CallTimeout = 2
INVARIANTS DraftIsOfOneAttempt
PROPERTIES QueuedIsServed StopEndsRun CallsRespectDelays EveryCallEnds
