\* A restart before the lease of the crashed server has run out.
SPECIFICATION FairSpec
CONSTANTS
    p1 = p1
    p2 = p2
    translate = translate
    retranslate = retranslate
    Projects = {p1, p2}
    NoProject = NoProject
    JobTypes = {translate}
    Versions <- OneVersion
    MaxAttempts = 2
    Lease = 2
    Beat = 1
    Late = 0
    BackoffBase = 1
    BackoffCap = 1
    ScanLimit = 1
    MaxJobs = 2
    MaxBoots = 2
    MaxFaults = 0
PROPERTIES JobsSurviveRestart
