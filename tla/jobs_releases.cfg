\* Every actor against every other, across a crash or shutdown and a change of release.
SPECIFICATION Spec
CONSTANTS
    p1 = p1
    p2 = p2
    translate = translate
    retranslate = retranslate
    Projects = {p1, p2}
    NoProject = NoProject
    JobTypes = {translate, retranslate}
    Versions <- TwoVersions
    MaxAttempts = 2
    Lease = 3
    Beat = 1
    Late = 1
    BackoffBase = 1
    BackoffCap = 2
    ScanLimit = 1
    MaxJobs = 2
    MaxBoots = 2
    MaxFaults = 1
INVARIANTS Inductive OneActiveJob RunIsLeased PromptService AttemptsWithinLimit CancelledStaysStopped NoStrandedRun
PROPERTIES OutcomeIsFinal ImplementsProjectWork
SYMMETRY Permuted
