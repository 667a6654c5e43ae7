\* A stop of a run that lost a worker.
\* The server may stay shut down for good, hence no deadlock check.
SPECIFICATION FairSpec
CONSTANTS
    h1 = h1
    h2 = h2
    Hashes = {h1, h2}
    MaxSegs = 3
    Hash <- Repeated
    Concurrency = 2
    Scopes <- WholeOrPart
    Edited = {1, 2, 3}
    MaxRequests = 2
    MaxWithFailures = 3
    MaxBoots = 1
    MaxFaults = 1
PROPERTIES StopEndsRun
CHECK_DEADLOCK FALSE
