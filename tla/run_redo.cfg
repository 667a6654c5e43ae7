\* A forced run that a crash interrupts.
\* The server may stay shut down for good, hence no deadlock check.
SPECIFICATION Spec
CONSTANTS
    h1 = h1
    h2 = h2
    Hashes = {h1, h2}
    MaxSegs = 3
    Hash <- Repeated
    Concurrency = 2
    Scopes <- WholeOrPart
    Edited = {1, 2, 3}
    MaxRequests = 1
    MaxWithFailures = 2
    MaxBoots = 2
    MaxFaults = 0
PROPERTIES DoneIsNotRedone
CHECK_DEADLOCK FALSE
