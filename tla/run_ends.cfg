\* Every run comes to its end.  The five segments do not all fit into the queue
\* of two workers; one database error kills a worker or loses a memory entry.  The
\* server may stay shut down for good, hence no deadlock check.
SPECIFICATION FairSpec
CONSTANTS
    h1 = h1
    h2 = h2
    Hashes = {h1, h2}
    MaxSegs = 5
    Hash <- Repeated
    Concurrency = 2
    Scopes <- Whole
    Edited = {1, 2}
    MaxRequests = 2
    MaxWithFailures = 2
    MaxBoots = 1
    MaxFaults = 1
PROPERTIES RunEnds
CHECK_DEADLOCK FALSE
