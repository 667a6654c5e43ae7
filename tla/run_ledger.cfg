\* Runs, stops, edits, shutdowns, restarts and database errors over a ledger with
\* a repeated text.
\* The server may stay shut down for good, hence no deadlock check.
SPECIFICATION FailedRunSpec
CONSTANTS
    h1 = h1
    h2 = h2
    Hashes = {h1, h2}
    MaxSegs = 3
    Hash <- Repeated
    Concurrency = 2
    Scopes <- WholeOrPart
    Edited = {1, 2, 3}
    MaxRequests = 3
    MaxWithFailures = 3
    MaxRequestsLeft = 1
    MaxBoots = 2
    MaxFaults = 1
INVARIANTS FailedRunInductive HeldWhileProcessing OneCallPerHash NoCallForKnownText FinishedHasText TranslatingWhileRunning
PROPERTIES FinishedIsKept NoCallAfterStop
CHECK_DEADLOCK FALSE
