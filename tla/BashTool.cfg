SPECIFICATION FairSpec
CONSTANTS
    MaxLines = 2
    MaxBytes = 4
    MaxChunks = 4
    Chunks <- MCChunks
    Exits = {"zero", "nonzero", "signal"}
INVARIANTS
    NewsIsScheduled
    LastUpdateIsResult
PROPERTIES
    UpdatesFollowStream
    StopReturns
