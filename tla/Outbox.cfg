SPECIFICATION FairSpec
CONSTANTS
    None = None
    Event <- MCEvent
    Incomplete <- MCIncomplete
    Unknown <- MCUnknown
    Worker = {v, w}
    BatchSize = 2
    MaxAttempts = 2
    MaxReplays = 1
    MaxCrashes = 1
INVARIANTS
    DispatchedHasMessage
    EveryRepeatHasACause
    QueuedIsUnderway
PROPERTIES
    EventSettles
\* all events are settled in the end
CHECK_DEADLOCK FALSE
