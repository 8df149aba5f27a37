SPECIFICATION FairSpec
CONSTANTS
    Task = {t1, t2}
    Client = {c1}
    NoTask = NoTask
    MaxConcurrent = 1
    MaxRestarts = 1
    MaxRetries = 2
    MaxDrops = 1
INVARIANTS OneLiveJob
PROPERTIES
    JobsEnd
    SyncAnswered
    CallEnds
CHECK_DEADLOCK FALSE
