SPECIFICATION Spec
CONSTANTS
    Task = {t1, t2, t3}
    Client = {c1, c2}
    NoTask = NoTask
    MaxConcurrent = 1
    MaxRestarts = 1
    MaxRetries = 2
    MaxDrops = 0
SYMMETRY MCSymmetry
INVARIANTS
    SlotsRespected
    WorkConserving
    NoLostWakeup
    DirsOwned
    ResultExplained
    DisbeliefExplained
PROPERTIES ImplementsJobs
CHECK_DEADLOCK FALSE
