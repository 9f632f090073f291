\* Two manual triggers and the interval job, scheduled fairly.
SPECIFICATION FairSpec
CONSTANTS
    Requests = {r1, r2}
    Tick = Tick
    MaxCycles = 3
    NoThread = NoThread
INVARIANTS
    NoOverlap
    SkippedRunsAreReplaced
    StatusIsNotTorn
    QuietStatusIsCurrent
PROPERTIES
    LockIsReleased
    TriggeredMeansIngested
CHECK_DEADLOCK FALSE
