SPECIFICATION SchedSpec
CONSTANTS
    r1 = r1
    r2 = r2
    r3 = r3
    r4 = r4
    Roots = {r1, r2, r3, r4}
    MaxRunning = 3
    TokenBudget = 4
    MaxLen = 5
    PromptLen <- MCPromptLen
    Arrival <- MCArrival
    Scores = {0, 1, 2}
SYMMETRY MCSymmetry
INVARIANTS
    QueuesPartitionRequests
    ScheduledStayRunning
    EveryRequestAccountedFor
    WorkerInSync
    ScheduleAssertions
    BatchWithinBudget
    BatchMakesProgress
    SchedInv
PROPERTIES
    EvictsTheLowest
CHECK_DEADLOCK FALSE
