SPECIFICATION FairSpec
CONSTANTS
    r1 = r1
    r2 = r2
    Roots = {r1, r2}
    SampledRoots = {}
    MaxTraces = 3
    Cooldown = 2
    MinTokens = 1
    MaxBranches = 2
    SwapK = 1
    BranchRandom = FALSE
    MaxRunning = 3
    TokenBudget = 3
    MaxLen = 4
    PromptLen <- MCPromptLen
    Arrival <- MCArrival
    Scores = {0, 2}
    Warmup = 1
    HardFloor = 0
    CheckInterval = 1
    StopAfter = 1
    TournamentMode = FALSE
    ThetaBranch = 1
    ThetaPrune = 1
    MinTokensPrune = 1
    AsyncScorer = FALSE
    IgnoreEos = {r1}
INVARIANTS
    PrunedTracesTerminate
    RankedHaveHistories
PROPERTIES
    BranchingWithinCapacity
    EngineDrains
