SPECIFICATION Spec
CONSTANTS
    r1 = r1
    r2 = r2
    Roots = {r1, r2}
    SampledRoots = {r1, r2}
    MaxTraces = 2
    Cooldown = 0
    MinTokens = 0
    MaxBranches = 2
    SwapK = 1
    BranchRandom = FALSE
    MaxRunning = 3
    TokenBudget = 3
    MaxLen = 4
    PromptLen <- MCPromptLen
    Arrival <- MCArrival
    Scores = {0, 1, 2}
    Warmup = 1
    HardFloor = 1
    CheckInterval = 1
    StopAfter = 0
    TournamentMode = TRUE
    ThetaBranch = 0
    ThetaPrune = 0
    MinTokensPrune = 0
    AsyncScorer = TRUE
    IgnoreEos = {}
SYMMETRY MCSymmetry
INVARIANTS
    NoTraceFromEarlierPrompt
