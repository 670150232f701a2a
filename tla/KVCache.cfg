SPECIFICATION Spec
CONSTANTS
    Requests = {r1, r2, r3}
    Tokens = {1, 2}
    Prompts <- const_Prompts
    BlockSize = 2
    NumGpuBlocks = 4
    MaxLen = 6
    Budgets = {2, 3, 6}
    Policy = "gambit"
INVARIANTS
    BlocksAccountedFor
    CachedIsComputed
    RunsOnItsOwnTokens
    NoGapInTheCache
    CommonPrefixIsShared
    LoneRequestFits
SYMMETRY const_Symmetry
