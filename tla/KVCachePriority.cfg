SPECIFICATION Spec
CONSTANTS
    Requests = {r1, r2, r3}
    Tokens = {1, 2}
    Prompts <- const_Prompts
    BlockSize = 2
    NumGpuBlocks = 4
    MaxLen = 6
    Budgets = {1, 6}
    Policy = "priority"
INVARIANT RunsOnItsOwnTokens
SYMMETRY const_Symmetry
