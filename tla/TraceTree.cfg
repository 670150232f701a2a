SPECIFICATION TreeSpec
CONSTANTS
    r1 = r1
    r2 = r2
    Roots = {r1, r2}
    MaxTraces = 3
    Cooldown = 2
    MinTokens = 1
    MaxBranches = 3
SYMMETRY MCSymmetry
INVARIANTS
    TraceTreeTypeOK
    Forest
    BranchIdsFresh
