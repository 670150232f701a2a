SPECIFICATION RoundSpec
CONSTANTS
    Traces = {t1, t2, t3, t4}
    Capacity = 3
    Scores = {0, 1, 2}
    MaxUnscored = 2
    SwapK = 2
    BranchRandom = FALSE
INVARIANTS
    VictimsAreLowest
    BackToCapacity
    PoolStaysFull
    NoBranchIsWasted
CHECK_DEADLOCK FALSE
