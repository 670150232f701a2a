SPECIFICATION Spec
CONSTANTS
    Configs <- const_InprocConfigs
    N = 2
    NumPrompts = 2
    MaxBranches = 1
    MaxOutputs = 1
PROPERTY
    GenerateAlwaysReturns
CHECK_DEADLOCK FALSE
