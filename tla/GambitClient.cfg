SPECIFICATION Spec
CONSTANTS
    Configs <- const_AllConfigs
    N = 2
    NumPrompts = 2
    MaxBranches = 1
    MaxOutputs = 1
INVARIANTS
    SamplesReturnedOnce
    ReturnsDrained
    ExportIsComplete
PROPERTY
    GenerateReturns
CHECK_DEADLOCK FALSE
