SPECIFICATION Spec
CONSTANTS
    L = 3
    MaxMajor = 1
    MaxMinor = 2
    WorkerSetSize = 2
    HistoryCapacity = 4
    AlphaNum = 1
    AlphaDen = 2
    Policies = {"PAC"}
    EnableSL = FALSE
    EnableUL = TRUE
    Inputs <- MCInputsMinor
    MaxPipelines = 3
CHECK_DEADLOCK FALSE
PROPERTY ULExtrapolatesMinor
