SPECIFICATION Spec
CONSTANTS
    L = 3
    MaxMajor = 1
    MaxMinor = 1
    WorkerSetSize = 2
    HistoryCapacity = 4
    AlphaNum = 1
    AlphaDen = 2
    Policies = {"LRU", "LFU", "FIFO", "PAC"}
    EnableSL = TRUE
    EnableUL = TRUE
    Inputs <- MCInputs
    MaxPipelines = 4
CHECK_DEADLOCK FALSE
INVARIANT WorkerSetWithinSize
