SPECIFICATION Spec
CONSTANTS
    NumEpochs = 2
    EpochBatches = 4
    Interval = 2
    RequireImprovement = 3
    MaxAcc = 1
    MaxLoss = 2
    MaxRuns = 1
INVARIANT LossPatience
CHECK_DEADLOCK FALSE
