SPECIFICATION Spec
CONSTANTS
    NumEpochs = 2
    EpochBatches = 4
    Interval = 2
    RequireImprovement = 3
    MaxAcc = 2
    MaxLoss = 0
    MaxRuns = 3
INVARIANTS CheckpointIsBest AccuracyPatience ModeMatches
 
CHECK_DEADLOCK FALSE
