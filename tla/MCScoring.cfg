SPECIFICATION Spec
CONSTANTS
    Scenarios <- Worlds
    Controllers = {"baseline", "candidate"}
    TickMS = 500
    MaxTicks = 12
    MaxPosition = 55000
    MaxSpeed = 9001
    MaxLength = 1000
    MaxObstacles = 2
    Whole = 100
    Null = Null
    Limits <- MCLimits
    MaxInt = 81026001
CHECK_DEADLOCK FALSE
INVARIANTS NoOverflow BaselineStops ScoreAgrees PassMeansGoal GapMeansClear ScorePublishable
