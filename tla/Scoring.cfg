\* Two rows, a checked public service and an unchecked private one, up to three ticks.
CONSTANTS
    Rows = {0, 1}
    Services = {0, 1}
    Private = {0}
    Checked = {1}
    PointsPerTick = 1
    PointsPerStolenFlag = 1
    PointsPerLostFlag <- LostFlagCosts
    NaNInt = 0
    MaxTicks = 3
    MaxFlags = 3
SPECIFICATION Spec
INVARIANTS RankWithinTwoPoints FlagsMovePointsTheRightWay DowntimeNeverPays
CHECK_DEADLOCK FALSE
