\* Two teams, three ticks, flags valid for one tick after their own.
CONSTANTS
    c1 = c1
    c2 = c2
    Nil = Nil
    NumTeams = 2
    BotEnabled = FALSE
    NumServices = 2
    Checks = {1}
    TotalTicks = 3
    FlagValidTicks = 1
    Conns = {c1, c2}
    Submitter <- OneThief
    Route <- BothRoutes
SPECIFICATION Spec
INVARIANTS TypeOK NoDoubleSteal CountedForItsTick TickNumbering UptimeComplete
    NoEarlyFlag
PROPERTIES ClosedTicksStay LedgerSpec
CHECK_DEADLOCK FALSE
