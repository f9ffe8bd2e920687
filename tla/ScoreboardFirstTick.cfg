\* A flag submitted in the first tick.
CONSTANTS
    c1 = c1
    c2 = c2
    Nil = Nil
    NumTeams = 1
    BotEnabled = TRUE
    NumServices = 2
    Checks = {1}
    TotalTicks = 2
    FlagValidTicks = 2
    Conns = {c1, c2}
    Submitter <- TeamAndBot
    Route <- HttpOnly
SPECIFICATION Spec
INVARIANTS ValidFlagIsCounted
CHECK_DEADLOCK FALSE
