\* A team and its bot steal from each other; flags never expire. Every service has a
\* check, and a client reads the boards. Fair behaviours.
CONSTANTS
    c1 = c1
    c2 = c2
    Nil = Nil
    NumTeams = 1
    BotEnabled = TRUE
    NumServices = 1
    Checks = {0}
    TotalTicks = 2
    FlagValidTicks = 2
    Conns = {c1, c2}
    Submitter <- TeamAndBot
    Route <- BothRoutes
    Clients = {u1}
    Idle = Idle
SPECIFICATION FairPagesSpec
INVARIANTS StolenLostMirror FlagIdsArePlanted AnswerIsOneBoard SeenTickIsServed
PROPERTIES GameEnds SeenNeverGoesBack
CHECK_DEADLOCK FALSE
