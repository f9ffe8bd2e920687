\* Two teams, two event requests.
CONSTANTS
    t1 = t1
    t2 = t2
    Main = Main
    TeamList <- TwoTeams
    Asked <- TwoMachines
    Leftovers <- EarlierRun
    Posters = {1, 2}
    BotEnabled = TRUE
    HealthChecked = TRUE
    Wait = TRUE
    WaitAfter = FALSE
    Template <- TwoTemplates
    Hostnames <- DistinctOrClashing
SPECIFICATION Spec
INVARIANTS TypeOK LaunchFindsTemplate GameIsReady CleanedUp WaitsCanEnd
PROPERTIES BootEnds NoCrashOnceUp
CHECK_DEADLOCK FALSE
