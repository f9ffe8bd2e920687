\* A read may take longer than a tick, and two ticks of five have foreground events; the
\* duration is no multiple of the tick rate.
CONSTANTS
    e1 = e1
    e2 = e2
    e3 = e3
    TickRate = 6
    Duration = 32
    CheckTimeout = 2
    LongestRead = 9
    Events = {e1, e2, e3}
    At <- SlowTimeline
    Foreground = {e1, e2}
    Horizon = 70
SPECIFICATION Spec
INVARIANTS NeverAhead DueEventsRunOnce FewTicksAreLost
PROPERTIES Terminates
CHECK_DEADLOCK FALSE
