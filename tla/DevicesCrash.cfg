\* The process dies while a file is written.
CONSTANTS
    r1 = r1
    r2 = r2
    Main = Main
    Absent = Absent
    Empty = Empty
    Names = {1, 2}
    Requests = {r1}
    Posts <- OneAtATime
    RouterMayFail = FALSE
    DiskMayFail = FALSE
    MaxBoots = 2
    MaxEarlyBoots = 2
SPECIFICATION Spec
INVARIANTS AcknowledgedIsLoaded
CHECK_DEADLOCK FALSE
