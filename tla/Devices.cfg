\* Two requests for different names, failures of router and disk, three boots.
CONSTANTS
    r1 = r1
    r2 = r2
    Main = Main
    Absent = Absent
    Empty = Empty
    Names = {1, 2}
    Requests = {r1, r2}
    Posts <- NamesApart
    RouterMayFail = TRUE
    DiskMayFail = TRUE
    MaxBoots = 3
    MaxEarlyBoots = 2
SPECIFICATION Spec
INVARIANTS TypeOK AddressesDiffer AcknowledgedIsKept OwnersStayConnected ServedConfigFits
CHECK_DEADLOCK FALSE
