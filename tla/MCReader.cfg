CONSTANTS
    p1 = p1
    p2 = p2
    x = x
    y = y
    out = out
    Nothing = Nothing
    Nobody = Nobody
    Torn = Torn
    Contents = {x, y}
    SizeOf <- MCSizeOf
    Addrs = {out}
    Paths = {out}
    Place <- MCPlace
    Found <- MCFound
    Procs = {p1, p2}
    Cap = 2
    Spends = {}
    Faults = {"crash"}
    Tears = {"part", "all"}
    OneAtATime = FALSE
    MaxEvents = 2
    MaxFaults = 1
SPECIFICATION ReaderSpec
CHECK_DEADLOCK FALSE
INVARIANTS
    BytesRecoverable
    SnapshotLasts
    CellsVouched
PROPERTIES
    LockReleased
    ReaderAnswers
