CONSTANTS
    p1 = p1
    p2 = p2
    x = x
    y = y
    out = out
    log1 = log1
    Nothing = Nothing
    Nobody = Nobody
    Torn = Torn
    Contents = {x, y}
    SizeOf <- MCSizeOf
    Addrs = {out, log1}
    Paths = {out, log1}
    Place <- MCPlace
    Found <- MCFound
    Procs = {p1}
    Cap = 6
    Spends = {2, 3}
    Faults = {"crash"}
    Tears = {"part", "line", "all"}
    OneAtATime = TRUE
    MaxEvents = 3
    MaxFaults = 2
SPECIFICATION Spec
CHECK_DEADLOCK FALSE
INVARIANTS
    AckedDurable
