CONSTANTS
    small = small
    large = large
    huge = huge
    out = out
    dot = dot
    link = link
    up = up
    pOut = pOut
    pSub = pSub
    Nothing = Nothing
    Illegal = Illegal
    Escapes = Escapes
    Directory = Directory
    Missing = Missing
    Contents = {small, large, huge}
    SizeOf <- MCSizeOf
    Addrs = {out, dot, link, up}
    Paths = {pOut, pSub}
    Shared = {pOut}
    Place <- MCPlace
    InitialFiles <- MCInitialFiles
    Cap = 6
    MaxWrite = 8192
    Spends = {0, 2, 7}
    MaxEvents = 5
SPECIFICATION Spec
CHECK_DEADLOCK FALSE
INVARIANTS
    TypeOK
    EnergyAddsUp
    OneChain
    SelfCheckSilent
    CheckBlamesOutsiders
    LoadBlamesOutsiders
    IndexFollowsLog
    OverrunDrains
PROPERTIES
    NoWorkUnpaid
    LedgerSpec
