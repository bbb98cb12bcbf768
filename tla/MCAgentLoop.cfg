CONSTANTS
    small = small
    huge = huge
    out = out
    dot = dot
    sub = sub
    link = link
    pOut = pOut
    pRoot = pRoot
    pSub = pSub
    Nothing = Nothing
    Illegal = Illegal
    Escapes = Escapes
    Directory = Directory
    Missing = Missing
    Contents = {small, huge}
    SizeOf <- MCSizeOf
    Addrs = {out, dot, sub, link}
    Paths = {pOut, pRoot, pSub}
    Shared = {pSub}
    Place <- MCPlace
    InitialFiles <- MCInitialFiles
    Cap = 24
    MaxWrite = 8192
    Spends = {}
    MaxEvents = 14
    Root = dot
    ToolCalls <- MCToolCalls
    MaxCalls = 2
    Energies = {0, 5, 31}
    MaxSteps = 3
    Contended = TRUE
SPECIFICATION LoopSpec
CHECK_DEADLOCK FALSE
INVARIANTS
    RunMatchesLog
    ActsFollowPlans
PROPERTIES
    RunEnds
