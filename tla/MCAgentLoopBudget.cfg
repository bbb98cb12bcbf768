CONSTANTS
    small = small
    huge = huge
    out = out
    dot = dot
    sub = sub
    link = link
    pOut = pOut
    pRoot = pRoot
    pSub = pSub
    Nothing = Nothing
    Illegal = Illegal
    Escapes = Escapes
    Directory = Directory
    Missing = Missing
    Contents = {small, huge}
    SizeOf <- MCSizeOf
    Addrs = {out, dot, sub, link}
    Paths = {pOut, pRoot, pSub}
    Shared = {}
    Place <- MCPlace
    InitialFiles <- MCInitialFiles
    Cap = 8020
    MaxWrite = 8192
    Spends = {}
    MaxEvents = 14
    Root = dot
    ToolCalls <- FewToolCalls
    MaxCalls = 2
    Energies = {8005}
    MaxSteps = 3
    Contended = FALSE
SPECIFICATION LoopSpec
CHECK_DEADLOCK FALSE
INVARIANTS
    BilledWithinBudget
