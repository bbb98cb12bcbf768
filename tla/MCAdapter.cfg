CONSTANTS
    small = small
    out = out
    dot = dot
    pOut = pOut
    pRoot = pRoot
    Nothing = Nothing
    Illegal = Illegal
    Escapes = Escapes
    Directory = Directory
    Missing = Missing
    Contents = {small}
    SizeOf <- MCSizeOf
    Addrs = {out, dot}
    Paths = {pOut, pRoot}
    Shared = {pRoot}
    Place <- MCPlace
    InitialFiles <- MCInitialFiles
    Cap = 40
    MaxWrite = 8192
    Spends = {}
    MaxEvents = 14
    Root = dot
    ToolCalls <- MCToolCalls
    MaxCalls = 1
    Energies = {}
    MaxSteps = 3
    Contended = TRUE
    Lengths = {3, 35, 36, 80, 152}
    TokenCounts <- MCTokenCounts
    HasKey = TRUE
SPECIFICATION AdapterSpec
CHECK_DEADLOCK FALSE
INVARIANTS
    RequestsFit
    BoundIsKept
    BillsAreBooked
    OneBillUnknown
PROPERTIES
    AdapterEnds
