CONSTANTS
    small = small
    large = large
    huge = huge
    out = out
    link = link
    pOut = pOut
    pSub = pSub
    Nothing = Nothing
    Escapes = Escapes
    Directory = Directory
    Missing = Missing
    Contents = {small, large, huge}
    SizeOf <- MCSizeOf
    Addrs = {out, link}
    Paths = {pOut, pSub}
    Targets <- MCTargets
    InitialTarget <- MCInitialTarget
    InitialFiles <- MCInitialFiles
    Held = {small, large, Directory, Missing}
    Cap = 6
    MaxWrite = 5000
    MaxEvents = 3
    MaxMeddling = 2
SPECIFICATION StepsSpec
CHECK_DEADLOCK FALSE
INVARIANTS
    PricedAsLogged
    OnlyMeddlingMisleads
    SelfCheckBlamesLinks
