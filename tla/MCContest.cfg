CONSTANTS
    s1 = s1
    s2 = s2
    s3 = s3
    s4 = s4
    s5 = s5
    sol = sol
    names = names
    list = list
    inv = inv
    extA = extA
    extB = extB
    badB = badB
    undoA = undoA
    pairAB = pairAB
    right = right
    Nothing = Nothing
    Illegal = Illegal
    Escapes = Escapes
    Directory = Directory
    Missing = Missing
    Contents <- MCContents
    SizeOf <- MCSizeOf
    Addrs <- MCAddrs
    Paths <- MCAddrs
    Place <- MCPlace
    Shared = {}
    InitialFiles <- MCFiles
    Cap = 100
    MaxWrite = 100
    Spends = {}
    MaxEvents = 9
    Letters = {"a", "b", "c"}
    LettersOf <- MCLettersOf
    Garble = "garble"
    Terms = {"ab", "ac"}
    Names = {"n"}
    Pairs <- MCPairs
    Broken <- MCBroken
    StepFiles = {s1, s2, s3, s4, s5}
    Solution = sol
    NamesFile = names
    Root = "root"
    LinesOf <- MCLinesOf
    Drafts <- MCDrafts
    Looked = {names}
    Edits <- MCEdits
    Touches <- MCTouches
    MaxRaces = 1
SPECIFICATION ContestSpec
CONSTRAINT EitherGame
CHECK_DEADLOCK FALSE
INVARIANTS
    OkMeansSolved
    JudgedBytesAreLogged
    AlarmsExplained
    ScoreAddsUp
