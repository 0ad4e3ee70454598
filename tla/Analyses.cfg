SPECIFICATION AnalysesSpec
CONSTANTS
    entry = entry
    n1 = n1
    n2 = n2
    n3 = n3
    Null = Null
    Blocks <- MCBlocks
    Entry = entry
    Cfgs <- MCCfgs
    EntryNode = 0
    Nodes <- MCNodes
    Graphs <- MCGraphs
    main = main
    f1 = f1
    f2 = f2
    f3 = f3
    Functions <- MCFunctions
    Order <- MCOrder
    Programs <- MCPrograms
INVARIANTS NoDominatorLost IdomCorrect MatchesDominance LoopsNatural ParentEncloses
INVARIANTS PurityTypeOK NoCallerForgotten ResultIsPureFunctions
PROPERTY AnalysesEnd
