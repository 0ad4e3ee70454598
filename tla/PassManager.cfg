SPECIFICATION Spec
CONSTANTS
    main = main
    f = f
    g = g
    out = out
    NotCached = NotCached
    Main = main
    Functions <- MCFunctions
    Declared <- MCDeclared
    Programs <- MCPrograms
INVARIANT CfgAnalysesFresh
PROPERTY EffectsKept
