SPECIFICATION DominatorsSpec
CONSTANTS
    MaxLookups = 64
    IntBits = 2
    Vars = {param}
    Params = {param}
    Numbers = {0}
    Tests = {0}
    Kinds = {"var", "if", "while"}
    MaxStmts = 2
    MaxBlocks = 7
    Pipelines <- BeforeGvn
INVARIANT WalkMeetsIdom
