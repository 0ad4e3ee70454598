SPECIFICATION Spec
CONSTANTS
    MaxLookups = 64
    IntBits = 2
    Vars = {param, local}
    Params = {param}
    Numbers = {}
    Tests = {}
    Kinds = {"assign", "while", "not"}
    MaxStmts = 4
    MaxBlocks = 13
    Pipelines <- LoopPipelines
INVARIANTS SameBehaviour InvariantsLeave
PROPERTY PassesEnd
