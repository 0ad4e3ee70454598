SPECIFICATION Spec
CONSTANTS
    MaxLookups = 64
    IntBits = 2
    Vars = {param, local}
    Params = {param}
    Numbers = {0}
    Tests = {1}
    Kinds = {"assign", "var", "return", "index", "if", "while"}
    MaxStmts = 3
    MaxBlocks = 10
    Pipelines <- BranchPipelines
INVARIANTS EdgesAgree AllTerminated PhisAgree SsaForm OnlyReachableKept SameBehaviour
PROPERTY NothingAfterTerminator
