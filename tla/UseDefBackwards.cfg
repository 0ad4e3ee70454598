SPECIFICATION SpecBackwards
CONSTANTS
    Plain = {x}
    Labels = {B}
    Phis = {phi}
    Insts = {ins}
    Null = Null
    MaxOps = 4
    MaxInstOps = 2
\* Every value may have been destroyed: the system may stop.
CHECK_DEADLOCK FALSE
INVARIANT UsesExact
