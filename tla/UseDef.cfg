\* One phi of at most two incoming pairs, one instruction of at most two
\* operands, one plain value and one label.  The phi and the instruction may
\* use each other and themselves; equal incoming values, equal operands and
\* null operands all occur.
SPECIFICATION Spec
CONSTANTS
    Plain = {x}
    Labels = {B}
    Phis = {phi}
    Insts = {ins}
    Null = Null
    MaxOps = 4
    MaxInstOps = 2
INVARIANTS TypeOK UsesExact NoDangling
PROPERTIES LoopsEnd ImplementsOperandGraph
\* Every value may have been destroyed: the system may stop.
CHECK_DEADLOCK FALSE
