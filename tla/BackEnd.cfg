SPECIFICATION Spec
CONSTANTS
    MaxLookups = 64
    IntBits = 15
    MaxBlocks = 10
    Vars = {}
    Programs <- AllPrograms
    Pipelines <- AllPipelines
    Inputs = {0, 3}
INVARIANTS FrameDisjoint ImmediatesFit SlotsHoldValues SameResult NoTrivialPhi EdgesSplit
