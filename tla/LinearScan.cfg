SPECIFICATION Spec
CONSTANTS
    Values = {1, 2, 3, 4, 5, 6}
    NumRegs = 2
    ArgMaxR = 1
    Type = "int"
    MaxFunctions = 2
    Functions <- MCAllFunctions
INVARIANTS TypeOK NoOverlap RegistersAccounted ArgumentsKeepTheirRegister SpillOnlyUnderPressure
