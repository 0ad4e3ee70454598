SPECIFICATION Spec
CONSTANTS
    Values = {1, 2, 3, 4, 5, 6}
    NumRegs = 3
    ArgMaxR = 2
    Type = "int"
    MaxFunctions = 2
    Functions <- MCReused
INVARIANT ArgRegMatchesConvention
