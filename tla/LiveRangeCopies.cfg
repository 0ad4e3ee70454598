SPECIFICATION RegisterSpec
CONSTANTS
    E = E
    A = A
    B = B
    M = M
    H = H
    X = X
    T = T
    T1 = T1
    E1 = E1
    T2 = T2
    a = a
    c = c
    d = d
    x = x
    y = y
    p = p
    q = q
    Null = Null
    Programs <- SharedCopies
    Address <- MCAddress
    Comparisons = {c, d}
    NumRegs = 3
    ArgMaxR = 1
INVARIANT StartsAtFirstLivePosition
