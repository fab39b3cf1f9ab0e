SPECIFICATION Spec
CONSTANTS
    F = F
    G = G
    r1 = r1
    r2 = r2
    Families <- MCFamilies
    Requests <- MCRequests
    MaxVersion = 2
    MaxStarts = 1
    MaxRuns = 3
SYMMETRY MCSymmetry
CHECK_DEADLOCK FALSE
INVARIANTS
    OneVersionInForce
    InForceIsAcyclic
    ChainIsLine
