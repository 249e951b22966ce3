SPECIFICATION Spec
CONSTANTS
    u1 = u1
    u2 = u2
    u3 = u3
    c1 = c1
    Null = Null
    MaxOps = 2
    User <- MCUser
    Value <- MCValue
SYMMETRY MCSymmetry
INVARIANTS
    TypeOK
    ChainsAgree
PROPERTIES
    DanglingOnlyFromUsedErase
    ImplementsChains
CHECK_DEADLOCK FALSE
