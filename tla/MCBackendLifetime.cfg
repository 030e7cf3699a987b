SPECIFICATION Spec
CONSTANTS
    b1 = b1
    b2 = b2
    b3 = b3
    b4 = b4
    b5 = b5
    a1 = a1
    a2 = a2
    None = None
    Initial = b1
    Backends <- MCBackends5
    Attempts <- MCAttempts2
SYMMETRY Symmetry
INVARIANTS
    TypeOK
    CustodyInv
    InUseOpen
    NoLeak
PROPERTY CloseJoins
