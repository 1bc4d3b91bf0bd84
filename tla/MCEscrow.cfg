SPECIFICATION Spec
CONSTANTS
    u1 = u1
    u2 = u2
    Users = {u1, u2}
    Module = module
    Amounts = {1, 2}
    Windows = {0, 2, 4}
    Funds = 2
    Second = 2
    Half = 8
    MaxSeq = 2
    MaxEscrows = 2
    MaxTime = 3
SYMMETRY UserSymmetry
INVARIANTS
    TypeOK
    Accounted
PROPERTIES
    Settles
    DisputeHolds
