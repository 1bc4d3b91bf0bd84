SPECIFICATION MCSpec
CONSTANTS
    u1 = u1
    u2 = u2
    t1 = t1
    t2 = t2
    Users = {u1, u2}
    Module = module
    Tokens = {t1, t2}
    Amounts = {2, 5}
    Fees = {0, 1}
    FeeUnit = 4
    Unit = 2
    ParamChoices <- MCParams
    Funds = 8
    MaxPools = 2
    MaxMsgs = 5
SYMMETRY MCSymmetry
INVARIANTS
    TypeOK
    Solvent
    SharesCovered
    Funded
PROPERTIES
    WorthKept
