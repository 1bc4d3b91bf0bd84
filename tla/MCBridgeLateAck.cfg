SPECIFICATION Spec
CONSTANTS
    c1 = c1
    c2 = c2
    Chains = {c1, c2}
    MayRoute <- OneRoute
    Amounts = {1, 2}
    ParamChoices <- MCParams
    DefaultTimeout = 2
    Keep = 1
    MaxTransfers = 3
    MaxHeight = 4
INVARIANTS
    NoRefundAfterDelivery
