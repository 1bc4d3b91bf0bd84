SPECIFICATION Spec
CONSTANTS
    p1 = p1
    u1 = u1
    u2 = u2
    d1 = d1
    d2 = d2
    r1 = r1
    r2 = r2
    Purchases = {p1}
    Pushes = {u1, u2}
    Deliveries = {d1, d2}
    Credits = {r1, r2}
    MaxPrompts = 3
SYMMETRY Interchangeable
INVARIANTS
    TypeOK
    SpentOnce
    CreditWasPaid
    TruthfulRecord
    FailureIsListed
CHECK_DEADLOCK FALSE
