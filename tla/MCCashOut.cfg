SPECIFICATION Spec
CONSTANTS
    s1 = s1
    s2 = s2
    worker = worker
    worker2 = worker2
    client = client
    client2 = client2
    admin = admin
    delivery = delivery
    poller = poller
    Sales = {s1}
    Scanners = {worker, worker2}
    Clients = {client, client2}
    Admins = {admin}
    Deliveries = {delivery}
    Polls = {poller}
    MaxSeq = 2
    MaxPays = 2
    MaxFaults = 1
SYMMETRY Alike
CONSTRAINT BusyBound
INVARIANTS
    TypeOK
    PaidForSold
    CompletedWasPaid
PROPERTIES
    PayoutStands
CHECK_DEADLOCK FALSE
