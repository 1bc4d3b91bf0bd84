SPECIFICATION FairSpec
CONSTANTS
    s1 = s1
    s2 = s2
    worker = worker
    worker2 = worker2
    client = client
    client2 = client2
    admin = admin
    delivery = delivery
    poller = poller
    Sales = {s1, s2}
    Scanners = {worker}
    Clients = {client, client2}
    Admins = {}
    Deliveries = {}
    Polls = {}
    MaxSeq = 2
    MaxPays = 0
    MaxFaults = 1
PROPERTIES
    QueueMoves
CHECK_DEADLOCK FALSE
