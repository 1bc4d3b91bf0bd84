----------------------------- MODULE MCCashOut ------------------------------
(* Small instances of CashOut: two workers, one in each replica, two clients,  *)
(* an administrator, a callback and a poll act at once on one sale, and a      *)
(* worker and two clients on two.                                              *)
EXTENDS CashOut

CONSTANTS s1, s2, worker, worker2, client, client2, admin, delivery, poller

\* Workers are treated alike, and clients.
Alike == Permutations(Scanners) \cup Permutations(Clients)

Busy == Cardinality({r \in Runners : run[r].pc \notin {"idle", "over"}})
        + Cardinality({c \in Clients : resign[c] # Idle})
        + Cardinality({d \in Deliveries : callback[d] # Idle})
        + Cardinality({p \in Polls : poll[p] # Idle})

\* Bound: two handlers in progress at once, or one that has died and two more;
\* three as long as none has died and a re-sign is one of them.
BusyBound ==
    \/ Busy <= 2
    \/ Busy = 3 /\ faults = 0 /\ \E c \in Clients : resign[c] # Idle
=============================================================================
