----------------------------- MODULE Settlement -----------------------------
(***************************************************************************)
(* What the keepers that hold users' coins in a module account promise for *)
(* each holding (a bridge transfer of x/crosschain, an escrow of           *)
(* x/marketplace), without saying how: it is opened once, it is settled at *)
(* most once, and the module account pays for it only in the step that     *)
(* settles it, at most once.  Several may be settled in one step (one      *)
(* EndBlocker refunds every transfer that has timed out).                  *)
(***************************************************************************)
EXTENDS Naturals

CONSTANT Ids        \* identifiers a holding may get

VARIABLES status,   \* status[i]: "absent", "pending", "completed", "timed_out"
          paid      \* paid[i]: how often the module account has paid for i

Init == /\ status = [i \in Ids |-> "absent"]
        /\ paid = [i \in Ids |-> 0]

Open(i) == /\ status[i] = "absent"
           /\ status' = [status EXCEPT ![i] = "pending"]
           /\ UNCHANGED paid

\* A transfer reported as delivered by the other chain costs the module nothing.
Deliver(i) == /\ status[i] = "pending"
              /\ status' = [status EXCEPT ![i] = "completed"]
              /\ UNCHANGED paid

Pending == {i \in Ids : status[i] = "pending"}

\* The transfers of S are closed with the same outcome, each paid for once.
Pay(S, outcome) ==
    /\ S \subseteq Pending
    /\ \A i \in S : paid[i] = 0
    /\ status' = [i \in Ids |-> IF i \in S THEN outcome ELSE status[i]]
    /\ paid' = [i \in Ids |-> IF i \in S THEN 1 ELSE paid[i]]

Next == \/ \E i \in Ids : Open(i) \/ Deliver(i)
        \/ \E S \in SUBSET Pending, outcome \in {"completed", "timed_out"} : Pay(S, outcome)

Spec == Init /\ [][Next]_<<status, paid>>
=============================================================================
