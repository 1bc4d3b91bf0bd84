---------------------------- MODULE MCGovernance ----------------------------
(* Small instances of Governance: two accounts, ballots for yes and half     *)
(* yes half veto, and parameters that differ in what a proposal in progress  *)
(* may meet changed.  Of 9 bonded tokens one voter has the quick quorum, and *)
(* two the slow one, only because 6/9 is rounded up to the last digit.       *)
EXTENDS Governance

CONSTANT other

Yes == [o \in Options |-> IF o = "yes" THEN 2 ELSE 0]
YesVeto == [o \in Options |-> IF o \in {"yes", "veto"} THEN 1 ELSE 0]
MCBallots == {Yes, YesVeto}
Quick == [min |-> 2, voting |-> 0, quorum |-> 333, threshold |-> 500, veto |-> 334]
Slow == [min |-> 1, voting |-> 3, quorum |-> 667, threshold |-> 500, veto |-> 334]
MCShares == [u \in {1, 2} |-> 3]
MCParams == {Quick, Slow}

\* A proposal carries the parameters with the lower minimum, or a message that may fail.
MCContents == {Slow, other}
=============================================================================
