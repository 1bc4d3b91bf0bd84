------------------------------ MODULE MCBridge ------------------------------
(* Small instances of Bridge: one chain that may get a route, one that does *)
(* not, two parameter settings of which one leaves the timeout at 0.        *)
EXTENDS Bridge

CONSTANTS c1, c2

OneRoute == {c1}
NoRoute == {}
BothChains == [timeout |-> 0, chains |-> {c1, c2}, min |-> 1, max |-> 2]
OneChain == [timeout |-> 1, chains |-> {c2}, min |-> 2, max |-> 2]
MCParams == {BothChains, OneChain}
=============================================================================
