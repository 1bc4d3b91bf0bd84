----------------------------- MODULE MCMlcoin ------------------------------
(* A small instance of Mlcoin.  The founder's wallet is scaled from the      *)
(* default genesis: the locked coins come on top of a balance as large, and  *)
(* only that balance is declared as circulating.  The user is in no genesis: *)
(* what it buys or receives makes a wallet without an Index.                 *)
EXTENDS Mlcoin

CONSTANTS founder, user,
          MaxMsgs, \* bound: messages other than Unstake
          MaxImports

VARIABLES msgs, imports

MCGenesis == [u \in {founder, user} |-> IF u = founder THEN [balance |-> 2, locked |-> 2]
                                                       ELSE [balance |-> 0, locked |-> 0]]
MCKes == [u \in {founder, user} |-> IF u = user THEN 6 ELSE 0]
MCPrices == [buy |-> 3, sell |-> 2]

\* Activity lowers only the buying price, or leaves the prices alone.
MCAdjustments == {-2}

MCInit == Init /\ msgs = 0 /\ imports = 0

Passing == EndBlocker \/ Mature \/ NewMonth

Ask(k) == k \in DOMAIN stakes /\ UnstakeAndClaimRewards(k)

MCNext ==
    \/ msgs < MaxMsgs /\ msgs' = msgs + 1 /\ Message /\ UNCHANGED imports
    \/ (Passing \/ \E k \in DOMAIN stakes : Ask(k)) /\ UNCHANGED <<msgs, imports>>
    \/ imports < MaxImports /\ imports' = imports + 1 /\ ExportImport /\ UNCHANGED msgs

\* Blocks keep coming, and the owner of the first stake asks for it again and again.
MCSpec == /\ MCInit /\ [][MCNext]_<<vars, msgs, imports>>
          /\ WF_vars(EndBlocker /\ UNCHANGED <<msgs, imports>>)
          /\ WF_vars(Ask(1) /\ UNCHANGED <<msgs, imports>>)
=============================================================================
