------------------------------- MODULE MCDex -------------------------------
(* A small instance of Dex: two tokens and two pools, the second of which    *)
(* may trade the first one's liquidity coins.  The balances make the state   *)
(* space finite but large; a run executes MaxMsgs messages at most.          *)
EXTENDS Dex, TLC

CONSTANTS u1, u2, t1, t2,
          MaxMsgs \* bound: messages executed in all

VARIABLE msgs

\* Two valid parameter sets, without and with a fee, and one that would let a
\* swap empty a pool.
MCParams ==
    {[minLiquidity |-> 2, maxDrain |-> 30, minFee |-> 0, maxFee |-> 0, defaultFee |-> 0],
     [minLiquidity |-> 1, maxDrain |-> 20, minFee |-> 0, maxFee |-> 1, defaultFee |-> 1],
     [minLiquidity |-> 1, maxDrain |-> 100, minFee |-> 0, maxFee |-> 0, defaultFee |-> 0]}

MCInit == Init /\ msgs = 0
MCNext == \/ msgs < MaxMsgs /\ msgs' = msgs + 1 /\ Next
          \/ msgs = MaxMsgs /\ UNCHANGED <<vars, msgs>>
MCSpec == MCInit /\ [][MCNext]_<<vars, msgs>>

\* Every property is symmetric in users and tokens, none is a liveness property.
MCSymmetry == Permutations({u1, u2}) \cup Permutations({t1, t2})
=============================================================================
