------------------------------ MODULE MCEscrow ------------------------------
(* A small instance of Escrow.  A time.Duration has 4 bits and a second is   *)
(* 2 nanoseconds, so that a window of 2 seconds fits and one of 4 wraps.     *)
EXTENDS Escrow, TLC

CONSTANTS u1, u2

\* Every property is symmetric in the users and none is a liveness property.
UserSymmetry == Permutations({u1, u2})
=============================================================================
