------------------------------ MODULE LegacyDec ------------------------------
(***************************************************************************)
(* The quotient of cosmossdk.io/math's LegacyDec, as x/governance and      *)
(* x/dex use it.  A LegacyDec is a whole number of units; there are `unit` *)
(* of them in 1 (10^18 in the library, a small number for TLC).  Quo works *)
(* with twice the digits and rounds what it has to an even last digit when *)
(* it stands halfway: a quotient may come out above the exact one.         *)
(***************************************************************************)
EXTENDS Integers

\* n / d to the nearest whole number, to the even one when halfway.
RoundHalfEven(n, d) ==
    LET q == n \div d
        r == n % d
    IN IF 2 * r > d \/ (2 * r = d /\ q % 2 = 1) THEN q + 1 ELSE q

\* a / b in units, for two decimals or two whole numbers a and b.
Quo(a, b, unit) == RoundHalfEven((a * unit * unit) \div b, unit)
=============================================================================
