------------------------------ MODULE MCRefunds -------------------------------
(***************************************************************************)
(* A small payment for TLC: two refund requests, and a third way for money *)
(* to go back, the gateway's dashboard.                                    *)
(***************************************************************************)
EXTENDS Refunds, TLC

CONSTANTS c1, c2, d1

CallSymmetry == Permutations(Calls)
===============================================================================
