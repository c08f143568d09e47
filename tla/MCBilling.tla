------------------------------- MODULE MCBilling ------------------------------
(***************************************************************************)
(* A store that pays, for TLC; the two calls are alike.                    *)
(***************************************************************************)
EXTENDS Billing, TLC

CONSTANTS a, b

CallSymmetry == Permutations(Calls)
===============================================================================
