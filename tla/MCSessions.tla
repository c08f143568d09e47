------------------------------ MODULE MCSessions ------------------------------
(***************************************************************************)
(* A small account for TLC: two devices and two requests in flight.        *)
(***************************************************************************)
EXTENDS Sessions, TLC

CONSTANTS a, b, phone, laptop, second

Symmetries == Permutations(Calls) \cup Permutations(Sids)
===============================================================================
