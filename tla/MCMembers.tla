-------------------------------- MODULE MCMembers -------------------------------
(***************************************************************************)
(* A store with one seat, for TLC.                                         *)
(***************************************************************************)
EXTENDS Members, TLC

CONSTANTS ann, bob, c1, c2, q1

AnnWorksBobLeft == [u \in Users |-> IF u = ann THEN "STAFF" ELSE "off"]

CallSymmetry == Permutations(Calls)
===============================================================================
