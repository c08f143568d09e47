--------------------------------- MODULE MCPool ---------------------------------
(***************************************************************************)
(* Two stores and a limit of one, for TLC.                                 *)
(***************************************************************************)
EXTENDS Pool

CONSTANTS abc, kick, r1, r2, x, y
===============================================================================
