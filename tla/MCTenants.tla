------------------------------ MODULE MCTenants -------------------------------
(***************************************************************************)
(* One store for TLC; the values are in the configurations.                *)
(***************************************************************************)
EXTENDS Tenants
===============================================================================
