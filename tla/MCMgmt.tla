------------------------------- MODULE MCMgmt -------------------------------
(* Mgmt for TLC.  No symmetry: liveness is checked. *)
EXTENDS Mgmt
=============================================================================
