------------------------------ MODULE MCStartup -----------------------------
(* Startup for TLC.  No symmetry: liveness is checked. *)
EXTENDS Startup, TLC
=============================================================================
