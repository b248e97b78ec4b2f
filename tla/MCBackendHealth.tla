--------------------------- MODULE MCBackendHealth --------------------------
(* BackendHealth for TLC *)
EXTENDS BackendHealth, TLC
=============================================================================
