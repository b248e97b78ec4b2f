------------------------------ MODULE MCPubSub ------------------------------
(* PubSub for TLC.  No symmetry: liveness is checked. *)
EXTENDS PubSub, TLC
=============================================================================
