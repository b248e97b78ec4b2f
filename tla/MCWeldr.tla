------------------------------- MODULE MCWeldr ------------------------------
(* Weldr for TLC *)
EXTENDS Weldr, TLC
=============================================================================
