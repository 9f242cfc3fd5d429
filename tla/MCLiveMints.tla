----------------------------- MODULE MCLiveMints -----------------------------
(* LiveMints for TLC. *)
EXTENDS LiveMints
=============================================================================
