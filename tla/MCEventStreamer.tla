--------------------------- MODULE MCEventStreamer ---------------------------
(* EventStreamer for TLC. *)
EXTENDS EventStreamer
=============================================================================
