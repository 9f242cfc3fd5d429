--------------------------- MODULE MCServerStream ---------------------------
(* ServerStream for TLC. *)
EXTENDS ServerStream
=============================================================================
