---------------------------- MODULE MCBillExchange ----------------------------
(* BillExchange for TLC. *)
EXTENDS BillExchange
=============================================================================
