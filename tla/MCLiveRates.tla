----------------------------- MODULE MCLiveRates -----------------------------
(***************************************************************************)
(* Two currencies of two rates, three batches, one failure and one         *)
(* restart.                                                                *)
(***************************************************************************)
EXTENDS LiveRates, TLC

\* Currencies and rates are only compared: interchangeable.
Symmetry == Permutations(Currencies) \cup Permutations(Fx)
=============================================================================
