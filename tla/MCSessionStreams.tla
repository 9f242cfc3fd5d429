-------------------------- MODULE MCSessionStreams --------------------------
(* SessionStreams for TLC.  Its properties are safety properties, and the   *)
(* owners are interchangeable.                                              *)
EXTENDS SessionStreams, FiniteSets, TLC

OwnerSymmetry == Permutations(Owners)

\* Bound: one callback of each stream waits for the actor.
FewCallbacks == \A g \in Generations : Cardinality(callbacks[g]) <= 1
=============================================================================
