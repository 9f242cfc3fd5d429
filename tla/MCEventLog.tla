---------------------------- MODULE MCEventLog ----------------------------
(* EventLog for TLC: a log of two messages the first of which is deleted,  *)
(* and one of three messages.                                              *)
EXTENDS EventLog

SentSentDeleted ==
    <<[id |-> 1, deleted |-> FALSE], [id |-> 2, deleted |-> FALSE], [id |-> 1, deleted |-> TRUE]>>
ThreeSent == [i \in 1..3 |-> [id |-> i, deleted |-> FALSE]]
=============================================================================
