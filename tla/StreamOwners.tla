---------------------------- MODULE StreamOwners ----------------------------
(***************************************************************************)
(* Who may sign in, one after the other, on a device.                      *)
(***************************************************************************)
CONSTANTS
    Owners,     \* the key pairs that may sign in
    NoOwner

ASSUME OwnersAssumption == NoOwner \notin Owners
=============================================================================
