---------------------------- MODULE StreamKeeper ----------------------------
(***************************************************************************)
(* What EventStreamer promises those who call it: it keeps one stream for  *)
(* one owner.  The owner stays until a stop, whoever subscribes meanwhile; *)
(* the stream may drop and come back, always as the owner's.               *)
(***************************************************************************)
EXTENDS StreamOwners

VARIABLES
    owner,      \* whom the stream is kept for, or NoOwner
    served      \* whose stream is up, or NoOwner

keeperVars == <<owner, served>>

KeeperInit == owner = NoOwner /\ served = NoOwner

\* subscribe: takes effect only while no stream is kept.
Keep(o) ==
    /\ owner' = IF owner = NoOwner THEN o ELSE owner
    /\ served' = IF owner = NoOwner THEN o ELSE served

\* The stream breaks, or is torn down to be replaced.
Drop ==
    /\ served' = NoOwner
    /\ UNCHANGED owner

\* openStream.
Reopen ==
    /\ owner # NoOwner
    /\ served' = owner
    /\ UNCHANGED owner

\* stop, asked for by the owner's session or by a server that denies it.
Release ==
    /\ owner' = NoOwner
    /\ served' = NoOwner

KeeperNext == (\E o \in Owners : Keep(o)) \/ Drop \/ Reopen \/ Release

KeeperSpec == KeeperInit /\ [][KeeperNext]_keeperVars
=============================================================================
