------------------------ MODULE ConversationSessions ------------------------
(***************************************************************************)
(* The sessions' calls against the StreamKeeper they take the streamer     *)
(* for: whose stream is kept, through every logout and late subscribe.     *)
(***************************************************************************)
EXTENDS SessionCalls, StreamKeeper

SessionsInit == KeeperInit /\ CallsInit

Subscribed(s) == SubscribeRuns(s) /\ Keep(s)

Stopped == StopRuns /\ Release

\* ensureConnected: a stream that is kept but looks dead is replaced.
Ensured == EnsureRuns /\ (Reopen \/ UNCHANGED keeperVars)

\* On its own the streamer loses its stream, reopens it, or is denied.
Streamer ==
    /\ owner # NoOwner
    /\ Drop \/ Reopen \/ Release
    /\ UNCHANGED sessionVars

SessionsNext ==
    \/ OffTheActor /\ UNCHANGED keeperVars
    \/ \E s \in Owners : Subscribed(s)
    \/ Stopped \/ Ensured
    \/ Streamer

SessionsSpec == SessionsInit /\ [][SessionsNext]_<<keeperVars, sessionVars>>
=============================================================================
