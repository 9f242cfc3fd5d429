--------------------------- MODULE SessionStreams ---------------------------
(***************************************************************************)
(* The event streamer itself under the sessions that drive it: the actor's *)
(* subscribe, ensureConnected and stop are called by the controllers and   *)
(* by nobody else, while its timers and streams go on as they like.        *)
(***************************************************************************)
EXTENDS EventStreamer, SessionCalls

allVars == <<vars, sessionVars>>

StreamsInit == Init /\ CallsInit

SessionSubscribes(s) == SubscribeRuns(s) /\ Subscribe(s)

SessionStops == StopRuns /\ Stop

\* Nothing to replace: ensureConnected returns at its guard.
LeftAlone ==
    /\ ~(isStreaming /\ (streamReference = None \/ ~hasRecentPing \/ isReconnecting))
    /\ UNCHANGED vars

SessionEnsures == EnsureRuns /\ (EnsureConnected \/ LeftAlone)

StreamsNext ==
    \/ OffTheActor /\ UNCHANGED vars
    \/ \E s \in Owners : SessionSubscribes(s)
    \/ SessionStops \/ SessionEnsures
    \/ (Timers \/ Streams) /\ UNCHANGED sessionVars

StreamsSpec == StreamsInit /\ [][StreamsNext]_allVars
-----------------------------------------------------------------------------
(* Properties.                                                             *)

Sessions == INSTANCE ConversationSessions WITH served <- Served

\* The streamer under its sessions is a StreamKeeper under them: no timer and no
\* late callback keeps, reopens or releases a stream that the sessions' calls
\* would not have, and a call does no more than it promises.
DrivesAKeeper == Sessions!SessionsSpec

\* A stream that is up for anyone but the session signed in has one of two
\* causes: a stop still waits for the actor, or its owner subscribed after the
\* logout.
StrayStreamHasACause ==
    \A g \in Generations :
        connection[g] = "up" /\ openedFor[g] # session
            => stops > 0 \/ start[openedFor[g]] = "wired"

\* What the doc of subscribe says: it opens the stream for its owner, and a
\* fresh pair per subscription is what lets a newly signed-in account receive
\* live events.  Once no stop is waiting, a session that subscribed is served
\* by its own stream.
StreamServesSession ==
    \A g \in Generations :
        connection[g] = "up" /\ session # NoOwner /\ start[session] = "wired" /\ stops = 0
            => openedFor[g] = session
=============================================================================
