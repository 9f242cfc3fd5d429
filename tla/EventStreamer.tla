---------------------------- MODULE EventStreamer ----------------------------
(***************************************************************************)
(* EventStreamer: the actor that keeps the user's one event stream open.   *)
(* Every method runs to its end on the actor, so each is one step.  What   *)
(* makes it hard is what waits for the actor: a callback of the stream is  *)
(* a task of its own that captured the generation at open, and a timer     *)
(* that got past its isCancelled check calls back whatever was cancelled   *)
(* meanwhile.                                                              *)
(*                                                                         *)
(* Times are left out: a timer may fire at any moment after it was set, so *)
(* the back-off, which only lengthens delays, is left out with them, and   *)
(* so are the decoded events, which pass through without changing state.   *)
(***************************************************************************)
EXTENDS Naturals, StreamOwners

CONSTANTS
    MaxOpens,   \* bound: the streams ever opened
    MaxDue      \* bound: fired timers of a kind that wait for the actor

ASSUME EventStreamerAssumption == MaxOpens \in Nat /\ MaxDue \in Nat

None == 0
Generations == 1..MaxOpens

VARIABLES
    \* the actor's
    owner,
    isStreaming,
    isReconnecting,
    streamReference,    \* the generation of the stream held, or None
    streamGeneration,
    isConnectionLive,
    hasRecentPing,
    \* its timers
    pingTimer,          \* pingTimeoutTask sleeps
    timeouts,           \* handleTimeout calls waiting for the actor
    reconnectTimer,     \* reconnectTask sleeps
    strayTimers,        \* tasks reconnectTask was overwritten over, asleep
    reconnects,         \* performReconnect calls waiting for the actor
    \* the streams
    connection,         \* where each generation's call is
    callbacks,          \* what each has waiting for the actor
    openedFor,          \* whose key pair signed the handshake
    \* the consumer
    subscriber,         \* who holds the current pair of streams
    toldLive            \* the generation of its last .live, or None

flags == <<owner, isStreaming, isReconnecting>>
timers == <<pingTimer, timeouts, reconnectTimer, strayTimers, reconnects>>
streamVars == <<streamReference, streamGeneration, connection, openedFor>>
vars == <<flags, timers, streamVars, isConnectionLive, hasRecentPing,
          callbacks, subscriber, toldLive>>

\* What a stream delivers: a ping, an error that ends it for good, one that
\* asks for another try, its terminal status.
Responses == {"ping", "denied", "rejected"}
Callbacks == Responses \cup {"closed"}

TypeOK ==
    /\ owner \in Owners \cup {NoOwner}
    /\ isStreaming \in BOOLEAN
    /\ isStreaming <=> owner # NoOwner
    /\ isReconnecting \in BOOLEAN
    /\ streamGeneration \in 0..MaxOpens
    /\ streamReference \in {None, streamGeneration}
    /\ isConnectionLive \in BOOLEAN
    /\ hasRecentPing \in BOOLEAN
    /\ pingTimer \in BOOLEAN
    /\ reconnectTimer \in BOOLEAN
    /\ timeouts \in Nat
    /\ strayTimers \in Nat
    /\ reconnects \in Nat
    /\ connection \in [Generations -> {"none", "up", "cancelled", "over"}]
    /\ callbacks \in [Generations -> SUBSET Callbacks]
    /\ openedFor \in [Generations -> Owners \cup {NoOwner}]
    /\ subscriber \in Owners \cup {NoOwner}
    /\ toldLive \in 0..MaxOpens

Init ==
    /\ owner = NoOwner
    /\ isStreaming = FALSE
    /\ isReconnecting = FALSE
    /\ streamReference = None
    /\ streamGeneration = 0
    /\ isConnectionLive = FALSE
    /\ hasRecentPing = FALSE
    /\ pingTimer = FALSE
    /\ timeouts = 0
    /\ reconnectTimer = FALSE
    /\ strayTimers = 0
    /\ reconnects = 0
    /\ connection = [g \in Generations |-> "none"]
    /\ callbacks = [g \in Generations |-> {}]
    /\ openedFor = [g \in Generations |-> NoOwner]
    /\ subscriber = NoOwner
    /\ toldLive = None

-----------------------------------------------------------------------------
(* What the methods share.                                                 *)

\* Mutant: the reference is let go of and its call runs on.
NeverCancelled == connection

\* streamReference?.cancel(), the connections after it.
Cancelled ==
    [g \in Generations |->
        IF g = streamReference /\ connection[g] = "up"
        THEN "cancelled" ELSE connection[g]]

\* streamReference?.cancel(); streamReference = nil.
DropStream ==
    /\ connection' = Cancelled
    /\ streamReference' = None

\* reportConnection: only a change reaches the consumer.
ReportConnection(live) ==
    /\ isConnectionLive' = live
    /\ toldLive' = IF live /\ ~isConnectionLive THEN streamGeneration ELSE toldLive

\* Mutant: the open leaves isReconnecting set.
OpenStreamStillReconnecting(o) ==
    /\ streamGeneration < MaxOpens
    /\ streamGeneration' = streamGeneration + 1
    /\ streamReference' = streamGeneration'
    /\ connection' = [Cancelled EXCEPT ![streamGeneration'] = "up"]
    /\ openedFor' = [openedFor EXCEPT ![streamGeneration'] = o]
    /\ UNCHANGED isReconnecting
    /\ pingTimer' = TRUE
    /\ hasRecentPing' = TRUE

\* openStream, past its guard: a new generation replaces the stream held, a
\* ping timer starts, and the open counts as a sign of life.
OpenStream(o) ==
    /\ streamGeneration < MaxOpens
    /\ streamGeneration' = streamGeneration + 1
    /\ streamReference' = streamGeneration'
    /\ connection' = [Cancelled EXCEPT ![streamGeneration'] = "up"]
    /\ openedFor' = [openedFor EXCEPT ![streamGeneration'] = o]
    /\ isReconnecting' = FALSE
    /\ pingTimer' = TRUE
    /\ hasRecentPing' = TRUE

\* reconnectTask is set; one still asleep is overwritten, not cancelled.
ScheduleReconnect ==
    /\ strayTimers' = strayTimers + (IF reconnectTimer THEN 1 ELSE 0)
    /\ reconnectTimer' = TRUE

\* reconnect: tears the stream down and sets the timer for the next.
Reconnect ==
    IF isStreaming /\ ~isReconnecting
    THEN /\ isReconnecting' = TRUE
         /\ pingTimer' = FALSE
         /\ hasRecentPing' = FALSE
         /\ ReportConnection(FALSE)
         /\ DropStream
         /\ ScheduleReconnect
    ELSE UNCHANGED <<isReconnecting, pingTimer, hasRecentPing, isConnectionLive,
                     toldLive, connection, streamReference, strayTimers,
                     reconnectTimer>>

\* Mutant: the owner survives the stop.
StopKeepsOwner ==
    /\ isStreaming' = FALSE
    /\ isReconnecting' = FALSE
    /\ ReportConnection(FALSE)
    /\ UNCHANGED owner
    /\ pingTimer' = FALSE
    /\ hasRecentPing' = FALSE
    /\ reconnectTimer' = FALSE
    /\ DropStream

\* stop.
StopStreaming ==
    /\ isStreaming' = FALSE
    /\ isReconnecting' = FALSE
    /\ ReportConnection(FALSE)
    /\ owner' = NoOwner
    /\ pingTimer' = FALSE
    /\ hasRecentPing' = FALSE
    /\ reconnectTimer' = FALSE
    /\ DropStream

-----------------------------------------------------------------------------
(* The calls of the public interface.                                      *)

\* Mutant: the owner is taken over before start looks at isStreaming.
SubscribeTakesOver(o) ==
    /\ subscriber' = o
    /\ toldLive' = None
    /\ isConnectionLive' = FALSE
    /\ owner' = o
    /\ \/ /\ isStreaming
          /\ UNCHANGED <<isStreaming, isReconnecting, streamVars, pingTimer,
                         hasRecentPing>>
       \/ /\ ~isStreaming
          /\ isStreaming' = TRUE
          /\ OpenStream(o)
    /\ UNCHANGED <<timeouts, reconnectTimer, strayTimers, reconnects, callbacks>>

\* subscribe: a fresh pair of streams for the caller, the liveness latch
\* cleared, and start, which does nothing while a stream is kept for anyone.
Subscribe(o) ==
    /\ subscriber' = o
    /\ toldLive' = None
    /\ isConnectionLive' = FALSE
    /\ \/ /\ isStreaming
          /\ UNCHANGED <<flags, streamVars, pingTimer, hasRecentPing>>
       \/ /\ ~isStreaming
          /\ owner' = o
          /\ isStreaming' = TRUE
          /\ OpenStream(o)
    /\ UNCHANGED <<timeouts, reconnectTimer, strayTimers, reconnects, callbacks>>

\* ensureConnected: replaces a stream that shows no recent ping, and any wait
\* for a reconnect.
EnsureConnected ==
    /\ isStreaming
    /\ streamReference = None \/ ~hasRecentPing \/ isReconnecting
    /\ reconnectTimer' = FALSE
    /\ ReportConnection(FALSE)
    /\ OpenStream(owner)
    /\ UNCHANGED <<owner, isStreaming, timeouts, strayTimers, reconnects,
                   callbacks, subscriber>>

Stop ==
    /\ StopStreaming
    /\ UNCHANGED <<streamGeneration, openedFor, timeouts, strayTimers,
                   reconnects, callbacks, subscriber>>

Calls == (\E o \in Owners : Subscribe(o)) \/ EnsureConnected \/ Stop
-----------------------------------------------------------------------------
(* The timers.                                                             *)

\* The ping timer wakes uncancelled and calls the actor.
PingTimerFires ==
    /\ pingTimer
    /\ timeouts < MaxDue
    /\ pingTimer' = FALSE
    /\ timeouts' = timeouts + 1
    /\ UNCHANGED <<flags, streamVars, isConnectionLive, hasRecentPing,
                   reconnectTimer, strayTimers, reconnects, callbacks,
                   subscriber, toldLive>>

HandleTimeout ==
    /\ timeouts > 0
    /\ timeouts' = timeouts - 1
    /\ Reconnect
    /\ UNCHANGED <<owner, isStreaming, streamGeneration, openedFor, reconnects,
                   callbacks, subscriber>>

ReconnectTimerFires ==
    /\ reconnects < MaxDue
    /\ reconnects' = reconnects + 1
    /\ \/ reconnectTimer /\ reconnectTimer' = FALSE /\ UNCHANGED strayTimers
       \/ strayTimers > 0 /\ strayTimers' = strayTimers - 1
                          /\ UNCHANGED reconnectTimer
    /\ UNCHANGED <<flags, streamVars, isConnectionLive, hasRecentPing,
                   pingTimer, timeouts, callbacks, subscriber, toldLive>>

\* Mutant: no stream is opened before the tracker has seen a ping.
PerformReconnectWaits ==
    /\ reconnects > 0
    /\ reconnects' = reconnects - 1
    /\ \/ isStreaming /\ hasRecentPing /\ OpenStream(owner)
          /\ UNCHANGED <<reconnectTimer, strayTimers>>
       \/ /\ isStreaming /\ ~hasRecentPing
          /\ ScheduleReconnect
          /\ UNCHANGED <<streamVars, isReconnecting, pingTimer, hasRecentPing>>
       \/ /\ ~isStreaming
          /\ isReconnecting' = FALSE
          /\ UNCHANGED <<streamVars, pingTimer, hasRecentPing, reconnectTimer,
                         strayTimers>>
    /\ UNCHANGED <<owner, isStreaming, isConnectionLive, timeouts, callbacks,
                   subscriber, toldLive>>

PerformReconnect ==
    /\ reconnects > 0
    /\ reconnects' = reconnects - 1
    /\ \/ isStreaming /\ OpenStream(owner)
       \/ /\ ~isStreaming
          /\ isReconnecting' = FALSE
          /\ UNCHANGED <<streamVars, pingTimer, hasRecentPing>>
    /\ UNCHANGED <<owner, isStreaming, isConnectionLive, timeouts,
                   reconnectTimer, strayTimers, callbacks, subscriber, toldLive>>

\* PingTracker's window passes without a ping.
PingGrowsOld ==
    /\ hasRecentPing
    /\ hasRecentPing' = FALSE
    /\ UNCHANGED <<flags, timers, streamVars, isConnectionLive, callbacks,
                   subscriber, toldLive>>

-----------------------------------------------------------------------------
(* The streams.                                                            *)

\* A message arrives; its task waits for the actor.  A cancelled call may still
\* hand over what it had received.
Receive(g, r) ==
    /\ connection[g] \in {"up", "cancelled"}
    /\ callbacks' = [callbacks EXCEPT ![g] = @ \cup {r}]
    /\ UNCHANGED <<flags, timers, streamVars, isConnectionLive, hasRecentPing,
                   subscriber, toldLive>>

\* The call ends: its status waits for the actor, unless it was cancelled.
Close(g) ==
    /\ connection[g] \in {"up", "cancelled"}
    /\ connection' = [connection EXCEPT ![g] = "over"]
    /\ callbacks' = [callbacks EXCEPT ![g] =
                       IF connection[g] = "up" THEN @ \cup {"closed"} ELSE @]
    /\ UNCHANGED <<flags, timers, streamReference, streamGeneration, openedFor,
                   isConnectionLive, hasRecentPing, subscriber, toldLive>>

Taken(g, c) ==
    /\ c \in callbacks[g]
    /\ callbacks' = [callbacks EXCEPT ![g] = @ \ {c}]

\* A callback of a generation that is no longer current does nothing.
HandleStale(g, c) ==
    /\ Taken(g, c)
    /\ g # streamGeneration
    /\ UNCHANGED <<flags, timers, streamVars, isConnectionLive, hasRecentPing,
                   subscriber, toldLive>>

\* handlePing: the connection is live, and its ping timer starts anew.
HandlePing(g) ==
    /\ Taken(g, "ping")
    /\ g = streamGeneration
    /\ ReportConnection(TRUE)
    /\ hasRecentPing' = TRUE
    /\ pingTimer' = TRUE
    /\ UNCHANGED <<flags, streamVars, timeouts, reconnectTimer, strayTimers,
                   reconnects, subscriber>>

\* handleStreamError, denied: no stream any more.
HandleDenied(g) ==
    /\ Taken(g, "denied")
    /\ g = streamGeneration
    /\ StopStreaming
    /\ UNCHANGED <<streamGeneration, openedFor, timeouts, strayTimers,
                   reconnects, subscriber>>

\* Mutant: the status is taken for the current stream's whosever it is.
HandleAnyEnd(g) ==
    /\ Taken(g, "rejected") \/ Taken(g, "closed")
    /\ Reconnect
    /\ UNCHANGED <<owner, isStreaming, streamGeneration, openedFor, timeouts,
                   reconnects, subscriber>>

\* handleStreamError, the other codes, and handleStreamStatus: try again.
HandleEnd(g) ==
    /\ Taken(g, "rejected") \/ Taken(g, "closed")
    /\ g = streamGeneration
    /\ Reconnect
    /\ UNCHANGED <<owner, isStreaming, streamGeneration, openedFor, timeouts,
                   reconnects, subscriber>>

Handle(g) ==
    \/ \E c \in Callbacks : HandleStale(g, c)
    \/ HandlePing(g) \/ HandleDenied(g) \/ HandleEnd(g)

Timers ==
    \/ PingTimerFires \/ HandleTimeout
    \/ ReconnectTimerFires \/ PerformReconnect
    \/ PingGrowsOld

Streams ==
    \E g \in Generations : (\E r \in Responses : Receive(g, r)) \/ Close(g) \/ Handle(g)

Next == Calls \/ Timers \/ Streams

Spec == Init /\ [][Next]_vars

\* Timers fire and the actor runs what waits for it.
Fairness ==
    /\ WF_vars(PingTimerFires) /\ WF_vars(HandleTimeout)
    /\ WF_vars(ReconnectTimerFires) /\ WF_vars(PerformReconnect)
    /\ \A g \in Generations : WF_vars(Handle(g))

FairSpec == Spec /\ Fairness
-----------------------------------------------------------------------------
(* Properties.                                                             *)

IsUp == \E g \in Generations : connection[g] = "up"

\* A streamer that should be streaming is never wedged: while it reconnects,
\* performReconnect is on its way; otherwise it holds a stream and something
\* will notice if no ping comes.
NotWedged ==
    isStreaming =>
        IF isReconnecting
        THEN reconnectTimer \/ strayTimers > 0 \/ reconnects > 0
        ELSE streamReference # None /\ (pingTimer \/ timeouts > 0)

\* The server evicts a user's older stream when a second opens: whatever the
\* order of calls, late timers and callbacks, only the held stream is up.
OneStream ==
    \A g \in Generations : connection[g] = "up" => g = streamReference

\* The streamer is the StreamKeeper its callers take it for: the stream that is
\* up is its owner's, and only stop and denied release the owner.
Served ==
    IF IsUp THEN openedFor[CHOOSE g \in Generations : connection[g] = "up"]
    ELSE NoOwner

Keeper == INSTANCE StreamKeeper WITH served <- Served

KeepsOneStream == Keeper!KeeperSpec

\* A torn-down stream's late callback never tears down its replacement, which
\* is what streamGeneration is for.
LateCallbackSparesReplacement ==
    [][\A g \in Generations :
          callbacks'[g] # callbacks[g] /\ connection[g] # "up"
             => \A h \in Generations \ {g} :
                    connection[h] = "up" => connection'[h] = "up"]_vars

\* A dropped stream comes back: a streaming streamer without a stream opens
\* one, is stopped, or has used up the model's streams.
StreamComesBack ==
    isStreaming /\ ~IsUp ~> IsUp \/ ~isStreaming \/ streamGeneration = MaxOpens

\* What the doc of EventStreamConnectionState.live says: emitted once per
\* connection, so that a reconnect produces a fresh .live.  The ping that proves
\* the held connection alive leaves the consumer told of that connection.
FreshLive ==
    [][\A g \in Generations :
          g = streamReference /\ "ping" \in callbacks[g] /\ "ping" \notin callbacks'[g]
             => toldLive' = g]_vars
=============================================================================
